----------------------------- MODULE TypeNames -----------------------------
(***************************************************************************)
(* Names of types: TypesEnvironment (translator.cpp, types.cpp).  Types    *)
(* that are declared one after the other form a batch and may refer to     *)
(* each other; a name that is not known yet becomes a reference whose      *)
(* meaning is filled in when it is declared.  Beside it env holds what     *)
(* the names mean by the rules of the language.                            *)
(***************************************************************************)
EXTENDS LayeredMap, FiniteSets

CONSTANTS
    TypeIds,         \* names a program may declare as types
    MaxDeclarations, \* bound on the declarations of a program
    MaxLayers        \* bound on nested scopes

ASSUME BoundsAssumption ==
    /\ MaxDeclarations \in Nat /\ MaxLayers \in Nat \ {0}

VARIABLES
    types,         \* type objects: kind, meaning of a reference, names and types of parts
    typenames,     \* the map of names to objects
    batch,         \* declarations of the batch: name, kind, object
    unknown_types, \* references made in the batch
    pc,            \* which loop of processTypeDeclarationBatch comes next
    current,       \* the reference from which the third loop looks for a circle
    visited_types, \* the references it has been to
    errors,        \* have errors been reported for the batch?
    rejected,      \* have errors been reported before?
    declarations,  \* number of declarations so far
    env            \* names to objects by the rules of the language (not in the code)

vars == <<types, typenames, batch, unknown_types, pc, current, visited_types,
          errors, rejected, declarations, env>>

NULL == 0
int_type == 1
error_type == 2

Object(kind, parts, part_types) ==
    [kind |-> kind, meaning |-> NULL, parts |-> parts, part_types |-> part_types]

\* int is a name like others.
IntName == "int"

Init ==
    /\ types = <<Object("int", <<>>, <<>>), Object("error", <<>>, <<>>)>>
    /\ typenames = add(EmptyMap, IntName, int_type)
    /\ env = add(EmptyMap, IntName, int_type)
    /\ batch = <<>> /\ unknown_types = <<>>
    /\ pc = "declare" /\ current = NULL /\ visited_types = {}
    /\ errors = FALSE /\ rejected = FALSE /\ declarations = 0

Objects == 1 .. Len(types)

IsReference(t) == types[t].kind = "reference"

-----------------------------------------------------------------------------
(* Declarations *)

\* getType of a name: a name that is not found is added as a reference.
Named(name) ==
    LET known == lookup(typenames, name, NULL)
    IN  IF known # NULL
        THEN [types |-> types, names |-> typenames, unknown |-> unknown_types, type |-> known]
        ELSE LET new == Len(types) + 1
             IN  [types |-> Append(types, Object("reference", <<>>, <<>>)),
                  names |-> add(typenames, name, new),
                  unknown |-> Append(unknown_types, new),
                  type |-> new]

\* getType of a definition: the type of a name, or a new array or record
\* ("complex") one of whose parts, elements or fields, has the type of a name.
Defined(kind, part) ==
    LET named == Named(part)
    IN  IF kind = "name" THEN named
        ELSE [named EXCEPT !.types = Append(@, Object(kind, <<part>>, <<named.type>>)),
                           !.type = Len(named.types) + 1]

HasBinding_AnyLayer(names, name) == lookup(names, name, NULL) # NULL
\* lookup_last_layer: the declared name is already there.
HasBinding(names, name) == BoundInLastLayer(names, name)

InBatch(name) == \E i \in DOMAIN batch : batch[i].name = name

\* A reference that waits for the name gets its meaning.
Meant(existing, type, objects) ==
    IF objects[existing].kind = "reference" /\ objects[existing].meaning = NULL
    THEN [objects EXCEPT ![existing].meaning = type]
    ELSE objects

\* The first loop: one declaration.
Declare(name, kind, part) ==
    /\ pc = "declare" /\ declarations < MaxDeclarations
    /\ declarations' = declarations + 1
    /\ LET defined == Defined(kind, part)
           bound == HasBinding(defined.names, name)
           existing == lookup(defined.names, name, NULL)
       IN  /\ types' = IF bound THEN Meant(existing, defined.type, defined.types)
                                ELSE defined.types
           /\ typenames' = IF bound THEN defined.names
                                    ELSE add(defined.names, name, defined.type)
           /\ unknown_types' = defined.unknown
           /\ batch' = Append(batch,
                 [name |-> name, kind |-> kind, part |-> part, object |-> defined.type])
    /\ errors' = (errors \/ InBatch(name))
    /\ UNCHANGED <<pc, current, visited_types, rejected, env>>

\* Something else than a type is declared, or the declarations end.
BatchEnds ==
    /\ pc = "declare" /\ batch # <<>>
    /\ pc' = "undefined"
    /\ UNCHANGED <<types, typenames, batch, unknown_types, current, visited_types, errors, env, rejected, declarations>>

\* The second loop: references without a meaning.
Undefined(t) == IsReference(t) /\ types[t].meaning = NULL

Unknown == {unknown_types[i] : i \in DOMAIN unknown_types}

RejectUndefined_Silent ==
    /\ pc = "undefined"
    /\ types' = [t \in DOMAIN types |->
          IF t \in Unknown /\ Undefined(t)
          THEN [types[t] EXCEPT !.meaning = error_type] ELSE types[t]]
    /\ pc' = "circular"
    /\ UNCHANGED <<typenames, batch, unknown_types, current, visited_types, errors, env, rejected, declarations>>

RejectUndefined ==
    /\ pc = "undefined"
    /\ types' = [t \in DOMAIN types |->
          IF t \in Unknown /\ Undefined(t)
          THEN [types[t] EXCEPT !.meaning = error_type] ELSE types[t]]
    /\ errors' = (errors \/ \E t \in Unknown : Undefined(t))
    /\ pc' = "circular"
    /\ UNCHANGED <<typenames, batch, unknown_types, current, visited_types, env, rejected, declarations>>

\* The third loop: circles among the references, one reference after the other.
StartWalk ==
    /\ pc = "circular" /\ unknown_types # <<>>
    /\ current' = Head(unknown_types)
    /\ unknown_types' = Tail(unknown_types)
    /\ visited_types' = {}
    /\ pc' = "walk"
    /\ UNCHANGED <<types, typenames, batch, errors, env, rejected, declarations>>

Visited_NotNoted == visited_types
Visited == visited_types \cup {current}

CircleBroken_ReportedOnly == types
\* The reference that closes a circle means the error type.
CircleBroken == [types EXCEPT ![current].meaning = error_type]

WalkOn ==
    /\ pc = "walk" /\ IsReference(types[current].meaning)
    /\ visited_types' = Visited
    /\ LET next == types[current].meaning IN
       IF next \in visited_types'
       THEN /\ types' = CircleBroken
            /\ errors' = TRUE
            /\ pc' = "circular"
            /\ UNCHANGED current
       ELSE /\ current' = next
            /\ UNCHANGED <<types, errors, pc, rejected, declarations>>
    /\ UNCHANGED <<typenames, batch, unknown_types, env, rejected, declarations>>

WalkEnds ==
    /\ pc = "walk" /\ ~ IsReference(types[current].meaning)
    /\ pc' = "circular"
    /\ UNCHANGED <<types, typenames, batch, unknown_types, current, visited_types, errors, env, rejected, declarations>>

-----------------------------------------------------------------------------
(* What the names mean *)

\* resolve: following meanings.  Without a circle no path is longer than
\* the number of types.
Following[n \in Nat] ==
    [t \in Objects \cup {NULL} |->
        IF t = NULL \/ ~ IsReference(t) THEN t
        ELSE IF n = 0 THEN NULL
        ELSE Following[n - 1][types[t].meaning]]

Resolved(t) == Following[Len(types)][t]

\* Names the batch gives a meaning: the first declaration of a name in a scope
\* stays, and a later one is ignored.
Declares(name) == InBatch(name) /\ name \notin DOMAIN LastLayer(env)

First(name) == CHOOSE i \in DOMAIN batch :
    batch[i].name = name /\ \A j \in DOMAIN batch : batch[j].name = name => i <= j

\* The part of a declaration may name a type declared before it, further out as
\* well, although the batch declares the name later on.
KnownBefore(i) ==
    /\ lookup(env, batch[i].part, NULL) # NULL
    /\ ~ (Declares(batch[i].part) /\ First(batch[i].part) < i)

\* A name of the batch is the type declared there, any other the innermost one
\* declared before.
Meanings[n \in Nat] ==
    [name \in TypeIds \cup {IntName} |->
        IF ~ Declares(name) THEN lookup(env, name, error_type)
        ELSE LET i == First(name) IN
             IF batch[i].kind # "name" THEN batch[i].object
             ELSE IF KnownBefore(i) THEN lookup(env, batch[i].part, error_type)
             ELSE IF n = 0 THEN error_type
             ELSE Meanings[n - 1][batch[i].part]]

Meaning(name) == Meanings[Len(batch)][name]

PartMeaning(i) ==
    IF KnownBefore(i) THEN lookup(env, batch[i].part, error_type) ELSE Meaning(batch[i].part)

BatchIsWrong ==
    \/ \E i, j \in DOMAIN batch : i # j /\ batch[i].name = batch[j].name
    \/ \E i \in DOMAIN batch :
          \/ Meaning(batch[i].name) = error_type
          \/ PartMeaning(i) = error_type

\* The last loop, which resolves the types of the fields, and the return.
BatchDone ==
    /\ pc = "circular" /\ unknown_types = <<>>
    /\ env' = [env EXCEPT ![Len(env)] =
          [name \in DOMAIN @ \cup {batch[i].name : i \in DOMAIN batch} |->
             IF Declares(name) THEN Meaning(name) ELSE @[name]]]
    /\ batch' = <<>>
    /\ rejected' = (rejected \/ errors) /\ errors' = FALSE
    /\ pc' = "declare"
    /\ current' = NULL /\ visited_types' = {}
    /\ UNCHANGED <<types, typenames, unknown_types, declarations>>

NewLayer ==
    /\ pc = "declare" /\ batch = <<>> /\ Len(env) < MaxLayers
    /\ typenames' = newLayer(typenames) /\ env' = newLayer(env)
    /\ UNCHANGED <<types, batch, unknown_types, pc, current, visited_types, errors, rejected, declarations>>

RemoveLayer ==
    /\ pc = "declare" /\ batch = <<>> /\ Len(env) > 1
    /\ typenames' = removeLastLayer(typenames) /\ env' = removeLastLayer(env)
    /\ UNCHANGED <<types, batch, unknown_types, pc, current, visited_types, errors, rejected, declarations>>

Next ==
    \/ \E name \in TypeIds, kind \in {"name", "complex"}, part \in TypeIds \cup {IntName} :
          Declare(name, kind, part)
    \/ BatchEnds \/ RejectUndefined
    \/ StartWalk \/ WalkOn \/ WalkEnds \/ BatchDone
    \/ NewLayer \/ RemoveLayer

\* The loops run without waiting for anything.
Working == RejectUndefined \/ StartWalk \/ WalkOn \/ WalkEnds \/ BatchDone

Spec == Init /\ [][Next]_vars /\ WF_vars(Working)

-----------------------------------------------------------------------------
(* Properties *)

TypeOK ==
    /\ \A t \in Objects :
          /\ types[t].kind \in {"int", "error", "reference", "complex"}
          /\ types[t].meaning \in Objects \cup {NULL}
          /\ \A k \in DOMAIN types[t].part_types : types[t].part_types[k] \in Objects
    /\ \A i \in DOMAIN typenames : \A n \in DOMAIN typenames[i] : typenames[i][n] \in Objects
    /\ Unknown \subseteq Objects
    /\ pc \in {"declare", "undefined", "circular", "walk"}
    /\ Len(env) = Len(typenames)

BetweenBatches == pc = "declare" /\ batch = <<>>

\* Between batches every reference leads to a type, wrong programs
\* included: resolve never meets a stray reference or runs in a circle.
EverythingResolves ==
    BetweenBatches => \A t \in Objects : Resolved(t) # NULL

\* The loop over the references ends.
BatchesEnd == [](pc = "undefined" => <>BetweenBatches)

LoopsDone == pc = "circular" /\ unknown_types = <<>>

\* A batch is rejected just when a name is undefined, declared twice or
\* defined by itself.
RejectsExactly == LoopsDone /\ ~ rejected => (errors <=> BatchIsWrong)

\* In a correct program a name is the first type declared under it in the
\* innermost scope that declares it, also where it is used before that
\* declaration but for a name that is known further out by then.  It is the type
\* of a part as well.  Both rules are the code's: samples/test47.tig lets a second
\* declaration hide the first, samples/test41.tig a local type the global one.
NamesMeanTheirDeclarations ==
    /\ BetweenBatches /\ ~ rejected =>
          \A name \in TypeIds : Resolved(lookup(typenames, name, NULL)) = lookup(env, name, NULL)
    /\ LoopsDone /\ ~ errors /\ ~ rejected =>
          \A i \in DOMAIN batch : batch[i].kind = "complex" =>
              Resolved(types[batch[i].object].part_types[1]) = PartMeaning(i)
=============================================================================
