------------------------------ MODULE RunTiger ------------------------------
(***************************************************************************)
(* What an expression of the language does, by the rules of the language   *)
(* and without types: every value carries what it is, and an operation on  *)
(* a value it is not meant for gets stuck.  Operands, arguments and the    *)
(* two sides of an assignment are evaluated from left to right.            *)
(***************************************************************************)
EXTENDS Integers, Sequences, TLC

CONSTANTS MaxTurns,    \* turns of loops before a run counts as endless
          FirstBlock

Value(is, v) == [is |-> is, v |-> v]
IntValue(v) == Value("int", v)
Nothing == Value("nothing", 0)

Going(s) == s.state = "running" /\ ~ s.broke
Halt(s, why) == [s EXCEPT !.state = why]
Gives(s, value) == [s EXCEPT !.value = value]
Then(s, Go(_)) == IF Going(s) THEN Go(s) ELSE s
GivesTruth(s, test) == Gives(s, IntValue(IF test THEN 1 ELSE 0))

AllInts(values) == \A i \in DOMAIN values : values[i].is = "int"

References == {"list", "nil"}
SameSort(left, right) ==
    left.is = right.is \/ (left.is \in References /\ right.is \in References)

Compared(operation, left, right, s) ==
    IF ~ SameSort(left, right) \/ left.is = "nothing" THEN Halt(s, "stuck")
    ELSE IF operation = "equal" THEN GivesTruth(s, left.v = right.v)
    ELSE IF operation = "nonequal" THEN GivesTruth(s, left.v # right.v)
    ELSE IF left.is \notin {"int", "string"} THEN Halt(s, "stuck")
    ELSE GivesTruth(s, CASE operation = "less" -> left.v < right.v
                         [] operation = "lessequal" -> left.v <= right.v
                         [] operation = "greater" -> left.v > right.v
                         [] operation = "greatequal" -> left.v >= right.v)

\* Towards zero.
Quotient(left, right) ==
    LET size(n) == IF n < 0 THEN - n ELSE n
        quotient == size(left) \div size(right)
    IN  IF (left < 0) = (right < 0) THEN quotient ELSE - quotient

Computed(operation, left, right, s) ==
    IF ~ AllInts(<<left, right>>) THEN Halt(s, "stuck")
    ELSE IF operation = "div" /\ right.v = 0 THEN Halt(s, "zero")
    ELSE Gives(s, IntValue(CASE operation = "plus" -> left.v + right.v
                             [] operation = "minus" -> left.v - right.v
                             [] operation = "mul" -> left.v * right.v
                             [] operation = "div" -> Quotient(left.v, right.v)))

\* An element or a field of what is in the heap.
At(block, position, s) ==
    IF block.v = 0 THEN Halt(s, "nil")
    ELSE IF position \notin DOMAIN s.heap[block.v] THEN Halt(s, "outside")
    ELSE Gives(s, s.heap[block.v][position])

Allocated(is, cells, s) ==
    [s EXCEPT !.heap = (s.block :> cells) @@ @, !.block = @ + 8 * Len(cells), !.value = Value(is, s.block)]

FieldNumber == [head |-> 1, tail |-> 2]

RECURSIVE Run(_, _, _, _), RunAll(_, _, _, _, _), Turns(_, _, _, _), Counts(_, _, _, _, _, _)

\* Expressions one after the other; the value is the sequence of theirs.
RunAll(es, path, env, s, values) ==
    LET i == Len(values) + 1
    IN  IF i > Len(es) THEN Gives(s, values)
        ELSE Then(Run(es[i], Append(path, i), env, s),
                  LAMBDA one : RunAll(es, path, env, one, Append(values, one.value)))

Parts(e) ==
    CASE e.left.kind = "IDENTIFIER"    -> <<e.right>>
      [] e.left.kind = "ARRAYINDEXING" -> <<e.left.array, e.left.index, e.right>>
      [] e.left.kind = "RECORDFIELD"   -> <<e.left.record, e.right>>

\* What an assignment writes: the place of a variable, or a cell.
Assigns(left, values, env, s) ==
    LET value == values[Len(values)]
        position == IF left.kind = "RECORDFIELD" THEN FieldNumber[left.field] ELSE values[2].v + 1
    IN  IF value.is = "nothing" THEN Halt(s, "stuck")
        ELSE IF left.kind = "IDENTIFIER"
        THEN [s EXCEPT !.vars[env[left.name]] = value, !.value = Nothing]
        ELSE IF values[1].is \notin {"array", "list", "nil"}
                \/ (left.kind = "ARRAYINDEXING" /\ ~ AllInts(<<values[2]>>))
        THEN Halt(s, "stuck")
        ELSE Then(At(values[1], position, s),
                  LAMBDA cell : [cell EXCEPT !.heap[values[1].v][position] = value, !.value = Nothing])

\* Turns of a while loop, the loop's condition first.
TurnsOn(e, path, env, action) ==
    IF action.turns = MaxTurns THEN Halt(action, "endless")
    ELSE Turns(e, path, env, [action EXCEPT !.turns = @ + 1])

Turns(e, path, env, s) ==
    Then(Run(e.condition, Append(path, 1), env, s),
         LAMBDA condition :
            IF ~ AllInts(<<condition.value>>) THEN Halt(condition, "stuck")
            ELSE IF condition.value.v = 0 THEN Gives(condition, Nothing)
            ELSE Then(Run(e.action, Append(path, 2), env, condition),
                      LAMBDA action : TurnsOn(e, path, env, action)))

Counts(e, i, stop, path, env, s) ==
    IF i > stop THEN Gives(s, Nothing)
    ELSE Then(Run(e.action, Append(path, 3), env, [s EXCEPT !.vars[env[e.variable]] = IntValue(i)]),
              LAMBDA action : Counts(e, i + 1, stop, path, env, action))

\* A break ends the loop it is in.
LoopEnds(s) == [s EXCEPT !.broke = FALSE, !.value = Nothing]

RunCondition(e, path, env, s, elseaction) ==
    Then(Run(e.condition, Append(path, 1), env, s),
         LAMBDA condition :
            IF ~ AllInts(<<condition.value>>) THEN Halt(condition, "stuck")
            ELSE IF condition.value.v # 0 THEN Run(e.action, Append(path, 2), env, condition)
            ELSE IF elseaction = <<>> THEN Gives(condition, Nothing)
            ELSE Run(elseaction[1], Append(path, 3), env, condition))

Constant(v) == [kind |-> "INTVALUE", value |-> v]

RunBinary(e, path, env, s) ==
    CASE e.operation = "assign" ->
            Then(RunAll(Parts(e), path, env, s, <<>>), LAMBDA all : Assigns(e.left, all.value, env, all))
      [] e.operation = "and" ->
            RunCondition([condition |-> e.left, action |-> e.right], path, env, s, <<Constant(0)>>)
      [] e.operation = "or" ->
            RunCondition([condition |-> e.left, action |-> Constant(1)], path, env, s, <<e.right>>)
      [] OTHER ->
            Then(RunAll(<<e.left, e.right>>, path, env, s, <<>>),
                 LAMBDA all :
                    IF e.operation \in {"plus", "minus", "mul", "div"}
                    THEN Computed(e.operation, all.value[1], all.value[2], all)
                    ELSE Compared(e.operation, all.value[1], all.value[2], all))

\* Expressions of which the last one gives the value.
RunSequence(es, path, env, s) ==
    IF es = <<>> THEN Gives(s, Nothing)
    ELSE Then(RunAll(es, path, env, s, <<>>), LAMBDA all : Gives(all, all.value[Len(es)]))

\* Declarations one after the other, each in sight of those before it.
RECURSIVE RunScope(_, _, _, _, _)
RunScope(e, i, path, env, s) ==
    LET declaration == e.declarations[i]
        place == path \o <<9, i>>
    IN  IF i > Len(e.declarations) THEN RunSequence(e.action, Append(path, 2), env, s)
        ELSE Then(Run(declaration.value, path \o <<1, i>>, env, s),
                  LAMBDA s1 :
                    IF s1.value.is = "nothing" THEN Halt(s1, "stuck")
                    ELSE RunScope(e, i + 1, path, (declaration.name :> place) @@ env,
                                  [s1 EXCEPT !.vars = (place :> s1.value) @@ @]))

RunFor(e, path, env, bounds) ==
    IF ~ AllInts(bounds.value) THEN Halt(bounds, "stuck")
    ELSE LET place == Append(path, 9)
         IN  Counts(e, bounds.value[2].v, bounds.value[1].v, path, (e.variable :> place) @@ env,
                    [bounds EXCEPT !.vars = (place :> IntValue(0)) @@ @])

\* A function is seen from outside.
Call(e, env, s) ==
    IF \E i \in DOMAIN s.value : s.value[i].is = "nothing" THEN Halt(s, "stuck")
    ELSE [s EXCEPT
            !.trace = Append(@, <<env[e.function], s.value>>),
            !.value = IF e.function = "p" THEN Nothing
                      ELSE IntValue(IF s.inputs = <<>> THEN 0 ELSE Head(s.inputs)),
            !.inputs = IF @ = <<>> THEN @ ELSE Tail(@)]

Indexed(s) ==
    IF s.value[1].is # "array" \/ s.value[2].is # "int" THEN Halt(s, "stuck")
    ELSE At(s.value[1], s.value[2].v + 1, s)

FieldOf(e, s) ==
    IF s.value.is \notin References THEN Halt(s, "stuck") ELSE At(s.value, FieldNumber[e.field], s)

NewArray(s) ==
    IF ~ AllInts(s.value) THEN Halt(s, "stuck")
    ELSE Allocated("array", [i \in 1 .. s.value[1].v |-> s.value[2]], s)

\* The record is made before the values of its fields.
NewRecord(e, path, env, s) ==
    Then(RunAll([i \in DOMAIN e.fieldvalues |-> e.fieldvalues[i].value], path, env, s, <<>>),
         LAMBDA all : [all EXCEPT !.heap[s.value.v] = all.value, !.value = s.value])

Run(e, path, env, s) ==
    CASE e.kind = "INTVALUE"    -> Gives(s, IntValue(e.value))
      [] e.kind = "STRINGVALUE" -> Gives(s, Value("string", 10000 + e.value))
      [] e.kind = "NIL"         -> Gives(s, Value("nil", 0))
      [] e.kind = "IDENTIFIER"  ->
            IF e.name \in DOMAIN env THEN Gives(s, s.vars[env[e.name]]) ELSE Halt(s, "stuck")
      [] e.kind = "BINARYOP"    -> RunBinary(e, path, env, s)
      [] e.kind = "SEQUENCE"    -> RunSequence(e.content, path, env, s)
      [] e.kind = "ARRAYINDEXING" -> Then(RunAll(<<e.array, e.index>>, path, env, s, <<>>), Indexed)
      [] e.kind = "RECORDFIELD" ->
            Then(Run(e.record, Append(path, 1), env, s), LAMBDA record : FieldOf(e, record))
      [] e.kind = "ARRAYINSTANTIATION" -> Then(RunAll(<<e.length, e.value>>, path, env, s, <<>>), NewArray)
      [] e.kind = "RECORDINSTANTIATION" ->
            NewRecord(e, path, env, Allocated("list", [i \in 1 .. 2 |-> Nothing], s))
      [] e.kind = "IF"          -> RunCondition(e, path, env, s, <<>>)
      [] e.kind = "IFELSE"      -> RunCondition(e, path, env, s, <<e.elseaction>>)
      [] e.kind = "WHILE"       -> LoopEnds(Turns(e, path, env, s))
      [] e.kind = "FOR"         ->
            LoopEnds(Then(RunAll(<<e.stop, e.start>>, path, env, s, <<>>),
                          LAMBDA bounds : RunFor(e, path, env, bounds)))
      [] e.kind = "BREAK"       -> [s EXCEPT !.broke = TRUE]
      [] e.kind = "SCOPE"       -> RunScope(e, 1, path, env, s)
      [] e.kind = "FUNCTIONCALL" ->
            Then(RunAll(e.arguments, path, env, s, <<>>), LAMBDA all : Call(e, env, all))
=============================================================================
