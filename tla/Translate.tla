----------------------------- MODULE Translate -----------------------------
(***************************************************************************)
(* What the translator makes of every kind of expression (translator.cpp): *)
(* its type and its code.  A wrong program is not translated any further;  *)
(* what else is reported about it, and its code, are left out.  Types that *)
(* are declared and the frames of functions have modules of their own: the *)
(* names of types, and the places of variables, are part of the program.   *)
(***************************************************************************)
EXTENDS IRTrees, SequencesExt, FiniteSets

VARIABLE unreturned \* what CheckComparisonTypes returns where it has no return

(***************************************************************************)
(* Types: arrays of integers and of strings, and the record of a list.     *)
(***************************************************************************)
BaseType ==
    [int |-> "int", loop_int |-> "int", string |-> "string", nil |-> "nil", void |-> "void",
     ints |-> "array", others |-> "array", list |-> "record"]

ElementType == [ints |-> "int", others |-> "string"]

FieldsOf == [list |-> <<[name |-> "head", type |-> "int"], [name |-> "tail", type |-> "list"]>>]

VarSize == 8   \* getVarSize
Offset(i) == (i - 1) * VarSize
DataSize(type) == Len(FieldsOf[type]) * VarSize

Rejected == [type |-> "error"]
Expression(type, exp) == [type |-> type, code |-> ExpressionCode(exp)]
Statements(statements) == [type |-> "void", code |-> StatementCode(StatSeq(statements))]

IsRejected(t) == t.type = "error"
IsOfType(t, base) == ~ IsRejected(t) /\ BaseType[t.type] = base
IsInt(t) == IsOfType(t, "int")

CheckAssignmentTypes_Bases(left, right) ==
    BaseType[right] = BaseType[left] \/ (BaseType[left] = "record" /\ right = "nil")
CheckAssignmentTypes_NoNil(left, right) ==
    CASE BaseType[left] \in {"int", "string"} -> BaseType[right] = BaseType[left]
      [] OTHER -> right = left
CheckAssignmentTypes(left, right) ==
    CASE BaseType[left] \in {"int", "string"} -> BaseType[right] = BaseType[left]
      [] BaseType[left] = "array"  -> right = left
      [] BaseType[left] = "record" -> right = "nil" \/ right = left

\* There is no return for "void".
CheckComparisonTypes(left, right) ==
    CASE BaseType[left] \in {"int", "string"} -> BaseType[right] = BaseType[left]
      [] BaseType[left] = "array"  -> right = left
      [] BaseType[left] = "record" -> right = "nil" \/ right = left
      [] BaseType[left] = "nil"    -> BaseType[right] = "record"
      [] OTHER                     -> unreturned

(***************************************************************************)
(* Names: variables with their type and the code that gets at them,        *)
(* functions with their label and their types.                             *)
(***************************************************************************)
FramePointer == Register(<<0>>)
Place(place) == IF place >= 0 THEN Register(<<0, place>>)
                ELSE Memory(BinaryOp("plus", FramePointer, Integer(place)))

Variable(type, place) == [kind |-> "variable", type |-> type, place |-> place]

IsNamed(names, name, kind) == name \in DOMAIN names /\ names[name].kind = kind

Declared(names, name, variable) ==
    [n \in DOMAIN names \cup {name} |-> IF n = name THEN variable ELSE names[n]]

getmem == <<1, 1>>
getmem_fill == <<1, 2>>
strcmp == <<1, 3>>
StringLabel(value) == <<2, value>>

makeCallCode(label, arguments) ==
    Call(LabelAddress(label), [i \in DOMAIN arguments |-> killCodeToExpression(arguments[i].code)])

NoLoopExit == <<>>

Comparisons == {"equal", "nonequal", "less", "lessequal", "greater", "greatequal"}

\* getOpResultType, for operands that have a value.
OperandsFit(operation, left, right) ==
    CASE operation \in {"plus", "minus", "mul", "div"} -> IsInt(left) /\ IsInt(right)
      [] operation \in {"equal", "nonequal"} -> CheckComparisonTypes(left.type, right.type)
      [] operation \in Comparisons \ {"equal", "nonequal"} ->
            BaseType[left.type] \in {"int", "string"} /\ BaseType[left.type] = BaseType[right.type]
      [] operation = "assign" ->
            CheckAssignmentTypes(left.type, right.type) /\ left.type # "loop_int"

RECURSIVE translateExpression(_, _, _, _)

translateIdentifier(e, names) ==
    IF IsNamed(names, e.name, "variable")
    THEN Expression(names[e.name].type, Place(names[e.name].place))
    ELSE Rejected

\* A comparison of strings is one of the result of a call with zero.
translateBinary(e, path, left, right) ==
    LET left_exp == killCodeToExpression(left.code)
        right_exp == killCodeToExpression(right.code)
        compared == IF IsOfType(left, "string")
                    THEN <<makeCallCode(strcmp, <<left, right>>), Integer(0)>>
                    ELSE <<left_exp, right_exp>>
    IN  CASE e.operation = "assign" ->
                [type |-> "void", code |-> StatementCode(Move(left_exp, right_exp))]
          [] e.operation \in Comparisons ->
                [type |-> "int",
                 code |-> CondJumpPatchesCode(CondJump(e.operation, compared[1], compared[2],
                                                       ReplaceTrue, ReplaceFalse), path)]
          [] OTHER -> Expression("int", BinaryOp(e.operation, left_exp, right_exp))

\* The value of an action, or the action without its value.
Kept(type, action, value_storage) ==
    IF type = "void" THEN killCodeToStatement(action.code)
    ELSE Move(value_storage, killCodeToExpression(action.code))

IfElseCode(condition, action, elseaction, type, path) ==
    LET true_label == Append(path, 11)
        false_label == Append(path, 12)
        finish_label == Append(path, 13)
        value_storage == Register(Append(path, 21))
        calculation == <<putLabels(killCodeToCondJump(condition.code), true_label, false_label),
                         Placement(true_label), Kept(type, action, value_storage),
                         JumpTo(finish_label),
                         Placement(false_label), Kept(type, elseaction, value_storage),
                         Placement(finish_label)>>
    IN  IF type = "void" THEN Statements(calculation)
        ELSE Expression(type, StatExp(StatSeq(calculation), value_storage))

translateIfElse(e, path, names, exit) ==
    LET condition == translateExpression(e.condition, Append(path, 1), names, exit)
        action == translateExpression(e.action, Append(path, 2), names, exit)
        elseaction == translateExpression(e.elseaction, Append(path, 3), names, exit)
        type == IF action.type = "nil" THEN elseaction.type ELSE action.type
    IN  IF /\ IsInt(condition) /\ ~ IsRejected(action) /\ ~ IsRejected(elseaction)
           /\ \/ action.type = "void" /\ elseaction.type = "void"
              \/ CheckComparisonTypes(action.type, elseaction.type)
        THEN IfElseCode(condition, action, elseaction, type, path)
        ELSE Rejected

translateBinaryOperation(e, path, names, exit) ==
    LET left == translateExpression(e.left, Append(path, 1), names, exit)
        right == translateExpression(e.right, Append(path, 2), names, exit)
        constant(value) == [kind |-> "INTVALUE", value |-> value]
    IN  CASE e.operation = "and" ->
                translateIfElse([condition |-> e.left, action |-> e.right,
                                 elseaction |-> constant(0)], path, names, exit)
          [] e.operation = "or" ->
                translateIfElse([condition |-> e.left, action |-> constant(1),
                                 elseaction |-> e.right], path, names, exit)
          [] OTHER ->
                IF \/ IsRejected(left) \/ IsRejected(right)
                   \/ left.type = "void" \/ right.type = "void"
                   \/ ~ OperandsFit(e.operation, left, right)
                THEN Rejected
                ELSE translateBinary(e, path, left, right)

translateIf(e, path, names, exit) ==
    LET condition == translateExpression(e.condition, Append(path, 1), names, exit)
        action == translateExpression(e.action, Append(path, 2), names, exit)
        true_label == Append(path, 11)
        false_label == Append(path, 12)
    IN  IF IsInt(condition) /\ action.type = "void"
        THEN Statements(<<putLabels(killCodeToCondJump(condition.code), true_label, false_label),
                          Placement(true_label), killCodeToStatement(action.code),
                          Placement(false_label)>>)
        ELSE Rejected

\* The jump is turned round, so that what it falls through to is the body.
translateWhile(e, path, names) ==
    LET exit_label == Append(path, 11)
        loop_label == Append(path, 12)
        proceed_label == Append(path, 13)
        condition == translateExpression(e.condition, Append(path, 1), names, exit_label)
        action == translateExpression(e.action, Append(path, 2), names, exit_label)
        jump == putLabels(killCodeToCondJump(condition.code), proceed_label, exit_label)
    IN  IF IsInt(condition) /\ action.type = "void"
        THEN Statements(<<Placement(loop_label),
                          IF jump.kind = "COND_JUMP" THEN FlipComparison(jump) ELSE jump,
                          Placement(proceed_label), killCodeToStatement(action.code),
                          JumpTo(loop_label), Placement(exit_label)>>)
        ELSE Rejected

ForCode_CheckFirst(loopvar, from, to, action, path) ==
    LET exit_label == Append(path, 11)
        loop_label == Append(path, 12)
        upper_bound == Register(Append(path, 21))
        proceed_label == Append(path, 13)
    IN  Statements(<<Move(upper_bound, killCodeToExpression(to.code)),
                     Move(loopvar, killCodeToExpression(from.code)),
                     CondJump("lessequal", loopvar, upper_bound, loop_label, exit_label),
                     Placement(loop_label), killCodeToStatement(action.code),
                     CondJump("lessequal", loopvar, upper_bound, proceed_label, exit_label),
                     Placement(proceed_label),
                     Move(loopvar, BinaryOp("plus", loopvar, Integer(1))),
                     JumpTo(loop_label), Placement(exit_label)>>)

\* The upper bound is evaluated first.  The variable is compared before it
\* is increased, so that it never goes beyond the bound.
ForCode(loopvar, from, to, action, path) ==
    LET exit_label == Append(path, 11)
        loop_label == Append(path, 12)
        proceed_label == Append(path, 13)
        upper_bound == Register(Append(path, 21))
    IN  Statements(<<Move(upper_bound, killCodeToExpression(to.code)),
                     Move(loopvar, killCodeToExpression(from.code)),
                     CondJump("lessequal", loopvar, upper_bound, loop_label, exit_label),
                     Placement(loop_label), killCodeToStatement(action.code),
                     CondJump("less", loopvar, upper_bound, proceed_label, exit_label),
                     Placement(proceed_label),
                     Move(loopvar, BinaryOp("plus", loopvar, Integer(1))),
                     JumpTo(loop_label), Placement(exit_label)>>)

translateFor(e, path, names) ==
    LET exit_label == Append(path, 11)
        from == translateExpression(e.start, Append(path, 1), names, exit_label)
        to == translateExpression(e.stop, Append(path, 2), names, exit_label)
        action == translateExpression(e.action, Append(path, 3),
                      Declared(names, e.variable, Variable("loop_int", e.place)), exit_label)
    IN  IF IsInt(from) /\ IsInt(to) /\ ~ IsRejected(action)
        THEN ForCode(Place(e.place), from, to, action, path)
        ELSE Rejected

translateSequence(expressions, path, names, exit, existing_sequence) ==
    LET items == [i \in DOMAIN expressions |->
                     translateExpression(expressions[i], Append(path, i), names, exit)]
        last == items[Len(items)]
        HasValue == items # <<>> /\ last.type # "void"
        sequence == existing_sequence \o
                    [i \in 1 .. Len(items) - (IF HasValue THEN 1 ELSE 0) |->
                        killCodeToStatement(items[i].code)]
        last_expression == killCodeToExpression(last.code)
    IN  IF \E i \in DOMAIN items : IsRejected(items[i]) THEN Rejected
        ELSE IF ~ HasValue THEN Statements(sequence)
        ELSE Expression(last.type, IF sequence = <<>> THEN last_expression
                                   ELSE StatExp(StatSeq(sequence), last_expression))

translateArrayIndexing(e, path, names, exit) ==
    LET array == translateExpression(e.array, Append(path, 1), names, exit)
        index == translateExpression(e.index, Append(path, 2), names, exit)
        offset == BinaryOp("mul", killCodeToExpression(index.code), Integer(VarSize))
    IN  IF IsOfType(array, "array") /\ IsInt(index)
        THEN Expression(ElementType[array.type],
                        Memory(BinaryOp("plus", killCodeToExpression(array.code), offset)))
        ELSE Rejected

translateArrayInstantiation(e, path, names, exit) ==
    LET length == translateExpression(e.length, Append(path, 1), names, exit)
        value == translateExpression(e.value, Append(path, 2), names, exit)
    IN  IF /\ BaseType[e.type] = "array" /\ IsInt(length) /\ ~ IsRejected(value)
           /\ CheckAssignmentTypes(ElementType[e.type], value.type)
        THEN Expression(e.type, makeCallCode(getmem_fill, <<length, value>>))
        ELSE Rejected

translateRecordField(e, path, names, exit) ==
    LET record == translateExpression(e.record, Append(path, 1), names, exit)
        fields == FieldsOf[record.type]
        position == {i \in DOMAIN fields : fields[i].name = e.field}
    IN  IF ~ IsOfType(record, "record") \/ position = {} THEN Rejected
        ELSE LET i == CHOOSE p \in position : TRUE
             IN  Expression(fields[i].type,
                     Memory(BinaryOp("plus", killCodeToExpression(record.code), Integer(Offset(i)))))

\* Fields come in the order of the type; the last ones may be missing.
translateRecordInstantiation(e, path, names, exit) ==
    LET fields == FieldsOf[e.type]
        record_address == Register(Append(path, 21))
        values == [i \in DOMAIN e.fieldvalues |->
                      translateExpression(e.fieldvalues[i].value, Append(path, i), names, exit)]
        initialization == [i \in DOMAIN values |->
            Move(Memory(BinaryOp("plus", record_address, Integer(Offset(i)))),
                 killCodeToExpression(values[i].code))]
        allocation == Move(record_address,
                           Call(LabelAddress(getmem), <<Integer(DataSize(e.type))>>))
    IN  IF \/ Len(values) > Len(fields)
           \/ \E i \in DOMAIN values :
                \/ e.fieldvalues[i].field # fields[i].name
                \/ IsRejected(values[i])
                \/ ~ CheckAssignmentTypes(fields[i].type, values[i].type)
        THEN Rejected
        ELSE Expression(e.type, StatExp(StatSeq(<<allocation>> \o initialization), record_address))

\* A break inside an argument is outside of any loop.
translateFunctionCall(e, path, names) ==
    LET function == names[e.function]
        arguments == [i \in DOMAIN e.arguments |->
                         translateExpression(e.arguments[i], Append(path, i), names, NoLoopExit)]
    IN  IF \/ ~ IsNamed(names, e.function, "function")
           \/ Len(arguments) # Len(function.parameters)
           \/ \E i \in DOMAIN arguments :
                IsRejected(arguments[i])
                \/ ~ CheckAssignmentTypes(function.parameters[i], arguments[i].type)
        THEN Rejected
        ELSE Expression(function.type, makeCallCode(function.label, arguments))

\* processVariableDeclaration: the type of a variable, or "error".
VariableType(declaration, value) ==
    IF declaration.type = "none"
    THEN IF value.type \in {"void", "nil"} THEN "error" ELSE value.type
    ELSE IF value.type \notin {"void", "error"} /\ CheckAssignmentTypes(declaration.type, value.type)
         THEN declaration.type ELSE "error"

RECURSIVE processDeclarations(_, _, _, _)
processDeclarations(declarations, i, path, names) ==
    IF i > Len(declarations) THEN [names |-> names, moves |-> <<>>, correct |-> TRUE]
    ELSE LET declaration == declarations[i]
             value == translateExpression(declaration.value, Append(path, i), names, NoLoopExit)
             type == VariableType(declaration, value)
             rest == processDeclarations(declarations, i + 1, path,
                         Declared(names, declaration.name, Variable(type, declaration.place)))
         IN  IF type = "error" THEN [names |-> names, moves |-> <<>>, correct |-> FALSE]
             ELSE [rest EXCEPT !.moves =
                      <<Move(Place(declaration.place), killCodeToExpression(value.code))>> \o @]

\* A break in a scope is outside of any loop, too.
translateScope(e, path, names) ==
    LET declared == processDeclarations(e.declarations, 1, Append(path, 1), names)
    IN  IF ~ declared.correct THEN Rejected
        ELSE translateSequence(e.action, Append(path, 2), declared.names, NoLoopExit, declared.moves)

translateExpression(e, path, names, exit) ==
    CASE e.kind = "INTVALUE"    -> Expression("int", Integer(e.value))
      [] e.kind = "STRINGVALUE" -> Expression("string", LabelAddress(StringLabel(e.value)))
      [] e.kind = "NIL"         -> Expression("nil", Integer(0))
      [] e.kind = "IDENTIFIER"  -> translateIdentifier(e, names)
      [] e.kind = "BINARYOP"    -> translateBinaryOperation(e, path, names, exit)
      [] e.kind = "SEQUENCE"    -> translateSequence(e.content, path, names, exit, <<>>)
      [] e.kind = "ARRAYINDEXING" -> translateArrayIndexing(e, path, names, exit)
      [] e.kind = "ARRAYINSTANTIATION" -> translateArrayInstantiation(e, path, names, exit)
      [] e.kind = "IF"          -> translateIf(e, path, names, exit)
      [] e.kind = "IFELSE"      -> translateIfElse(e, path, names, exit)
      [] e.kind = "WHILE"       -> translateWhile(e, path, names)
      [] e.kind = "FOR"         -> translateFor(e, path, names)
      [] e.kind = "BREAK"       -> IF exit = NoLoopExit THEN Rejected
                                   ELSE [type |-> "void", code |-> StatementCode(JumpTo(exit))]
      [] e.kind = "SCOPE"       -> translateScope(e, path, names)
      [] e.kind = "RECORDFIELD" -> translateRecordField(e, path, names, exit)
      [] e.kind = "FUNCTIONCALL" -> translateFunctionCall(e, path, names)
      [] e.kind = "RECORDINSTANTIATION" -> translateRecordInstantiation(e, path, names, exit)
=============================================================================
