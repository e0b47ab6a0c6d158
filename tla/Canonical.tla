----------------------------- MODULE Canonical -----------------------------
(***************************************************************************)
(* Canonicalization (ir_transformer.cpp): statements are pulled out of     *)
(* expressions, in front of the statement or expression they are in, and   *)
(* calls become statements of their own.  What was to be evaluated before  *)
(* a statement that moves is saved in a register, unless the two can be    *)
(* swapped.  "path" is the place in the tree, from which new registers     *)
(* have their names.                                                       *)
(***************************************************************************)
EXTENDS IRTrees, SequencesExt

isNop(statm) == statm.kind = "EXP_IGNORE_RESULT" /\ statm.exp.kind = "INTEGER"

canSwapExpAndStatement_Registers(exp, statm) ==
    exp.kind \in {"INTEGER", "LABELADDR", "REGISTER"} \/ isNop(statm)
canSwapExpAndStatement(exp, statm) ==
    exp.kind \in {"INTEGER", "LABELADDR"} \/ isNop(statm)

\* Both tests for a label's address are of the second expression.
canSwapExps(exp1, exp2) == exp1.kind = "INTEGER" \/ exp2.kind \in {"LABELADDR", "INTEGER"}

HasStatement(exp) == exp.kind = "STAT_EXP_SEQ"

\* assert(stat_exp->exp->kind != IR_STAT_EXP_SEQ)
Bare(exp) == IF ~ HasStatement(exp) THEN exp ELSE IF HasStatement(exp.exp) THEN Failed ELSE exp.exp

\* growStatementSequence
Grown(statements, statm) ==
    IF statm.kind = "STAT_SEQ" THEN statements \o statm.statements ELSE Append(statements, statm)

StatementsOf(exp) == IF HasStatement(exp) THEN Grown(<<>>, exp.stat) ELSE <<>>

WithStatements(statements, exp) ==
    IF statements = <<>> THEN exp ELSE StatExp(StatSeq(statements), exp)

After(statements, statm) ==
    IF statements = <<>> THEN statm ELSE StatSeq(Append(statements, statm))

pullStatementsOutOfTwoOperands(left, right, path) ==
    LET save_left == Register(Append(path, 51))
        saved == HasStatement(right) /\ ~ canSwapExpAndStatement(Bare(left), right.stat)
    IN  [left  |-> IF saved THEN save_left ELSE Bare(left),
         right |-> Bare(right),
         statements |-> StatementsOf(left)
                        \o (IF saved THEN <<Move(save_left, Bare(left))>> ELSE <<>>)
                        \o StatementsOf(right)]

\* Arguments a statement cannot be moved past; those before were swapped.
Obstacles(arguments, arg_saved, i) ==
    {k \in 1 .. i - 1 : k \notin arg_saved
                        /\ ~ canSwapExpAndStatement(arguments[k], arguments[i].stat)}

\* One turn of the loop over the arguments: the statement of argument i
\* goes in front of the call, and the arguments it cannot pass are saved.
PullArgument(call, i, path) ==
    LET arguments == call.arguments
        save == Obstacles(arguments, call.arg_saved, i)
        arg_saved == call.arg_saved \cup save
        save_arg(k) == Register(path \o <<60, k>>)
        Swappable(k) == \A prev \in (1 .. k - 1) \ arg_saved : canSwapExps(arguments[prev], arguments[k])
        moves == [n \in DOMAIN SetToSortSeq(save, <) |->
                    LET k == SetToSortSeq(save, <)[n]
                    IN  IF Swappable(k) THEN Move(save_arg(k), arguments[k]) ELSE Failed]
    IN  IF ~ HasStatement(arguments[i]) THEN call
        ELSE [arguments |-> [k \in DOMAIN arguments |->
                                CASE k \in save -> save_arg(k)
                                  [] k = i      -> Bare(arguments[i])
                                  [] OTHER      -> arguments[k]],
              arg_saved |-> arg_saved,
              statements |-> call.statements \o moves \o StatementsOf(arguments[i])]

\* "accepted": the parent takes the call as it is.
canonicalizeCallExp(function, arguments, accepted, path) ==
    LET pulled == FoldLeftDomain(LAMBDA call, i : PullArgument(call, i, path),
                                 [arguments |-> arguments, arg_saved |-> {}, statements |-> <<>>],
                                 arguments)
        call == Call(function, pulled.arguments)
        save_result == Register(Append(path, 52))
    IN  IF accepted THEN WithStatements(pulled.statements, call)
        ELSE WithStatements(Append(pulled.statements, Move(save_result, call)), save_result)

\* combineStatExpSequences
Combined(stat, exp) ==
    IF ~ HasStatement(exp) THEN StatExp(stat, exp)
    ELSE StatExp(StatSeq(Grown(<<>>, stat) \o StatementsOf(exp)), Bare(exp))

RECURSIVE canonicalizeExpression(_, _, _), canonicalizeStatement(_, _)

canonicalizeExpression(exp, accepted, path) ==
    CASE exp.kind \in {"INTEGER", "LABELADDR", "REGISTER"} -> exp
      [] exp.kind = "MEMORY" ->
            LET address == canonicalizeExpression(exp.address, FALSE, Append(path, 1))
            IN  WithStatements(StatementsOf(address), Memory(Bare(address)))
      [] exp.kind = "BINARYOP" ->
            LET pulled == pullStatementsOutOfTwoOperands(
                              canonicalizeExpression(exp.left, FALSE, Append(path, 1)),
                              canonicalizeExpression(exp.right, FALSE, Append(path, 2)), path)
            IN  WithStatements(pulled.statements, BinaryOp(exp.operation, pulled.left, pulled.right))
      [] exp.kind = "FUN_CALL" ->
            canonicalizeCallExp(exp.function,
                [i \in DOMAIN exp.arguments |->
                    canonicalizeExpression(exp.arguments[i], FALSE, Append(path, i))],
                accepted, path)
      [] exp.kind = "STAT_EXP_SEQ" ->
            Combined(canonicalizeStatement(exp.stat, Append(path, 1)),
                     canonicalizeExpression(exp.exp, FALSE, Append(path, 2)))
      [] exp.kind = "FAILED" -> exp

canonicalizeMoveStatement(to, from, path) ==
    CASE to.kind = "MEMORY" ->
            LET pulled == pullStatementsOutOfTwoOperands(to.address, from, path)
            IN  After(pulled.statements, Move(Memory(pulled.left), pulled.right))
      [] to.kind = "REGISTER" -> After(StatementsOf(from), Move(to, Bare(from)))
      [] OTHER -> Failed   \* fatalError("strange destination")

canonicalizeCondJumpStatement(jump, left, right, path) ==
    LET pulled == pullStatementsOutOfTwoOperands(left, right, path)
    IN  After(pulled.statements, CondJump(jump.comparison, pulled.left, pulled.right,
                                          jump.true_dest, jump.false_dest))

\* A call may be what is moved to a register.
AcceptsCall(to) ==
    to.kind = "REGISTER" \/ (to.kind = "MEMORY" /\ to.address.kind = "LABELADDR")

canonicalizeStatement(statm, path) ==
    CASE statm.kind = "MOVE" ->
            LET to == canonicalizeExpression(statm.to, FALSE, Append(path, 1))
                from == canonicalizeExpression(statm.from, AcceptsCall(to), Append(path, 2))
            IN  canonicalizeMoveStatement(to, from, path)
      [] statm.kind = "EXP_IGNORE_RESULT" ->
            LET exp == canonicalizeExpression(statm.exp, TRUE, Append(path, 1))
            IN  After(StatementsOf(exp), Ignore(Bare(exp)))
      [] statm.kind = "JUMP" ->
            LET dest == canonicalizeExpression(statm.dest, FALSE, Append(path, 1))
            IN  After(StatementsOf(dest), Jump(Bare(dest)))
      [] statm.kind = "COND_JUMP" ->
            canonicalizeCondJumpStatement(statm,
                canonicalizeExpression(statm.left, FALSE, Append(path, 1)),
                canonicalizeExpression(statm.right, FALSE, Append(path, 2)), path)
      [] statm.kind = "STAT_SEQ" ->
            \* doChildrenAndMergeChildStatSequences
            StatSeq(FlattenSeq([i \in DOMAIN statm.statements |->
                        Grown(<<>>, canonicalizeStatement(statm.statements[i], Append(path, i)))]))
      [] statm.kind \in {"LABEL", "FAILED"} -> statm
=============================================================================
