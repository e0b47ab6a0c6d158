------------------------------ MODULE IRTrees ------------------------------
(***************************************************************************)
(* The intermediate code (intermediate.h, intermadiate.cpp): trees of      *)
(* expressions and statements, and code whose kind decides how a parent    *)
(* uses it.  A label or a virtual register is the place where it was made, *)
(* a sequence of numbers, instead of the next number of a counter.         *)
(***************************************************************************)
EXTENDS Integers, SequencesExt

Integer(value)     == [kind |-> "INTEGER", value |-> value]
LabelAddress(label) == [kind |-> "LABELADDR", label |-> label]
Register(reg)      == [kind |-> "REGISTER", reg |-> reg]
BinaryOp(operation, left, right) ==
    [kind |-> "BINARYOP", operation |-> operation, left |-> left, right |-> right]
Memory(address)    == [kind |-> "MEMORY", address |-> address]
Call(function, arguments) ==
    [kind |-> "FUN_CALL", function |-> function, arguments |-> arguments]
StatExp(stat, exp) == [kind |-> "STAT_EXP_SEQ", stat |-> stat, exp |-> exp]

Move(to, from)     == [kind |-> "MOVE", to |-> to, from |-> from]
Ignore(exp)        == [kind |-> "EXP_IGNORE_RESULT", exp |-> exp]
Jump(dest)         == [kind |-> "JUMP", dest |-> dest]
CondJump(comparison, left, right, true_dest, false_dest) ==
    [kind |-> "COND_JUMP", comparison |-> comparison, left |-> left, right |-> right,
     true_dest |-> true_dest, false_dest |-> false_dest]
StatSeq(statements) == [kind |-> "STAT_SEQ", statements |-> statements]
Placement(label)   == [kind |-> "LABEL", label |-> label]

\* An assert that failed, or a fatal error, where this would have been made.
Failed == [kind |-> "FAILED"]

\* Strings are data at fixed addresses.
AddressOf(label) == IF label[1] = 2 THEN 10000 + label[2] ELSE 20000 + label[2]

JumpTo(label) == Jump(LabelAddress(label))

\* Code: what the translator has made of an expression, made at a place.
ExpressionCode(exp)  == [kind |-> "EXPRESSION", exp |-> exp]
StatementCode(statm) == [kind |-> "STATEMENT", statm |-> statm]
CondJumpPatchesCode(statm, at) == [kind |-> "JUMP_WITH_PATCHES", statm |-> statm, at |-> at]

\* The labels of a jump that is still to be patched.
ReplaceTrue == <<-1>>
ReplaceFalse == <<-2>>

FlippedComparison ==
    [equal |-> "nonequal", nonequal |-> "equal", less |-> "greatequal",
     greatequal |-> "less", greater |-> "lessequal", lessequal |-> "greater"]

FlipComparison(jump) ==
    CondJump(FlippedComparison[jump.comparison], jump.left, jump.right,
             jump.false_dest, jump.true_dest)

Patched(jump, true_label, false_label) ==
    LET patched(label) == CASE label = ReplaceTrue  -> true_label
                            [] label = ReplaceFalse -> false_label
                            [] OTHER                -> label
    IN  IF jump.kind = "JUMP" THEN JumpTo(patched(jump.dest.label))
        ELSE CondJump(jump.comparison, jump.left, jump.right,
                      patched(jump.true_dest), patched(jump.false_dest))

\* The jump comes last when a prologue has been put in front of it.
putLabels(statm, true_label, false_label) ==
    IF statm.kind = "STAT_SEQ"
    THEN StatSeq(Append(Front(statm.statements), Patched(Last(statm.statements), true_label, false_label)))
    ELSE Patched(statm, true_label, false_label)

killCodeToExpression(code) ==
    CASE code.kind = "STATEMENT"  -> Failed
      [] code.kind = "EXPRESSION" -> code.exp
      [] code.kind = "JUMP_WITH_PATCHES" ->
            LET true_label == Append(code.at, 31)
                false_label == Append(code.at, 32)
                finish_label == Append(code.at, 33)
                value == Register(Append(code.at, 34))
            IN  StatExp(StatSeq(<<putLabels(code.statm, true_label, false_label),
                                  Placement(true_label), Move(value, Integer(1)),
                                  JumpTo(finish_label),
                                  Placement(false_label), Move(value, Integer(0)),
                                  Placement(finish_label)>>),
                        value)

killCodeToStatement(code) ==
    CASE code.kind = "STATEMENT"  -> code.statm
      [] code.kind = "EXPRESSION" -> Ignore(code.exp)
      [] code.kind = "JUMP_WITH_PATCHES" ->
            LET proceed == Append(code.at, 31)
            IN  StatSeq(<<putLabels(code.statm, proceed, proceed), Placement(proceed)>>)

\* A jump whose labels are still to be patched; a constant jumps at once.
killCodeToCondJump(code) ==
    CASE code.kind = "STATEMENT" -> Failed
      [] code.kind = "EXPRESSION" ->
            IF code.exp.kind # "INTEGER"
            THEN CondJump("nonequal", code.exp, Integer(0), ReplaceTrue, ReplaceFalse)
            ELSE JumpTo(IF code.exp.value # 0 THEN ReplaceTrue ELSE ReplaceFalse)
      [] code.kind = "JUMP_WITH_PATCHES" -> code.statm
=============================================================================
