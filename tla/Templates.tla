------------------------------- MODULE Templates -------------------------------
(****************************************************************************)
(* The instructions the assembler emits for an expression or a statement    *)
(* whose parts are in registers, in memory addressed by one, or constants   *)
(* (translateExpressionTemplate, translateStatementTemplate), and for       *)
(* calls.                                                                   *)
(****************************************************************************)
EXTENDS Rewriting

CONSTANTS
  RAX, RDX,     \* machine registers used by multiplication and division
  Arguments,    \* those in which a callee expects its first arguments
  Link,         \* the one in which it expects the frame of its parent
  CallerSaved   \* and those it may overwrite, %rax first

(* An operand of the expression: a constant, a register, or memory addressed by one. *)
Operand(e, n) ==
  CASE e.kind = "const"    -> [Constant EXCEPT !.n = e.value]
    [] e.kind = "register" -> In(n)
    [] e.kind = "memory"   -> At(n, e.slot)

OperandInputs(e) == IF e.kind = "const" THEN <<>> ELSE <<e.reg>>

addInstruction(op, e, output) ==
  Instruction(op, Operand(e, 1), Out(1), OperandInputs(e), <<output>>,
              op = "mov" /\ e.kind = "register")

Literal(n) == [kind |-> "const", value |-> n]
Number == Literal(0)
Reg(r) == [kind |-> "register", reg |-> r]
Below(r, slot) == [kind |-> "memory", reg |-> r, slot |-> slot]
Mem(r) == Below(r, 0)

Yield(e, value) == <<addInstruction("mov", e, value)>>

Plus(left, right, value) ==
  <<addInstruction("mov", left, value), addInstruction("add", right, value)>>

Minus(left, right, value) ==
  <<addInstruction("mov", left, value), addInstruction("sub", right, value)>>

Mul(left, right, value, tmp) ==
  <<addInstruction("mov", left, RAX)>>
    \o (IF right.kind = "const"
        THEN <<addInstruction("mov", right, tmp),
               Instruction("mul", In(2), Nothing, <<RAX, tmp>>, <<RAX, RDX>>, FALSE)>>
        ELSE <<Instruction("mul", Operand(right, 1), Nothing, OperandInputs(right) \o <<RAX>>,
                           <<RAX, RDX>>, FALSE)>>)
    \o <<addInstruction("mov", Reg(RAX), value)>>

(* With a constant divisor %rdx is an input, otherwise it is not. *)
Div(left, right, value, tmp) ==
  <<addInstruction("mov", left, RAX),
    Instruction("cqo", Nothing, Nothing, <<>>, <<RDX>>, FALSE)>>
    \o (IF right.kind = "const"
        THEN <<addInstruction("mov", right, tmp),
               Instruction("div", In(3), Nothing, <<RAX, RDX, tmp>>, <<RAX, RDX>>, FALSE)>>
        ELSE <<Instruction("div", Operand(right, 1), Nothing, OperandInputs(right) \o <<RAX>>,
                           <<RAX, RDX>>, FALSE)>>)
    \o <<addInstruction("mov", Reg(RAX), value)>>

(* The address of memory is computed into a register. *)
Lea(base, value) == <<addInstruction("lea", Mem(base), value)>>

StoreTo(from, to) ==
  <<Instruction("mov", Operand(from, 1), At(Len(OperandInputs(from)) + 1, to.slot),
                OperandInputs(from) \o <<to.reg>>, <<>>, FALSE)>>

CondJump_LeftFirst(left, right) ==
  <<Instruction("cmp", Operand(left, 1), Operand(right, Len(OperandInputs(left)) + 1),
                OperandInputs(left) \o OperandInputs(right), <<>>, FALSE)>>

(* The comparison of a conditional jump; the right operand comes first. *)
CondJump(left, right) ==
  <<Instruction("cmp", Operand(right, 1), Operand(left, Len(OperandInputs(right)) + 1),
                OperandInputs(right) \o OperandInputs(left), <<>>, FALSE)>>

(* The first arguments go to registers, then the others are pushed, the last one first. *)
InRegisters(arguments) == Min({Len(arguments), Len(Arguments)})
OnStack(arguments) == Len(arguments) - InRegisters(arguments)

PushOrder_FirstFirst(arguments, k) == arguments[InRegisters(arguments) + k]

PushOrder(arguments, k) == arguments[Len(arguments) + 1 - k]

placeCallArguments(arguments) ==
  [k \in 1 .. InRegisters(arguments) |-> addInstruction("mov", Reg(arguments[k]), Arguments[k])]
    \o [k \in 1 .. OnStack(arguments) |->
          Instruction("push", In(1), Nothing, <<PushOrder(arguments, k)>>, <<>>, FALSE)]

(* Without the $ of an immediate operand, what is added is the memory at that address. *)
removeCallArguments(arguments) ==
  IF OnStack(arguments) > 0
  THEN <<Instruction("remove", Operand(Literal(8 * OnStack(arguments)), 1), Nothing,
                     <<>>, <<>>, FALSE)>>
  ELSE <<>>

NoParent == [kind |-> "none"]
NoValue == -1

Call(arguments, callee_parentfp, value) ==
  (IF callee_parentfp = NoParent THEN <<>> ELSE Yield(callee_parentfp, Link))
    \o placeCallArguments(arguments)
    \o <<Instruction("call", Nothing, Nothing, <<>>, CallerSaved, FALSE)>>
    \o removeCallArguments(arguments)
    \o (IF value = NoValue THEN <<>> ELSE Yield(Reg(CallerSaved[1]), value))

(* The prologue takes the frame of the parent and puts it in the frame as well. *)
ParentFrame(parent_fp) == Yield(Reg(Link), parent_fp) \o StoreTo(Reg(parent_fp), Mem(FP))
================================================================================
