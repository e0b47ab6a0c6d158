------------------------------- MODULE Rewriting -------------------------------
(****************************************************************************)
(* Instructions with the registers they list as inputs and outputs, and     *)
(* what X86_64Assembler::spillRegister of src/x86_64assembler.cpp makes of  *)
(* one instruction when a register it names is moved to the frame.          *)
(****************************************************************************)
EXTENDS Integers, SequencesExt

FP == 0         \* the frame pointer, which is not allocated

(****************************************************************************)
(* An operand: a constant, input or output number n, or memory addressed by *)
(* input n: a slot of the frame, counted downwards from the frame pointer   *)
(* in words, or elsewhere (slot 0).                                         *)
(****************************************************************************)
Constant == [kind |-> "const", n |-> 0, slot |-> 0]
In(n) == [kind |-> "input", n |-> n, slot |-> 0]
Out(n) == [kind |-> "output", n |-> n, slot |-> 0]
At(n, slot) == [kind |-> "memory", n |-> n, slot |-> slot]
Nothing == [kind |-> "none", n |-> 0, slot |-> 0]

OperandType ==
  [kind : {"const", "input", "output", "memory", "none"}, n : Nat, slot : Int]

Ops == {"mov", "lea", "add", "sub", "cmp", "push", "mul", "cqo", "div", "call",
        "remove", "comment", "lower", "raise", "ret"}

(* of is the instruction of the source it was made from, 0 if it was inserted. *)
InstructionType ==
  [op : Ops, from : OperandType, to : OperandType, inputs : Seq(Nat), outputs : Seq(Nat),
   move : BOOLEAN, of : Nat]

Instruction(op, from, to, inputs, outputs, move) ==
  [op |-> op, from |-> from, to |-> to, inputs |-> inputs, outputs |-> outputs,
   move |-> move, of |-> 0]

------------------------------------------------------------------------------
(* The rewriting of one instruction. *)

Names(registers, reg) == reg \in ToSet(registers)

Load(temp, slot) == Instruction("mov", At(1, slot), Out(1), <<FP>>, <<temp>>, FALSE)

Store(temp, slot) == Instruction("mov", In(1), At(2, slot), <<temp, FP>>, <<>>, FALSE)

(* The operand that findRegister finds input 0 in. *)
FirstInput(i) == {o \in {i.from, i.to} : o.kind \in {"input", "memory"} /\ o.n = 1}

InParentheses(i) == \E o \in FirstInput(i) : o.kind = "memory"

UsageSplits_Never(i, reg) == FALSE

UsageSplits(i, reg) ==
  \/ i.outputs = <<>>
  \/ i.outputs[1] = reg
  \/ Len(i.inputs) # 1
  \/ InParentheses(i)

FirstNamed(i, reg) ==
  CHOOSE k \in DOMAIN i.inputs :
    i.inputs[k] = reg /\ \A l \in 1 .. k - 1 : i.inputs[l] # reg

UsageReplaced_LoadBehind(i, reg, slot, temp) ==
  IF UsageSplits(i, reg)
  THEN <<[i EXCEPT !.inputs[FirstNamed(i, reg)] = temp], Load(temp, slot)>>
  ELSE <<[i EXCEPT !.inputs = <<FP>>, !.from = At(1, slot), !.move = FALSE]>>

(* Only the first input that is the register is replaced. *)
UsageReplaced(i, reg, slot, temp) ==
  IF UsageSplits(i, reg)
  THEN <<Load(temp, slot), [i EXCEPT !.inputs[FirstNamed(i, reg)] = temp]>>
  ELSE <<[i EXCEPT !.inputs = <<FP>>, !.from = At(1, slot), !.move = FALSE]>>

AssignmentSplits(i) == Len(i.inputs) > 1 \/ (Len(i.inputs) = 1 /\ InParentheses(i))

InputsWithFrame_Forgotten(i) == i.inputs

InputsWithFrame(i) == Append(i.inputs, FP)

(* The register stays among the outputs when memory takes its place. *)
AssignmentReplaced(i, reg, slot, temp) ==
  IF AssignmentSplits(i)
  THEN <<[i EXCEPT !.outputs = [k \in DOMAIN @ |-> IF @[k] = reg THEN temp ELSE @[k]]],
         Store(temp, slot)>>
  ELSE <<[i EXCEPT !.inputs = InputsWithFrame(i), !.move = FALSE,
                   !.to = At(Len(i.inputs) + 1, slot)]>>

BothReplaced(i, reg, slot, temp, temp2) ==
  <<Load(temp, slot)>>
    \o AssignmentReplaced(
         [i EXCEPT !.inputs = [k \in DOMAIN @ |-> IF @[k] = reg THEN temp ELSE @[k]]],
         reg, slot, temp2)

Rewritten(i, reg, slot, temp) ==
  CASE Names(i.inputs, reg) /\ Names(i.outputs, reg) ->
         BothReplaced(i, reg, slot, temp, temp + 1)
    [] Names(i.inputs, reg) /\ ~ Names(i.outputs, reg) -> UsageReplaced(i, reg, slot, temp)
    [] ~ Names(i.inputs, reg) /\ Names(i.outputs, reg) -> AssignmentReplaced(i, reg, slot, temp)
    [] OTHER -> <<i>>

(* The asserts of replaceRegisterUsage and replaceRegisterAssignment. *)
RewriteAssertFails(i, reg) ==
  \/ /\ Names(i.inputs, reg) /\ ~ Names(i.outputs, reg)
     /\ i.outputs # <<>>
     /\ Len(i.inputs) = 1
     /\ FirstInput(i) = {}
  \/ /\ Names(i.outputs, reg)
     /\ \/ Len(i.inputs) = 1 /\ FirstInput(i) = {}
        \/ ~ AssignmentSplits(i) /\ i.to # Out(1)
==============================================================================
