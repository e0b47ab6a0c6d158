----------------------------- MODULE SpillRewrite -----------------------------
(****************************************************************************)
(* X86_64Assembler::spillRegister of src/x86_64assembler.cpp: a register    *)
(* for which AssignRegisters found no colour is moved to the frame, and     *)
(* every instruction that names it is rewritten.  This is done for as many  *)
(* registers as the rounds of AssignRegisters find, temporaries of earlier  *)
(* rounds included.                                                         *)
(*                                                                          *)
(* Afterwards the rewritten code is run in step with the code it was made   *)
(* from.  A register that is not live, going by the inputs and outputs      *)
(* that instructions list, may share its machine register with another one: *)
(* its contents are lost when that one is assigned.                         *)
(****************************************************************************)
EXTENDS Templates

CONSTANTS
  Machine,      \* machine registers: never spilled, each with a colour of its own
  Prespilled,   \* registers that have a place in the frame from the beginning
  FirstNew,     \* registers from here on are made by addRegister
  Sources,      \* the functions considered
  MaxSpills     \* bound: registers spilled in one run

VARIABLES
  source,    \* the code before any spilling
  code,      \* and now
  spilled,   \* the slot of the frame of every register spilled so far
  slots,     \* slots used
  next_register,
  pc,        \* "spill", "run", or the assert that stopped the compiler
  at,        \* in the run: the next instruction of source
  run_at,    \* and of code
  values,    \* contents of the registers of the source
  contents   \* contents of registers and, under negative numbers, of slots

(****************************************************************************)
(* What the instructions of the templates have in common: the one input of  *)
(* an instruction is an operand of it; an instruction that assigns a        *)
(* register that can be spilled does so through its second operand, or has  *)
(* an input that is in the way; and a register named twice as an input is   *)
(* not assigned by the same instruction, unless it is a machine register.   *)
(****************************************************************************)
Fits(i) ==
  /\ Len(i.inputs) = 1 => FirstInput(i) # {}
  /\ AssignmentSplits(i) \/ i.to = Out(1) \/ ToSet(i.outputs) \subseteq Machine
  /\ \A k, l \in DOMAIN i.inputs :
       k # l /\ i.inputs[k] = i.inputs[l]
       => /\ i.inputs[k] < FirstNew
          /\ i.inputs[k] \in Machine \cup {FP} \/ ~ Names(i.outputs, i.inputs[k])

(* Registers made by addRegister are not those of the sources. *)
ASSUME SourceAssumption ==
  /\ FirstNew \in Nat \ {0}
  /\ \A c \in Sources :
       /\ c \in Seq(InstructionType)
       /\ \A p \in DOMAIN c : /\ Fits(c[p])
                            /\ ToSet(c[p].inputs) \cup ToSet(c[p].outputs) \subseteq 0 .. FirstNew - 1

vars == <<source, code, spilled, slots, next_register, pc, at, run_at, values, contents>>

------------------------------------------------------------------------------
RegistersIn(c) == UNION {ToSet(c[p].inputs) \cup ToSet(c[p].outputs) : p \in DOMAIN c}

Spillable == RegistersIn(code) \ (Machine \cup {FP})

Init ==
  /\ source \in Sources
  /\ code = [p \in DOMAIN source |-> [source[p] EXCEPT !.of = p]]
  /\ spilled = <<>>
  /\ slots = 0
  /\ next_register = FirstNew
  /\ pc = "spill"
  /\ at = 1
  /\ run_at = 1
  /\ values = <<>>
  /\ contents = <<>>

(* addVariable: the next place in the frame. *)
NewSlot == slots + 1

(* spillRegister of a register that is not prespilled. *)
Spill(reg) ==
  /\ pc = "spill"
  /\ slots < MaxSpills
  /\ reg \notin Prespilled
  /\ slots' = slots + 1
  /\ IF \E p \in DOMAIN code : RewriteAssertFails(code[p], reg)
     THEN /\ pc' = "rewrite_assert"
          /\ UNCHANGED <<code, spilled, next_register>>
     ELSE /\ code' = FlattenSeq([p \in DOMAIN code |->
                       Rewritten(code[p], reg, NewSlot, next_register + 2 * p)])
          /\ spilled' = (reg :> NewSlot) @@ spilled
          /\ next_register' = next_register + 2 * Len(code) + 2
          /\ UNCHANGED pc
  /\ UNCHANGED <<source, at, run_at, values, contents>>

(****************************************************************************)
(* The asserts on the way of a prespilled register, in the order of the     *)
(* code.  That the register is being assigned is noted before it is         *)
(* asserted that it has not been.                                           *)
(****************************************************************************)
SeenAssignment(p, reg) == \E q \in 1 .. p : Names(code[q].outputs, reg)

PrespillAssertFails(p, reg) ==
  \/ Names(code[p].outputs, reg) /\ SeenAssignment(p, reg)
  \/ /\ Names(code[p].inputs, reg)
     /\ Names(code[p].outputs, reg) \/ ~ SeenAssignment(p, reg)

SpillPrespilled(reg) ==
  /\ pc = "spill"
  /\ reg \in Prespilled
  /\ \E p \in DOMAIN code : PrespillAssertFails(p, reg)
  /\ pc' = "prespill_assert"
  /\ UNCHANGED <<source, code, spilled, slots, next_register, at, run_at, values, contents>>

------------------------------------------------------------------------------
(* The two runs. *)

OperandReads(i, o) ==
  CASE o.kind = "input"  -> <<i.inputs[o.n]>>
    [] o.kind = "output" -> <<i.outputs[o.n]>>
    [] o.kind = "memory" -> IF o.slot = 0 THEN <<i.inputs[o.n]>> ELSE <<- o.slot>>
    [] OTHER             -> <<>>

IsElsewhere(o) == o.kind = "memory" /\ o.slot = 0

(* What an instruction reads besides its operands. *)
Implied(i) ==
  CASE i.op \in {"mul", "cqo"} -> <<RAX>>
    [] i.op = "div"            -> <<RAX, RDX>>
    [] i.op = "call"           -> Arguments
    [] OTHER                   -> <<>>

Reads(i) ==
  OperandReads(i, i.from)
    \o (IF i.op \in {"add", "cmp"} \/ IsElsewhere(i.to) THEN OperandReads(i, i.to) ELSE <<>>)
    \o Implied(i)

ContentsOf(c, location) == IF location \in DOMAIN c THEN c[location] ELSE 0

ReadsIn(c, i) == [k \in DOMAIN Reads(i) |-> ContentsOf(c, Reads(i)[k])]

IsTransfer(i) == i.op = "mov" /\ i.from.kind # "const" /\ ~ IsElsewhere(i.from)

Written(i) ==
  IF i.op \in {"mul", "cqo", "div", "call"} THEN i.outputs
  ELSE IF i.op \in {"cmp", "push"} \/ IsElsewhere(i.to) THEN <<>>
  ELSE OperandReads(i, i.to)

(****************************************************************************)
(* A value is named after the instruction number of that computed it;       *)
(* different instructions compute different values.                         *)
(****************************************************************************)
After(c, i, number) ==
  LET w == Written(i)
      value(k) == IF IsTransfer(i) THEN ReadsIn(c, i)[1] ELSE 100 * number + k
  IN [l \in ToSet(w) |-> value(CHOOSE k \in DOMAIN w : w[k] = l)] @@ c

IsLiveAfter(c, p, reg) ==
  \E q \in p + 1 .. Len(c) :
    /\ Names(c[q].inputs, reg)
    /\ \A k \in p + 1 .. q - 1 : ~ Names(c[k].outputs, reg)

(* Whether an assignment at p may overwrite the machine register of reg. *)
MayOverwrite(c, p, reg) ==
  \E o \in ToSet(c[p].outputs) : o # reg /\ ~ {o, reg} \subseteq Machine

Lost == -1

WithLosses(c, p, cont) ==
  [l \in DOMAIN cont |->
     IF l > 0 /\ ~ IsLiveAfter(c, p, l) /\ ~ Names(c[p].outputs, l) /\ MayOverwrite(c, p, l)
     THEN Lost ELSE cont[l]]

StartRun ==
  /\ pc = "spill"
  /\ pc' = "run"
  /\ UNCHANGED <<source, code, spilled, slots, next_register, at, run_at, values, contents>>

ExecuteInserted ==
  /\ pc = "run"
  /\ run_at <= Len(code)
  /\ code[run_at].of = 0
  /\ contents' = WithLosses(code, run_at, After(contents, code[run_at], 0))
  /\ run_at' = run_at + 1
  /\ UNCHANGED <<source, code, spilled, slots, next_register, pc, at, values>>

Execute ==
  /\ pc = "run"
  /\ run_at <= Len(code)
  /\ code[run_at].of # 0
  /\ values' = After(values, source[at], at)
  /\ contents' = WithLosses(code, run_at, After(contents, code[run_at], code[run_at].of))
  /\ at' = at + 1
  /\ run_at' = run_at + 1
  /\ UNCHANGED <<source, code, spilled, slots, next_register, pc>>

Stopped ==
  /\ pc \in {"rewrite_assert", "prespill_assert"} \/ (pc = "run" /\ run_at > Len(code))
  /\ UNCHANGED vars

Next ==
  \/ \E reg \in Spillable : Spill(reg) \/ SpillPrespilled(reg)
  \/ StartRun \/ ExecuteInserted \/ Execute \/ Stopped

Spec == Init /\ [][Next]_vars

------------------------------------------------------------------------------
TypeOK ==
  /\ source \in Seq(InstructionType)
  /\ code \in Seq(InstructionType)
  /\ slots \in 0 .. MaxSpills
  /\ DOMAIN spilled \cap (Machine \cup {FP}) = {}
  /\ \A reg \in DOMAIN spilled : spilled[reg] \in 1 .. slots
  /\ next_register \in Nat
  /\ pc \in {"spill", "run", "rewrite_assert", "prespill_assert"}
  /\ at \in 1 .. Len(source) + 1
  /\ run_at \in 1 .. Len(code) + 1

(****************************************************************************)
(* A register that an instruction reads without listing it as an input must *)
(* still be as the instruction that set it left it.                         *)
(****************************************************************************)
IsUndisturbed(c, p, reg) ==
  \E w \in 1 .. p - 1 :
    /\ Names(c[w].outputs, reg)
    /\ \A k \in w + 1 .. p - 1 :
         ~ Names(c[k].outputs, reg) /\ (MayOverwrite(c, k, reg) => IsLiveAfter(c, k, reg))

ImpliedIsUndisturbed ==
  \A p \in DOMAIN code :
    LET implied == ToSet(Implied(code[p]))
                     \cup (IF code[p].op = "add" THEN {r \in ToSet(Reads(code[p])) : r > 0} ELSE {})
    IN \A reg \in implied \ ToSet(code[p].inputs) : IsUndisturbed(code, p, reg)

NamedTwice ==
  \E p \in DOMAIN source : \E k, l \in DOMAIN source[p].inputs :
    k # l /\ source[p].inputs[k] = source[p].inputs[l] /\ source[p].inputs[k] \notin Machine

(****************************************************************************)
(* However many registers are spilled, in whatever order, temporaries       *)
(* included, an instruction reads what it read before.  The two exceptions  *)
(* are those of the code: a register named twice as an input is replaced    *)
(* once, and a temporary may get between an instruction and what it reads   *)
(* without saying so.                                                       *)
(****************************************************************************)
KeepsMeaning ==
  pc = "run" /\ run_at <= Len(code) /\ code[run_at].of # 0
    /\ ~ NamedTwice /\ ImpliedIsUndisturbed
  => /\ code[run_at].of = at
     /\ ReadsIn(contents, code[run_at]) = ReadsIn(values, source[at])

(****************************************************************************)
(* The asserts of the rewriting hold, also when a register is spilled again *)
(* whose assignments are in memory already.                                 *)
(****************************************************************************)
RewriteAssertsHold == pc # "rewrite_assert"

(****************************************************************************)
(* A temporary is not live across an instruction of the source, only        *)
(* across others that were inserted: it interferes with less than the       *)
(* register it stands for, which is what lets the rounds of AssignRegisters *)
(* come to an end.                                                          *)
(****************************************************************************)
TemporariesAreShort ==
  \A reg \in {r \in RegistersIn(code) : r >= FirstNew} :
    \A p \in DOMAIN code :
      IsLiveAfter(code, p, reg) => code[p].of = 0 \/ Names(code[p].outputs, reg)

(****************************************************************************)
(* What the asserts on the way of a prespilled register say: it is assigned *)
(* once, by a move, before it is used.                                      *)
(****************************************************************************)
PrespillAssertsHold == pc # "prespill_assert"
==============================================================================
