------------------------------ MODULE Machine ------------------------------
(***************************************************************************)
(* What selected instructions do when they are run, before registers are   *)
(* allocated.  An instruction finds its registers through the numbers of   *)
(* its operands; multiplication and division use %rax and %rdx, a callee   *)
(* takes its arguments from their registers and spoils those it may.  What *)
(* a machine does is not under src/.                                       *)
(***************************************************************************)
EXTENDS RunIR

CONSTANTS RAX, RDX, Arguments, CallerSaved

\* Values are sets: empty for what has not been set.
InRegister(reg, s) == IF reg \in DOMAIN s.regs THEN {s.regs[reg]} ELSE {}

AddressIn(operand, i, s) == {base + operand.slot : base \in InRegister(i.inputs[operand.n], s)}

Read(operand, i, s) ==
    CASE operand.kind = "const"  -> {operand.n}
      [] operand.kind = "input"  -> InRegister(i.inputs[operand.n], s)
      [] operand.kind = "output" -> InRegister(i.outputs[operand.n], s)
      [] operand.kind = "memory" ->
            {s.mem[address] : address \in AddressIn(operand, i, s) \cap DOMAIN s.mem}

With(values, s, Do(_)) == IF values = {} THEN Stop(s, "unset") ELSE Do(CHOOSE v \in values : TRUE)

SetRegister(reg, value, s) == [s EXCEPT !.regs = (reg :> value) @@ @]

Written(operand, i, value, s) ==
    CASE operand.kind = "output" -> SetRegister(i.outputs[operand.n], value, s)
      [] operand.kind = "memory" ->
            With(AddressIn(operand, i, s), s,
                 LAMBDA address : [s EXCEPT !.mem = (address :> value) @@ @])
      [] OTHER -> Stop(s, "failed")

\* No instruction has two operands in memory, or compares to a constant.
NoSuchInstruction(i) ==
    \/ i.from.kind = "memory" /\ i.to.kind = "memory"
    \/ i.op = "cmp" /\ i.to.kind = "const"

SignOf(value) == IF value < 0 THEN -1 ELSE 0

Divided(dividend, high, divisor, s) ==
    IF divisor = 0 THEN Stop(s, "fault")
    ELSE IF high # SignOf(dividend) THEN Stop(s, "failed")
    ELSE SetRegister(RAX, Quotient(dividend, divisor),
                     SetRegister(RDX, dividend - divisor * Quotient(dividend, divisor), s))

Multiplied(left, right, s) ==
    SetRegister(RAX, left * right, SetRegister(RDX, SignOf(left * right), s))

Spoiled(s) ==
    [s EXCEPT !.regs = [reg \in DOMAIN s.regs \ {CallerSaved[k] : k \in DOMAIN CallerSaved} |->
                           s.regs[reg]]]

\* The function is called with what is in the registers of its arguments.
Entered(i, s) ==
    IF \E k \in 1 .. i.count : InRegister(Arguments[k], s) = {} THEN Stop(s, "unset")
    ELSE LET after == Called(i.dest, [k \in 1 .. i.count |-> s.regs[Arguments[k]]], s)
         IN  SetRegister(RAX, after.value, Spoiled(after))

Step(i, s) ==
    CASE i.op = "label" -> s
      [] i.op = "jmp"   -> [s EXCEPT !.jump = i.dest]
      [] i.op = "jcc"   -> [s EXCEPT !.jump = IF Holds(i.comparison, s.flags[1], s.flags[2])
                                              THEN i.dest ELSE i.falls]
      [] i.op = "call"  -> Entered(i, s)
      [] i.op = "fatal" -> Stop(s, "failed")
      [] i.op = "cqo"   -> With(InRegister(RAX, s), s, LAMBDA v : SetRegister(RDX, SignOf(v), s))
      [] i.op = "lea"   -> With(AddressIn(i.from, i, s), s, LAMBDA v : Written(i.to, i, v, s))
      [] OTHER ->
            IF NoSuchInstruction(i) THEN Stop(s, "failed")
            ELSE With(Read(i.from, i, s), s, LAMBDA from :
                CASE i.op = "mov" -> Written(i.to, i, from, s)
                  [] i.op = "add" -> With(Read(i.to, i, s), s, LAMBDA to : Written(i.to, i, to + from, s))
                  [] i.op = "sub" -> With(Read(i.to, i, s), s, LAMBDA to : Written(i.to, i, to - from, s))
                  [] i.op = "cmp" -> With(Read(i.to, i, s), s, LAMBDA to : [s EXCEPT !.flags = <<to, from>>])
                  [] i.op = "mul" -> With(InRegister(RAX, s), s, LAMBDA v : Multiplied(v, from, s))
                  [] i.op = "div" ->
                        With(InRegister(RAX, s), s, LAMBDA v :
                            With(InRegister(RDX, s), s, LAMBDA high : Divided(v, high, from, s))))

RECURSIVE StepsFrom(_, _, _)

\* The instructions from the k-th on.
StepsFrom(code, k, s) ==
    IF s.state # "running" \/ (k > Len(code) /\ s.jump = NoJump) THEN s
    ELSE IF s.jump = NoJump THEN StepsFrom(code, k + 1, Step(code[k], s))
    ELSE LET dest == {j \in DOMAIN code : code[j].op = "label" /\ code[j].dest = s.jump}
         IN  IF dest = {} THEN s
             ELSE IF s.jumps = MaxJumps THEN Stop(s, "endless")
             ELSE StepsFrom(code, CHOOSE j \in dest : TRUE,
                            [s EXCEPT !.jump = NoJump, !.jumps = @ + 1])

Steps(code, s) == StepsFrom(code, 1, s)
=============================================================================
