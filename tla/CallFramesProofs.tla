---------------------------- MODULE CallFramesProofs ----------------------------
(****************************************************************************)
(* The stack of a function: for every function, convention and registers    *)
(* spilled, the stack is aligned where the function calls another.          *)
(****************************************************************************)
EXTENDS CallFrames, Iteration, SequenceTheorems

(****************************************************************************)
(* How far a function is between its prologue and its epilogue: the calls   *)
(* it has made, and the arguments that are on the stack.                    *)
(****************************************************************************)
Progress == Nat \X Nat

OutsideBody == {"lower", "raise", "ret"}

(****************************************************************************)
(* What is pushed is not the frame pointer: when that is put in, a push     *)
(* remains one.                                                             *)
(****************************************************************************)
OnStackOnly(i) ==
  i.from.kind = "input" => i.from.n \in DOMAIN i.inputs /\ i.inputs[i.from.n] # FP

Instructions ==
  {i \in InstructionType : i.op \in {"push", "call", "remove"} => OnStackOnly(i)}

Moves(op, x, y) ==
  \/ op = "push" /\ y = <<x[1], x[2] + 1>>
  \/ /\ op = "call" /\ x[1] < Len(source.calls)
     /\ x[2] = OnStack(source.calls[x[1] + 1].arguments)
     /\ y = <<x[1] + 1, x[2]>>
  \/ op = "remove" /\ y = <<x[1], 0>>
  \/ op \notin {"push", "call", "remove"} \cup OutsideBody /\ y = x

(* f has the progress before every instruction of c. *)
Annotates(f, c, a, b) ==
  /\ f \in [1 .. Len(c) + 1 -> Progress]
  /\ f[1] = a /\ f[Len(c) + 1] = b
  /\ \A p \in 1 .. Len(c) : Moves(c[p].op, f[p], f[p + 1])

Goes(c, a, b) == c \in Seq(Instructions) /\ \E f : Annotates(f, c, a, b)

Quiet(c) == \A a \in Progress : Goes(c, a, a)

LEMMA ProgressType ==
  /\ \A a \in Progress : a[1] \in Nat /\ a[2] \in Nat /\ a = <<a[1], a[2]>>
  /\ \A c, n \in Nat : <<c, n>> \in Progress /\ <<c, n>>[1] = c /\ <<c, n>>[2] = n
  /\ \A c, n \in Nat : <<c + 1, n>> \in Progress /\ <<c, 0>> \in Progress /\ <<c + 1, 0>> \in Progress
  BY DEF Progress

LEMMA GoesNowhere == \A a \in Progress : Goes(<<>>, a, a)
  <1> TAKE a \in Progress
  <1>1. Annotates([p \in 1 .. 1 |-> a], <<>>, a, a)
    BY DEF Annotates
  <1> QED
    BY <1>1 DEF Goes

LEMMA GoesOne ==
  ASSUME NEW i \in Instructions, NEW a \in Progress, NEW b \in Progress, Moves(i.op, a, b)
  PROVE  Goes(<<i>>, a, b)
  <1> DEFINE f == [p \in 1 .. 2 |-> IF p = 1 THEN a ELSE b]
  <1>1. /\ Len(<<i>>) = 1 /\ <<i>>[1] = i /\ <<i>> \in Seq(Instructions)
        /\ f[1] = a /\ f[2] = b /\ f \in [1 .. 2 -> Progress]
    OBVIOUS
  <1> HIDE DEF f
  <1>2. Annotates(f, <<i>>, a, b)
    BY <1>1 DEF Annotates
  <1> QED
    BY <1>1, <1>2 DEF Goes

LEMMA QuietOne ==
  ASSUME NEW i \in Instructions, i.op \notin {"push", "call", "remove"} \cup OutsideBody
  PROVE  Quiet(<<i>>)
  <1> SUFFICES ASSUME NEW a \in Progress PROVE Goes(<<i>>, a, a)
    BY DEF Quiet
  <1>1. Moves(i.op, a, a)
    BY DEF Moves
  <1> QED
    BY <1>1, GoesOne

LEMMA GoesOn ==
  ASSUME NEW s, NEW t, NEW a, NEW b, NEW d, Goes(s, a, b), Goes(t, b, d)
  PROVE  Goes(s \o t, a, d)
  <1>1. s \in Seq(Instructions) /\ t \in Seq(Instructions)
    BY DEF Goes
  <1> PICK f : Annotates(f, s, a, b)
    BY DEF Goes
  <1> PICK g : Annotates(g, t, b, d)
    BY DEF Goes
  <1> DEFINE st == s \o t
  <1> PICK m \in Nat, n \in Nat :
         /\ m = Len(s) /\ n = Len(t) /\ Len(st) = m + n /\ st \in Seq(Instructions)
         /\ \A p \in 1 .. m : st[p] = s[p]
         /\ \A p \in 1 .. n : st[m + p] = t[p]
    BY <1>1
  <1> HIDE DEF st
  <1> DEFINE h == [p \in 1 .. m + n + 1 |-> IF p <= m + 1 THEN f[p] ELSE g[p - m]]
  <1>2. /\ f \in [1 .. m + 1 -> Progress] /\ f[1] = a /\ f[m + 1] = b
        /\ g \in [1 .. n + 1 -> Progress] /\ g[1] = b /\ g[n + 1] = d
        /\ \A p \in 1 .. m : Moves(s[p].op, f[p], f[p + 1])
        /\ \A p \in 1 .. n : Moves(t[p].op, g[p], g[p + 1])
    BY DEF Annotates
  <1>3. /\ \A p \in 1 .. m + 1 : h[p] = f[p]
        /\ \A p \in 1 .. n + 1 : h[m + p] = g[p]
        /\ h \in [1 .. m + n + 1 -> Progress]
    <2>1. \A p \in 1 .. m + 1 : h[p] = f[p]
      OBVIOUS
    <2>2. ASSUME NEW p \in 1 .. n + 1 PROVE h[m + p] = g[p]
      <3>1. CASE p = 1
        BY <1>2, <3>1
      <3>2. CASE p # 1
        <4>1. /\ m + p \in 1 .. m + n + 1 /\ ~ m + p <= m + 1
              /\ (m + p) - m = p
          BY <3>2
        <4> QED
          BY <4>1
      <3> QED
        BY <3>1, <3>2
    <2>3. ASSUME NEW p \in 1 .. m + n + 1 PROVE h[p] \in Progress
      <3>1. p <= m + 1 => p \in 1 .. m + 1
        OBVIOUS
      <3>2. ~ p <= m + 1 => p - m \in 1 .. n + 1
        OBVIOUS
      <3> QED
        BY <1>2, <3>1, <3>2
    <2> QED
      BY <2>1, <2>2, <2>3
  <1> HIDE DEF h
  <1>4. ASSUME NEW p \in 1 .. m + n PROVE Moves(st[p].op, h[p], h[p + 1])
    <2>1. CASE p <= m
      <3>1. p \in 1 .. m /\ p \in 1 .. m + 1 /\ p + 1 \in 1 .. m + 1
        BY <2>1
      <3>2. h[p] = f[p] /\ h[p + 1] = f[p + 1] /\ st[p] = s[p]
        BY <1>3, <3>1
      <3> QED
        BY <1>2, <3>1, <3>2
    <2>2. CASE ~ p <= m
      <3> DEFINE q == p - m
      <3>1. q \in 1 .. n /\ q \in 1 .. n + 1 /\ q + 1 \in 1 .. n + 1 /\ p = m + q /\ p + 1 = m + (q + 1)
        BY <2>2
      <3> HIDE DEF q
      <3>2. h[p] = g[q] /\ h[p + 1] = g[q + 1] /\ st[p] = t[q]
        BY <1>3, <3>1
      <3> QED
        BY <1>2, <3>1, <3>2
    <2> QED
      BY <2>1, <2>2
  <1>5. h[1] = a
    <2>1. 1 \in 1 .. m + 1
      OBVIOUS
    <2> QED
      BY <1>2, <1>3, <2>1
  <1>6. h[m + n + 1] = d
    <2>1. n + 1 \in 1 .. n + 1 /\ m + (n + 1) = m + n + 1
      OBVIOUS
    <2> QED
      BY <1>2, <1>3, <2>1
  <1>7. Annotates(h, st, a, d)
    BY <1>3, <1>4, <1>5, <1>6 DEF Annotates
  <1> QED
    BY <1>7 DEF Goes, st

LEMMA QuietOn ==
  ASSUME NEW s, NEW t, Quiet(s), Quiet(t)
  PROVE  Quiet(s \o t)
  <1> SUFFICES ASSUME NEW a \in Progress PROVE Goes(s \o t, a, a)
    BY DEF Quiet
  <1>1. Goes(s, a, a) /\ Goes(t, a, a)
    BY DEF Quiet
  <1> QED
    BY <1>1, GoesOn

LEMMA QuietNowhere == Quiet(<<>>)
  BY GoesNowhere DEF Quiet

(* Pieces of code in a row. *)
LEMMA GoesAlong ==
  ASSUME NEW n \in Nat, NEW s, DOMAIN s = 1 .. n, s = [p \in 1 .. n |-> s[p]],
         NEW g \in [1 .. n + 1 -> Progress],
         \A p \in 1 .. n : Goes(s[p], g[p], g[p + 1])
  PROVE  Goes(FlattenSeq(s), g[1], g[n + 1])
  <1>1. s \in Seq(Seq(Instructions)) /\ Len(s) = n
    <2>1. \A p \in 1 .. n : s[p] \in Seq(Instructions)
      BY DEF Goes
    <2>2. s \in [1 .. n -> Seq(Instructions)]
      BY <2>1
    <2> HIDE DEF Instructions
    <2> QED
      BY <2>2
  <1>2. CASE n = 0
    <2>1. s = <<>>
      BY <1>1, <1>2
    <2>2. FlattenSeq(s) = s
      BY <1>1, <1>2 DEF FlattenSeq
    <2>3. g[1] \in Progress /\ n + 1 = 1
      BY <1>2
    <2> QED
      BY <2>1, <2>2, <2>3, GoesNowhere
  <1>3. CASE n # 0
    <2>1. PICK h : FlattenSeq(s) = h[n] /\ Chains(s, h, n)
      BY <1>1, <1>3, Flattens
    <2> DEFINE S == {m \in Nat : m \in 1 .. n => Goes(h[m], g[1], g[m + 1])}
    <2>2. 0 \in S
      OBVIOUS
    <2>3. ASSUME NEW m \in Nat, m \in S PROVE m + 1 \in S
      <3> SUFFICES ASSUME m + 1 \in 1 .. n PROVE Goes(h[m + 1], g[1], g[(m + 1) + 1])
        OBVIOUS
      <3>1. CASE m = 0
        <4>1. h[1] = s[1]
          BY <2>1 DEF Chains
        <4>2. 1 \in 1 .. n /\ m + 1 = 1
          BY <3>1
        <4> QED
          BY <4>1, <4>2
      <3>2. CASE m # 0
        <4>1. m \in 1 .. n /\ m + 1 # 1 /\ (m + 1) - 1 = m
          BY <3>2
        <4>2. Goes(h[m], g[1], g[m + 1])
          BY <2>3, <4>1
        <4>3. h[m + 1] = Longer(h[m], s, m + 1)
          BY <2>1, <4>1 DEF Chains
        <4>4. h[m + 1] = h[m] \o s[m + 1]
          BY <4>3 DEF Longer
        <4>5. Goes(s[m + 1], g[m + 1], g[(m + 1) + 1])
          OBVIOUS
        <4> QED
          BY <4>2, <4>4, <4>5, GoesOn
      <3> QED
        BY <3>1, <3>2
    <2>4. Nat \subseteq S
      <3> HIDE DEF S
      <3> QED
        BY <2>2, <2>3, SetInduction
    <2>5. n \in S /\ n \in 1 .. n
      BY <1>3, <2>4
    <2> QED
      BY <2>1, <2>5
  <1> QED
    BY <1>2, <1>3

LEMMA QuietAlong ==
  ASSUME NEW n \in Nat, NEW s, DOMAIN s = 1 .. n, s = [p \in 1 .. n |-> s[p]],
         \A p \in 1 .. n : Quiet(s[p])
  PROVE  Quiet(FlattenSeq(s))
  <1> SUFFICES ASSUME NEW a \in Progress PROVE Goes(FlattenSeq(s), a, a)
    BY DEF Quiet
  <1> DEFINE g == [p \in 1 .. n + 1 |-> a]
  <1>1. g \in [1 .. n + 1 -> Progress] /\ g[1] = a /\ g[n + 1] = a
    OBVIOUS
  <1>2. \A p \in 1 .. n : Goes(s[p], g[p], g[p + 1])
    BY DEF Quiet
  <1> HIDE DEF g
  <1>3. Goes(FlattenSeq(s), g[1], g[n + 1])
    BY <1>1, <1>2, GoesAlong
  <1> QED
    BY <1>1, <1>3
------------------------------------------------------------------------------
(* The pieces the code is made of. *)

Places == [kind : {"register"}, reg : Nat] \cup [kind : {"memory"}, reg : Nat, slot : Int]

Expressions == [kind : {"const"}, value : Nat] \cup Places

LEMMA InstructionIs ==
  ASSUME NEW op \in Ops, NEW from \in OperandType, NEW to \in OperandType,
         NEW inputs \in Seq(Nat), NEW outputs \in Seq(Nat), NEW move_ \in BOOLEAN
  PROVE  /\ Instruction(op, from, to, inputs, outputs, move_) \in InstructionType
         /\ Instruction(op, from, to, inputs, outputs, move_).op = op
  <1> HIDE DEF Ops, OperandType
  <1> QED
    BY DEF Instruction, InstructionType

LEMMA OperandsAre ==
  /\ Constant \in OperandType /\ Nothing \in OperandType
  /\ \A n \in Nat : [Constant EXCEPT !.n = n] \in OperandType
  /\ \A n \in Nat : In(n) \in OperandType /\ Out(n) \in OperandType
  /\ \A n \in Nat, slot \in Int : At(n, slot) \in OperandType
  BY DEF Constant, Nothing, In, Out, At, OperandType

LEMMA OperandIs ==
  ASSUME NEW e \in Expressions, NEW n \in Nat
  PROVE  Operand(e, n) \in OperandType /\ OperandInputs(e) \in Seq(Nat) /\ Len(OperandInputs(e)) \in Nat
  <1>1. CASE e.kind = "const"
    <2>1. e.value \in Nat
      BY <1>1 DEF Expressions, Places
    <2>2. Operand(e, n) = [Constant EXCEPT !.n = e.value] /\ OperandInputs(e) = <<>>
      BY <1>1 DEF Operand, OperandInputs
    <2> QED
      BY <2>1, <2>2, OperandsAre
  <1>2. CASE e.kind = "register"
    <2>1. e.reg \in Nat
      BY <1>2 DEF Expressions, Places
    <2>2. Operand(e, n) = In(n) /\ OperandInputs(e) = <<e.reg>>
      BY <1>2 DEF Operand, OperandInputs
    <2> QED
      BY <2>1, <2>2, OperandsAre
  <1>3. CASE e.kind = "memory"
    <2>1. e.reg \in Nat /\ e.slot \in Int
      BY <1>3 DEF Expressions, Places
    <2>2. Operand(e, n) = At(n, e.slot) /\ OperandInputs(e) = <<e.reg>>
      BY <1>3 DEF Operand, OperandInputs
    <2> QED
      BY <2>1, <2>2, OperandsAre
  <1> QED
    BY <1>1, <1>2, <1>3 DEF Expressions, Places

LEMMA QuietInstruction ==
  ASSUME NEW op \in {"mov", "comment"}, NEW from \in OperandType, NEW to \in OperandType,
         NEW inputs \in Seq(Nat), NEW outputs \in Seq(Nat), NEW move_ \in BOOLEAN
  PROVE  Quiet(<<Instruction(op, from, to, inputs, outputs, move_)>>)
  <1>1. op \in Ops /\ op \notin {"push", "call", "remove"} \cup OutsideBody
    BY DEF Ops, OutsideBody
  <1>2. /\ Instruction(op, from, to, inputs, outputs, move_) \in InstructionType
        /\ Instruction(op, from, to, inputs, outputs, move_).op = op
    BY <1>1, InstructionIs
  <1>3. Instruction(op, from, to, inputs, outputs, move_) \in Instructions
    BY <1>2 DEF Instructions
  <1> HIDE DEF Instruction
  <1> QED
    BY <1>1, <1>2, <1>3, QuietOne

LEMMA QuietYield ==
  ASSUME NEW e \in Expressions, NEW r \in Nat
  PROVE  /\ Quiet(Yield(e, r))
         /\ addInstruction("mov", e, r) \in Instructions
         /\ addInstruction("mov", e, r).op = "mov"
  <1>1. /\ Operand(e, 1) \in OperandType /\ Out(1) \in OperandType /\ OperandInputs(e) \in Seq(Nat)
        /\ <<r>> \in Seq(Nat)
        /\ "mov" \in {"mov", "comment"} /\ "mov" \in Ops
    BY OperandIs, OperandsAre DEF Ops
  <1>2. PICK b \in BOOLEAN : b = ("mov" = "mov" /\ e.kind = "register")
    OBVIOUS
  <1>3. addInstruction("mov", e, r) =
          Instruction("mov", Operand(e, 1), Out(1), OperandInputs(e), <<r>>, b)
    BY <1>2, Zenon DEF addInstruction
  <1>4. /\ Quiet(<<addInstruction("mov", e, r)>>)
        /\ addInstruction("mov", e, r) \in Instructions
        /\ addInstruction("mov", e, r).op = "mov"
    <2> DEFINE i == Instruction("mov", Operand(e, 1), Out(1), OperandInputs(e), <<r>>, b)
    <2>1. Quiet(<<i>>)
      BY <1>1, QuietInstruction, Zenon
    <2>2. i \in Instructions /\ i.op = "mov"
      <3>1. i \in InstructionType
        BY <1>1, InstructionIs, Zenon
      <3>2. i.op = "mov"
        BY DEF Instruction
      <3> QED
        BY <3>1, <3>2 DEF Instructions
    <2> HIDE DEF i
    <2>3. addInstruction("mov", e, r) = i
      BY <1>3 DEF i
    <2> QED
      BY <2>1, <2>2, <2>3
  <1> QED
    BY <1>4 DEF Yield

LEMMA QuietStore ==
  ASSUME NEW e \in Expressions, NEW to \in [kind : {"memory"}, reg : Nat, slot : Int]
  PROVE  Quiet(StoreTo(e, to))
  <1>1. /\ Operand(e, 1) \in OperandType /\ OperandInputs(e) \in Seq(Nat)
        /\ Len(OperandInputs(e)) + 1 \in Nat
        /\ to.reg \in Nat /\ to.slot \in Int
    BY OperandIs
  <1>2. /\ At(Len(OperandInputs(e)) + 1, to.slot) \in OperandType
        /\ OperandInputs(e) \o <<to.reg>> \in Seq(Nat)
        /\ <<>> \in Seq(Nat)
    BY <1>1, OperandsAre
  <1> QED
    BY <1>1, <1>2, QuietInstruction DEF StoreTo

LEMMA QuietAssign ==
  ASSUME NEW place \in Places, NEW e \in Expressions
  PROVE  Quiet(AssignTo(place, e))
  <1>1. CASE place.kind = "register"
    <2>1. place.reg \in Nat
      BY DEF Places
    <2> QED
      BY <1>1, <2>1, QuietYield DEF AssignTo
  <1>2. CASE place.kind # "register"
    <2>1. place \in [kind : {"memory"}, reg : Nat, slot : Int]
      BY <1>2 DEF Places
    <2> QED
      BY <1>2, <2>1, QuietStore DEF AssignTo
  <1> QED
    BY <1>1, <1>2

LEMMA RegIs ==
  /\ \A r \in Nat : Reg(r) \in Places /\ Reg(r).reg = r
  /\ \A r \in Nat, slot \in Int : Below(r, slot) \in Places
  /\ \A n \in Nat : Literal(n) \in Expressions
  /\ Places \subseteq Expressions
  BY DEF Reg, Below, Literal, Places, Expressions

LEMMA ElementIs ==
  ASSUME NEW X, NEW s \in Seq(X)
  PROVE  Len(s) \in Nat /\ \A k \in 1 .. Len(s) : s[k] \in X
  OBVIOUS

LEMMA RowIs ==
  ASSUME NEW X, NEW n \in Nat, NEW s \in [1 .. n -> X]
  PROVE  s \in Seq(X) /\ Len(s) = n
  OBVIOUS

LEMMA Registers ==
  /\ Link \in Nat /\ RAX \in Nat /\ RSP \in Nat /\ FirstNew \in Nat
  /\ Len(Arguments) \in Nat /\ \A k \in 1 .. Len(Arguments) : Arguments[k] \in Nat
  /\ Len(CalleeSaved) \in Nat /\ \A k \in 1 .. Len(CalleeSaved) : CalleeSaved[k] \in Nat
  /\ CallerSaved[1] \in Nat
  <1>1. /\ Link \in Nat /\ RAX \in Nat /\ RSP \in Nat /\ FirstNew \in Nat
        /\ Arguments \in Seq(Nat) /\ CalleeSaved \in Seq(Nat)
    BY ConventionAssumption, Zenon
  <1>2. CallerSaved \in Seq(Nat) /\ CallerSaved # <<>>
    BY ConventionAssumption, Zenon
  <1>3. CallerSaved[1] \in Nat
    BY <1>2
  <1> QED
    BY <1>1, <1>3, ElementIs

LEMMA QuietRow ==
  ASSUME NEW s \in Seq(Instructions), \A p \in 1 .. Len(s) : s[p].op = "mov"
  PROVE  Quiet(s)
  <1> SUFFICES ASSUME NEW a \in Progress PROVE Goes(s, a, a)
    BY DEF Quiet
  <1> PICK n \in Nat : n = Len(s)
    OBVIOUS
  <1> DEFINE f == [p \in 1 .. n + 1 |-> a]
  <1>1. f \in [1 .. n + 1 -> Progress] /\ f[1] = a /\ f[n + 1] = a
    OBVIOUS
  <1>2. \A p \in 1 .. n : f[p] = a /\ f[p + 1] = a
    OBVIOUS
  <1> HIDE DEF f
  <1>3. \A p \in 1 .. n : Moves(s[p].op, f[p], f[p + 1])
    BY <1>2 DEF Moves, OutsideBody
  <1>4. Annotates(f, s, a, a)
    BY <1>1, <1>3 DEF Annotates
  <1> QED
    BY <1>4 DEF Goes

LEMMA PushRow ==
  ASSUME NEW s \in Seq(Instructions), \A p \in 1 .. Len(s) : s[p].op = "push", NEW c \in Nat
  PROVE  Goes(s, <<c, 0>>, <<c, Len(s)>>)
  <1> PICK n \in Nat : n = Len(s)
    OBVIOUS
  <1> DEFINE f == [p \in 1 .. n + 1 |-> <<c, p - 1>>]
  <1>1. f \in [1 .. n + 1 -> Progress] /\ f[1] = <<c, 0>> /\ f[n + 1] = <<c, n>>
    BY DEF Progress
  <1>2. \A p \in 1 .. n : f[p] = <<c, p - 1>> /\ f[p + 1] = <<c, (p - 1) + 1>>
    OBVIOUS
  <1> HIDE DEF f
  <1>3. \A p \in 1 .. n : Moves(s[p].op, f[p], f[p + 1])
    BY <1>2 DEF Moves
  <1>4. Annotates(f, s, <<c, 0>>, <<c, n>>)
    BY <1>1, <1>3 DEF Annotates
  <1> QED
    BY <1>4 DEF Goes

LEMMA MinIs == \A a, b \in Nat : Min({a, b}) = IF a <= b THEN a ELSE b
  <1> TAKE a, b \in Nat
  <1> DEFINE m == IF a <= b THEN a ELSE b
  <1>1. m \in {a, b} /\ \A y \in {a, b} : m <= y
    OBVIOUS
  <1>2. \A x \in {a, b} : (\A y \in {a, b} : x <= y) => x = m
    OBVIOUS
  <1> HIDE DEF m
  <1>3. Min({a, b}) = m
    BY <1>1, <1>2 DEF Min
  <1> QED
    BY <1>3 DEF m

LEMMA CountsOfArguments ==
  ASSUME NEW X, NEW arguments \in Seq(X)
  PROVE  /\ InRegisters(arguments) \in Nat /\ OnStack(arguments) \in Nat
         /\ InRegisters(arguments) <= Len(arguments) /\ InRegisters(arguments) <= Len(Arguments)
         /\ OnStack(arguments) = Len(arguments) - InRegisters(arguments)
  <1>1. Len(arguments) \in Nat /\ Len(Arguments) \in Nat
    BY ConventionAssumption
  <1> QED
    BY <1>1, MinIs DEF InRegisters, OnStack

LEMMA ArgumentsArePlaced ==
  ASSUME NEW arguments \in Seq(Nat \ {0}), NEW c \in Nat
  PROVE  Goes(placeCallArguments(arguments), <<c, 0>>, <<c, OnStack(arguments)>>)
  <1> PICK m \in Nat, n \in Nat : /\ m = InRegisters(arguments) /\ n = OnStack(arguments)
                                  /\ m <= Len(arguments) /\ m <= Len(Arguments) /\ n = Len(arguments) - m
    BY CountsOfArguments
  <1> DEFINE first == [k \in 1 .. m |-> addInstruction("mov", Reg(arguments[k]), Arguments[k])]
             last == [k \in 1 .. n |->
                        Instruction("push", In(1), Nothing, <<PushOrder(arguments, k)>>, <<>>, FALSE)]
  <1>1. placeCallArguments(arguments) = first \o last
    BY DEF placeCallArguments
  <1>2. ASSUME NEW k \in 1 .. m
        PROVE  /\ addInstruction("mov", Reg(arguments[k]), Arguments[k]) \in Instructions
               /\ addInstruction("mov", Reg(arguments[k]), Arguments[k]).op = "mov"
    <2>1. arguments[k] \in Nat /\ Arguments[k] \in Nat
      <3> PICK a \in Nat, b \in Nat : a = Len(arguments) /\ b = Len(Arguments)
        BY Registers, ElementIs, Zenon
      <3>1. k \in 1 .. a /\ k \in 1 .. b
        OBVIOUS
      <3> QED
        BY <3>1, Registers, ElementIs, Zenon
    <2> QED
      BY <2>1, RegIs, QuietYield
  <1>3. ASSUME NEW k \in 1 .. n
        PROVE  /\ Instruction("push", In(1), Nothing, <<PushOrder(arguments, k)>>, <<>>, FALSE) \in Instructions
               /\ Instruction("push", In(1), Nothing, <<PushOrder(arguments, k)>>, <<>>, FALSE).op = "push"
    <2>1. Len(arguments) + 1 - k \in 1 .. Len(arguments)
      OBVIOUS
    <2>2. PushOrder(arguments, k) \in Nat \ {0}
      BY <2>1 DEF PushOrder
    <2>3. /\ In(1) \in OperandType /\ Nothing \in OperandType /\ "push" \in Ops
          /\ <<PushOrder(arguments, k)>> \in Seq(Nat) /\ <<>> \in Seq(Nat) /\ FALSE \in BOOLEAN
      BY <2>2, OperandsAre DEF Ops
    <2> DEFINE i == Instruction("push", In(1), Nothing, <<PushOrder(arguments, k)>>, <<>>, FALSE)
    <2>4. i \in InstructionType
      BY <2>3, InstructionIs, Zenon
    <2>5. i.op = "push" /\ i.from = In(1) /\ i.inputs = <<PushOrder(arguments, k)>>
      BY DEF Instruction
    <2> HIDE DEF i
    <2>6. i \in Instructions
      BY <2>2, <2>4, <2>5 DEF Instructions, OnStackOnly, In, FP
    <2> QED
      BY <2>5, <2>6 DEF i
  <1>4. Quiet(first)
    <2>1. /\ first \in Seq(Instructions) /\ Len(first) = m
          /\ \A p \in 1 .. m : first[p].op = "mov"
      <3>1. first \in [1 .. m -> Instructions] /\ \A p \in 1 .. m : first[p].op = "mov"
        BY <1>2, Zenon
      <3> HIDE DEF first
      <3> QED
        BY <3>1, RowIs
    <2> HIDE DEF first
    <2> QED
      BY <2>1, QuietRow
  <1>5. Goes(last, <<c, 0>>, <<c, n>>)
    <2>1. /\ last \in Seq(Instructions) /\ Len(last) = n
          /\ \A p \in 1 .. n : last[p].op = "push"
      <3>1. last \in [1 .. n -> Instructions] /\ \A p \in 1 .. n : last[p].op = "push"
        BY <1>3, Zenon
      <3> HIDE DEF last
      <3> QED
        BY <3>1, RowIs
    <2> HIDE DEF last
    <2> QED
      BY <2>1, PushRow
  <1> HIDE DEF first, last
  <1>6. Goes(first, <<c, 0>>, <<c, 0>>)
    BY <1>4, ProgressType DEF Quiet
  <1> QED
    BY <1>1, <1>5, <1>6, GoesOn

(* It is call number c + 1 that passes the arguments. *)
IsCall(arguments, c) ==
  c < Len(source.calls) /\ OnStack(arguments) = OnStack(source.calls[c + 1].arguments)

LEMMA CallGoes ==
  ASSUME NEW arguments \in Seq(Nat \ {0}), NEW callee_parentfp \in Places \cup {NoParent},
         NEW value \in Nat \cup {NoValue}, NEW c \in Nat, IsCall(arguments, c)
  PROVE  Goes(Call(arguments, callee_parentfp, value), <<c, 0>>, <<c + 1, 0>>)
  <1> PICK n \in Nat : n = OnStack(arguments)
    BY CountsOfArguments
  <1> DEFINE parent == IF callee_parentfp = NoParent THEN <<>> ELSE Yield(callee_parentfp, Link)
             place == placeCallArguments(arguments)
             jump == Instruction("call", Nothing, Nothing, <<>>, CallerSaved, FALSE)
             remov == removeCallArguments(arguments)
             yield == IF value = NoValue THEN <<>> ELSE Yield(Reg(CallerSaved[1]), value)
  <1>1. Call(arguments, callee_parentfp, value) = parent \o place \o <<jump>> \o remov \o yield
    BY DEF Call
  <1>2. Goes(parent, <<c, 0>>, <<c, 0>>)
    <2>1. CASE callee_parentfp = NoParent
      BY <2>1, ProgressType, GoesNowhere
    <2>2. CASE callee_parentfp # NoParent
      <3>1. callee_parentfp \in Expressions /\ Link \in Nat
        BY <2>2, RegIs, ConventionAssumption
      <3> QED
        BY <2>2, <3>1, QuietYield, ProgressType DEF Quiet
    <2> QED
      BY <2>1, <2>2
  <1>3. Goes(place, <<c, 0>>, <<c, n>>)
    BY ArgumentsArePlaced
  <1>4. Goes(<<jump>>, <<c, n>>, <<c + 1, n>>)
    <2>1. jump \in Instructions /\ jump.op = "call"
      <3>1. /\ Nothing \in OperandType /\ "call" \in Ops /\ <<>> \in Seq(Nat)
            /\ CallerSaved \in Seq(Nat) /\ FALSE \in BOOLEAN
        <4>1. CallerSaved \in Seq(Nat)
          BY ConventionAssumption, Zenon
        <4> QED
          BY <4>1, OperandsAre DEF Ops
      <3>2. jump \in InstructionType
        BY <3>1, InstructionIs, Zenon
      <3>3. jump.op = "call" /\ jump.from = Nothing
        BY DEF Instruction
      <3>4. Nothing.kind # "input"
        BY DEF Nothing
      <3> HIDE DEF jump
      <3> QED
        BY <3>2, <3>3, <3>4 DEF Instructions, OnStackOnly
    <2> HIDE DEF jump
    <2>2. Moves(jump.op, <<c, n>>, <<c + 1, n>>)
      BY <2>1 DEF Moves, IsCall
    <2>3. <<c, n>> \in Progress /\ <<c + 1, n>> \in Progress
      BY ProgressType
    <2> QED
      BY <2>1, <2>2, <2>3, GoesOne
  <1>5. Goes(remov, <<c + 1, n>>, <<c + 1, 0>>)
    <2>1. CASE n = 0
      <3>1. ~ n > 0
        BY <2>1
      <3>2. remov = <<>>
        BY <3>1, Zenon DEF removeCallArguments
      <3>3. <<c + 1, 0>> \in Progress
        BY ProgressType, Zenon
      <3> QED
        BY <2>1, <3>2, <3>3, GoesNowhere, Zenon
    <2>2. CASE n # 0
      <3> DEFINE r == Instruction("remove", Operand(Literal(8 * n), 1), Nothing, <<>>, <<>>, FALSE)
      <3>1. remov = <<r>>
        <4>1. n > 0
          BY <2>2
        <4> QED
          BY <4>1, Zenon DEF removeCallArguments
      <3>2. r \in Instructions /\ r.op = "remove"
        <4>1. Operand(Literal(8 * n), 1) \in OperandType
          <5>1. Literal(8 * n) \in Expressions
            BY RegIs
          <5> QED
            BY <5>1, OperandIs
        <4>2. Nothing \in OperandType /\ "remove" \in Ops /\ <<>> \in Seq(Nat) /\ FALSE \in BOOLEAN
          BY OperandsAre DEF Ops
        <4>3. r \in InstructionType
          BY <4>1, <4>2, InstructionIs, Zenon
        <4>4. r.op = "remove" /\ r.from = Operand(Literal(8 * n), 1)
          BY DEF Instruction
        <4>5. Operand(Literal(8 * n), 1).kind # "input"
          BY DEF Operand, Literal, Constant
        <4> QED
          BY <4>3, <4>4, <4>5 DEF Instructions, OnStackOnly
      <3> HIDE DEF r
      <3>3. Moves(r.op, <<c + 1, n>>, <<c + 1, 0>>)
        BY <3>2 DEF Moves
      <3>4. <<c + 1, n>> \in Progress /\ <<c + 1, 0>> \in Progress
        BY ProgressType, Zenon
      <3> QED
        BY <3>1, <3>2, <3>3, <3>4, GoesOne
    <2> QED
      BY <2>1, <2>2
  <1>6. Goes(yield, <<c + 1, 0>>, <<c + 1, 0>>)
    <2>0. <<c + 1, 0>> \in Progress
      BY ProgressType, Zenon
    <2>1. CASE value = NoValue
      BY <2>0, <2>1, GoesNowhere
    <2>2. CASE value # NoValue
      <3>1. CallerSaved[1] \in Nat /\ value \in Nat
        BY <2>2, ConventionAssumption
      <3>2. Reg(CallerSaved[1]) \in Expressions
        BY <3>1, RegIs
      <3> QED
        BY <2>0, <2>2, <3>1, <3>2, QuietYield DEF Quiet
    <2> QED
      BY <2>1, <2>2
  <1> HIDE DEF parent, place, jump, remov, yield
  <1>7. Goes(parent \o place, <<c, 0>>, <<c, n>>)
    BY <1>2, <1>3, GoesOn
  <1>8. Goes(parent \o place \o <<jump>>, <<c, 0>>, <<c + 1, n>>)
    BY <1>4, <1>7, GoesOn
  <1>9. Goes(parent \o place \o <<jump>> \o remov, <<c, 0>>, <<c + 1, 0>>)
    BY <1>5, <1>8, GoesOn
  <1>10. Goes(parent \o place \o <<jump>> \o remov \o yield, <<c, 0>>, <<c + 1, 0>>)
    BY <1>6, <1>9, GoesOn
  <1> QED
    BY <1>1, <1>10
------------------------------------------------------------------------------
(* The code of the function. *)

Words == {w \in Nat : w % 8 = 0}

Frames == [frame_size : Words, param_count : Nat, param_stack_size : Nat]

Variables == Len(source.params) + Len(source.variables)

(* The frame, with places for the variables declared so far. *)
LaidOut ==
  /\ source \in Sources
  /\ frame \in Frames /\ spills \in Nat
  /\ parameters \in Seq(Places) /\ places \in Seq(Places)
  /\ movements \in Seq([parameter : Places, where_store : Places])
  /\ link \in Places \cup {NoPlace}
  /\ link = NoPlace => source.link = "none" \/ pc = "link"

Complete == LaidOut /\ pc # "link" /\ Len(places) = Variables

LEMMA SourceIs ==
  ASSUME source \in Sources
  PROVE  /\ source.params \in Seq(BOOLEAN) /\ source.variables \in Seq(BOOLEAN)
         /\ Variables \in Nat /\ Len(source.params) \in Nat /\ Len(source.variables) \in Nat
         /\ Len(Flags) = Variables
         /\ source.result \in 0 .. Variables
         /\ Len(source.calls) \in Nat
         /\ \A c \in 1 .. Len(source.calls) :
              /\ source.calls[c].arguments \in Seq(0 .. Variables)
              /\ source.calls[c].to \in 0 .. Variables
              /\ source.calls[c].passed \in {"none", "own", "parent"}
              /\ source.link = "none" => 0 \notin ToSet(source.calls[c].arguments)
  <1> DEFINE CallsOf == [arguments : Seq(0 .. Variables), passed : {"none", "own", "parent"}, to : 0 .. Variables]
  <1>1. /\ source.params \in Seq(BOOLEAN) /\ source.variables \in Seq(BOOLEAN)
        /\ source.result \in 0 .. Variables
        /\ source.calls \in Seq(CallsOf)
        /\ source.link = "none" => \A c \in DOMAIN source.calls : 0 \notin ToSet(source.calls[c].arguments)
    BY SourceAssumption, Zenon DEF Variables
  <1>2. Len(source.params) \in Nat /\ Len(source.variables) \in Nat
    BY <1>1, ElementIs, Zenon
  <1>3. Variables \in Nat
    <2>1. \A a, b \in Nat : a + b \in Nat
      OBVIOUS
    <2> QED
      BY <1>2, <2>1, Zenon DEF Variables
  <1>4. Len(Flags) = Variables
    BY <1>1 DEF Flags, Variables
  <1> HIDE DEF CallsOf
  <1>5. Len(source.calls) \in Nat /\ \A c \in 1 .. Len(source.calls) : source.calls[c] \in CallsOf
    BY <1>1, ElementIs, Zenon
  <1>6. DOMAIN source.calls = 1 .. Len(source.calls)
    BY <1>1
  <1>7. \A c \in 1 .. Len(source.calls) :
          /\ source.calls[c].arguments \in Seq(0 .. Variables)
          /\ source.calls[c].to \in 0 .. Variables
          /\ source.calls[c].passed \in {"none", "own", "parent"}
    <2> TAKE c \in 1 .. Len(source.calls)
    <2>1. source.calls[c] \in CallsOf
      BY <1>5
    <2> QED
      BY <2>1 DEF CallsOf
  <1> QED
    BY <1>1, <1>2, <1>3, <1>4, <1>5, <1>6, <1>7, Zenon

LEMMA PlacesAre ==
  ASSUME Complete
  PROVE  \A n \in 1 .. Variables : places[n] \in Places
  BY ElementIs, Zenon DEF Complete, LaidOut

LEMMA PlaceOfCall ==
  ASSUME Complete, NEW c \in 1 .. Len(source.calls)
  PROVE  /\ source.calls[c].arguments \in Seq(0 .. Variables)
         /\ \A k \in 1 .. Len(source.calls[c].arguments) : PlaceOf(source.calls[c].arguments[k]) \in Places
  <1>1. /\ source.calls[c].arguments \in Seq(0 .. Variables)
        /\ source.link = "none" => 0 \notin ToSet(source.calls[c].arguments)
        /\ Variables \in Nat
    BY SourceIs DEF Complete, LaidOut
  <1> DEFINE s == source.calls[c].arguments
  <1>2. ASSUME NEW k \in 1 .. Len(s)
        PROVE  PlaceOf(s[k]) \in Places
    <2>1. s[k] \in 0 .. Variables /\ s[k] \in ToSet(s)
      <3>1. s[k] \in 0 .. Variables
        BY <1>1, ElementIs, Zenon
      <3>2. DOMAIN s = 1 .. Len(s)
        BY <1>1
      <3> QED
        BY <3>1, <3>2 DEF ToSet
    <2>2. CASE s[k] = 0
      <3>1. link \in Places
        BY <1>1, <2>1, <2>2 DEF Complete, LaidOut
      <3>2. link.reg \in Nat /\ 1 \in Int
        BY <3>1 DEF Places
      <3>3. Below(link.reg, 1) \in Places
        BY <3>2, RegIs, Zenon
      <3> QED
        BY <2>2, <3>3 DEF PlaceOf
    <2>3. CASE s[k] # 0
      <3>1. s[k] \in 1 .. Variables
        BY <1>1, <2>1, <2>3
      <3> QED
        BY <2>3, <3>1, PlacesAre DEF PlaceOf
    <2> QED
      BY <2>2, <2>3
  <1> QED
    BY <1>1, <1>2

LEMMA ParentIs ==
  ASSUME LaidOut, NEW passed \in {"none", "own", "parent"}
  PROVE  ParentFp(passed) \in Places \cup {NoParent}
  <1>1. NoPlace = NoParent
    BY DEF NoPlace, NoParent
  <1>2. Reg(FP) \in Places
    BY RegIs DEF FP
  <1>3. CASE passed = "none"
    BY <1>3 DEF ParentFp
  <1>4. CASE passed = "own"
    BY <1>2, <1>4 DEF ParentFp
  <1>5. CASE passed = "parent"
    BY <1>1, <1>5 DEF ParentFp, LaidOut
  <1> QED
    BY <1>3, <1>4, <1>5

LEMMA SameLength ==
  ASSUME NEW X, NEW s \in Seq(X), NEW t, DOMAIN t = 1 .. Len(s), t = [k \in DOMAIN t |-> t[k]],
         \A k \in 1 .. Len(s) : t[k] \in Nat \ {0}
  PROVE  t \in Seq(Nat \ {0}) /\ Len(t) = Len(s) /\ OnStack(t) = OnStack(s)
  <1>1. Len(s) \in Nat
    OBVIOUS
  <1>2. t \in [1 .. Len(s) -> Nat \ {0}]
    OBVIOUS
  <1>3. t \in Seq(Nat \ {0}) /\ Len(t) = Len(s)
    BY <1>1, <1>2, RowIs, Zenon
  <1> QED
    BY <1>3, Zenon DEF OnStack, InRegisters

LEMMA CallCodeGoes ==
  ASSUME Complete, NEW c \in 1 .. Len(source.calls)
  PROVE  Goes(CallCode(c), <<c - 1, 0>>, <<c, 0>>)
  <1> DEFINE calling == source.calls[c]
             arguments == [k \in DOMAIN calling.arguments |-> ArgumentReg(c, k)]
             load == FlattenSeq([k \in 1 .. Len(arguments) |->
                                   Yield(PlaceOf(calling.arguments[k]), arguments[k])])
             jump == Call(arguments, ParentFp(calling.passed), IF calling.to = 0 THEN NoValue ELSE ValueReg(c))
             assign == IF calling.to = 0 THEN <<>> ELSE AssignTo(places[calling.to], Reg(ValueReg(c)))
  <1>1. CallCode(c) = load \o jump \o assign
    BY DEF CallCode, Each
  <1>2. /\ Len(source.calls) \in Nat /\ Variables \in Nat /\ c \in Nat \ {0} /\ c - 1 \in Nat
        /\ c - 1 < Len(source.calls) /\ (c - 1) + 1 = c
    <2>1. Len(source.calls) \in Nat /\ Variables \in Nat
      BY SourceIs DEF Complete, LaidOut
    <2> QED
      BY <2>1
  <1>3. /\ calling.arguments \in Seq(0 .. Variables) /\ calling.to \in 0 .. Variables
        /\ calling.passed \in {"none", "own", "parent"}
    BY SourceIs DEF Complete, LaidOut
  <1> DEFINE n == Len(calling.arguments)
  <1>4. n \in Nat /\ DOMAIN calling.arguments = 1 .. n
    BY <1>3
  <1>5. \A k \in 1 .. n : ArgumentReg(c, k) \in Nat \ {0}
    BY <1>2, <1>4 DEF ArgumentReg
  <1>6. /\ arguments \in Seq(Nat \ {0}) /\ Len(arguments) = n /\ OnStack(arguments) = OnStack(calling.arguments)
        /\ \A k \in 1 .. n : arguments[k] \in Nat
    <2>1. /\ DOMAIN arguments = 1 .. n /\ arguments = [k \in DOMAIN arguments |-> arguments[k]]
          /\ \A k \in 1 .. n : arguments[k] \in Nat \ {0}
      BY <1>4, <1>5, Zenon
    <2> HIDE DEF arguments
    <2> QED
      BY <1>3, <2>1, SameLength
  <1> HIDE DEF arguments
  <1>7. Quiet(load)
    <2> DEFINE s == [k \in 1 .. n |-> Yield(PlaceOf(calling.arguments[k]), arguments[k])]
    <2>1. load = FlattenSeq(s)
      BY <1>6, Zenon
    <2>2. ASSUME NEW k \in 1 .. n
          PROVE  Quiet(s[k])
      <3>1. PlaceOf(calling.arguments[k]) \in Expressions /\ arguments[k] \in Nat
        BY <1>6, PlaceOfCall, RegIs
      <3>2. Quiet(Yield(PlaceOf(calling.arguments[k]), arguments[k]))
        BY <3>1, QuietYield, Zenon
      <3> QED
        BY <3>2, Zenon
    <2>3. DOMAIN s = 1 .. n /\ s = [k \in 1 .. n |-> s[k]]
      OBVIOUS
    <2> HIDE DEF s, n, load
    <2> QED
      BY <1>4, <2>1, <2>2, <2>3, QuietAlong
  <1>8. Goes(jump, <<c - 1, 0>>, <<c, 0>>)
    <2> DEFINE value == IF calling.to = 0 THEN NoValue ELSE ValueReg(c)
               parent == ParentFp(calling.passed)
    <2>1. value \in Nat \cup {NoValue}
      BY <1>2 DEF ValueReg
    <2>2. parent \in Places \cup {NoParent}
      BY <1>3, ParentIs DEF Complete
    <2>3. IsCall(arguments, c - 1)
      BY <1>2, <1>6 DEF IsCall
    <2> HIDE DEF value, parent
    <2>4. Goes(Call(arguments, parent, value), <<c - 1, 0>>, <<(c - 1) + 1, 0>>)
      BY <1>2, <1>6, <2>1, <2>2, <2>3, CallGoes
    <2> QED
      BY <1>2, <2>4 DEF value, parent
  <1>9. Quiet(assign)
    <2>1. CASE calling.to = 0
      BY <2>1, QuietNowhere
    <2>2. CASE calling.to # 0
      <3>1. calling.to \in 1 .. Variables
        BY <1>2, <1>3, <2>2
      <3>2. places[calling.to] \in Places
        BY <3>1, PlacesAre
      <3>3. Reg(ValueReg(c)) \in Expressions
        BY <1>2, RegIs DEF ValueReg
      <3> QED
        BY <2>2, <3>2, <3>3, QuietAssign
    <2> QED
      BY <2>1, <2>2
  <1> HIDE DEF load, jump, assign
  <1>10. <<c - 1, 0>> \in Progress /\ <<c, 0>> \in Progress
    BY <1>2, ProgressType
  <1>11. Goes(load, <<c - 1, 0>>, <<c - 1, 0>>) /\ Goes(assign, <<c, 0>>, <<c, 0>>)
    BY <1>7, <1>9, <1>10 DEF Quiet
  <1>12. Goes(load \o jump, <<c - 1, 0>>, <<c, 0>>)
    BY <1>8, <1>11, GoesOn
  <1>13. Goes(load \o jump \o assign, <<c - 1, 0>>, <<c, 0>>)
    BY <1>11, <1>12, GoesOn
  <1> QED
    BY <1>1, <1>13

LEMMA BodyGoes ==
  ASSUME Complete
  PROVE  Goes(Body, <<0, 0>>, <<Len(source.calls), 0>>)
  <1> DEFINE store == FlattenSeq([k \in 1 .. Len(movements) |->
                                    AssignTo(movements[k].where_store, movements[k].parameter)])
             init == FlattenSeq([k \in 1 .. Len(source.variables) |->
                                    AssignTo(places[Len(source.params) + k], Literal(Len(source.params) + k))])
             cod == FlattenSeq([k \in 1 .. Len(source.calls) |-> CallCode(k)])
             result == IF source.result = 0 THEN <<>> ELSE Yield(places[source.result], ResultReg)
  <1>1. Body = store \o init \o cod \o result
    BY DEF Body, Each
  <1> PICK m \in Nat, np \in Nat, nv \in Nat, nc \in Nat :
         /\ m = Len(movements) /\ np = Len(source.params) /\ nv = Len(source.variables)
         /\ nc = Len(source.calls)
    <2>1. movements \in Seq([parameter : Places, where_store : Places])
      BY DEF Complete, LaidOut
    <2>2. Len(movements) \in Nat
      BY <2>1, ElementIs, Zenon
    <2> QED
      BY <2>2, SourceIs DEF Complete, LaidOut
  <1>2. Quiet(store)
    <2> DEFINE s == [k \in 1 .. m |-> AssignTo(movements[k].where_store, movements[k].parameter)]
    <2>1. store = FlattenSeq(s)
      BY Zenon
    <2>2. ASSUME NEW k \in 1 .. m
          PROVE  Quiet(s[k])
      <3>1. movements[k] \in [parameter : Places, where_store : Places]
        BY ElementIs, Zenon DEF Complete, LaidOut
      <3>2. movements[k].where_store \in Places /\ movements[k].parameter \in Expressions
        BY <3>1, RegIs
      <3>3. Quiet(AssignTo(movements[k].where_store, movements[k].parameter))
        BY <3>2, QuietAssign, Zenon
      <3> QED
        BY <3>3, Zenon
    <2>3. DOMAIN s = 1 .. m /\ s = [k \in 1 .. m |-> s[k]]
      OBVIOUS
    <2> HIDE DEF s, store
    <2> QED
      BY <2>1, <2>2, <2>3, QuietAlong
  <1>3. Quiet(init)
    <2> DEFINE s == [k \in 1 .. nv |-> AssignTo(places[np + k], Literal(np + k))]
    <2>1. init = FlattenSeq(s)
      BY Zenon
    <2>2. ASSUME NEW k \in 1 .. nv
          PROVE  Quiet(s[k])
      <3>1. Variables = np + nv
        BY Zenon DEF Variables
      <3>2. np + k \in 1 .. Variables /\ np + k \in Nat
        <4>1. \A a, b \in Nat : \A j \in 1 .. b : a + j \in 1 .. a + b /\ a + j \in Nat
          OBVIOUS
        <4> QED
          BY <3>1, <4>1, Zenon
      <3>3. places[np + k] \in Places /\ Literal(np + k) \in Expressions
        BY <3>2, PlacesAre, RegIs, Zenon
      <3>4. Quiet(AssignTo(places[np + k], Literal(np + k)))
        BY <3>3, QuietAssign, Zenon
      <3> QED
        BY <3>4, Zenon
    <2>3. DOMAIN s = 1 .. nv /\ s = [k \in 1 .. nv |-> s[k]]
      OBVIOUS
    <2> HIDE DEF s, init
    <2> QED
      BY <2>1, <2>2, <2>3, QuietAlong
  <1>4. Goes(cod, <<0, 0>>, <<nc, 0>>)
    <2> DEFINE s == [k \in 1 .. nc |-> CallCode(k)]
               g == [k \in 1 .. nc + 1 |-> <<k - 1, 0>>]
    <2>1. cod = FlattenSeq(s)
      BY Zenon
    <2>2. /\ g \in [1 .. nc + 1 -> Progress] /\ g[1] = <<0, 0>> /\ g[nc + 1] = <<nc, 0>>
          /\ \A k \in 1 .. nc : g[k] = <<k - 1, 0>> /\ g[k + 1] = <<k, 0>>
      <3>1. \A k \in 1 .. nc + 1 : <<k - 1, 0>> \in Progress
        BY DEF Progress
      <3>2. \A k \in 1 .. nc : k \in 1 .. nc + 1 /\ k + 1 \in 1 .. nc + 1 /\ (k + 1) - 1 = k
        OBVIOUS
      <3>3. 1 \in 1 .. nc + 1 /\ nc + 1 \in 1 .. nc + 1 /\ 1 - 1 = 0 /\ (nc + 1) - 1 = nc
        OBVIOUS
      <3> QED
        BY <3>1, <3>2, <3>3
    <2>3. ASSUME NEW k \in 1 .. nc
          PROVE  Goes(s[k], g[k], g[k + 1])
      <3>1. Goes(CallCode(k), <<k - 1, 0>>, <<k, 0>>)
        BY CallCodeGoes
      <3>2. s[k] = CallCode(k)
        BY Zenon
      <3> HIDE DEF s, g
      <3> QED
        BY <2>2, <3>1, <3>2
    <2>4. DOMAIN s = 1 .. nc /\ s = [k \in 1 .. nc |-> s[k]]
      OBVIOUS
    <2> HIDE DEF s, g, cod
    <2>5. Goes(FlattenSeq(s), g[1], g[nc + 1])
      BY <2>2, <2>3, <2>4, GoesAlong
    <2> QED
      BY <2>1, <2>2, <2>5
  <1>5. Quiet(result)
    <2>1. CASE source.result = 0
      BY <2>1, QuietNowhere
    <2>2. CASE source.result # 0
      <3>1. source.result \in 0 .. Variables /\ Variables \in Nat
        BY SourceIs DEF Complete, LaidOut
      <3>2. source.result \in 1 .. Variables
        BY <2>2, <3>1
      <3>3. places[source.result] \in Expressions /\ ResultReg \in Nat
        BY <3>2, PlacesAre, RegIs DEF ResultReg
      <3> QED
        BY <2>2, <3>3, QuietYield
    <2> QED
      BY <2>1, <2>2
  <1> HIDE DEF store, init, cod, result
  <1>6. <<0, 0>> \in Progress /\ <<nc, 0>> \in Progress
    BY ProgressType, Zenon
  <1>7. Goes(store, <<0, 0>>, <<0, 0>>) /\ Goes(init, <<0, 0>>, <<0, 0>>) /\ Goes(result, <<nc, 0>>, <<nc, 0>>)
    BY <1>2, <1>3, <1>5, <1>6 DEF Quiet
  <1>8. Goes(store \o init, <<0, 0>>, <<0, 0>>)
    BY <1>7, GoesOn
  <1>9. Goes(store \o init \o cod, <<0, 0>>, <<nc, 0>>)
    BY <1>4, <1>8, GoesOn
  <1>10. Goes(store \o init \o cod \o result, <<0, 0>>, <<nc, 0>>)
    BY <1>7, <1>9, GoesOn
  <1> QED
    BY <1>1, <1>10

LEMMA QuietComment ==
  ASSUME NEW inputs \in Seq(Nat), NEW outputs \in Seq(Nat)
  PROVE  Quiet(<<Comment(inputs, outputs)>>)
  <1>1. Nothing \in OperandType /\ FALSE \in BOOLEAN /\ "comment" \in {"mov", "comment"}
    BY OperandsAre
  <1> QED
    BY <1>1, QuietInstruction, Zenon DEF Comment

LEMMA PrologueIsQuiet ==
  ASSUME Complete
  PROVE  Quiet(functionPrologue)
  <1> DEFINE n == Min({Len(parameters), Len(Arguments)})
             save == FlattenSeq([k \in 1 .. Len(CalleeSaved) |-> Yield(Reg(CalleeSaved[k]), SavedReg(k))])
             take == FlattenSeq([k \in 1 .. n |-> Yield(Reg(Arguments[k]), parameters[k].reg)])
             takeLink == IF link = NoPlace THEN <<>> ELSE Yield(Reg(Link), link.reg)
  <1>1. functionPrologue = <<Comment(<<>>, CalleeSaved)>> \o save \o take \o takeLink
    BY DEF functionPrologue, Each
  <1>2. Quiet(<<Comment(<<>>, CalleeSaved)>>)
    <2>1. CalleeSaved \in Seq(Nat) /\ <<>> \in Seq(Nat)
      BY ConventionAssumption
    <2> QED
      BY <2>1, QuietComment
  <1>3. Quiet(save)
    <2> PICK m \in Nat : m = Len(CalleeSaved)
      BY Registers
    <2> DEFINE s == [k \in 1 .. m |-> Yield(Reg(CalleeSaved[k]), SavedReg(k))]
    <2>1. save = FlattenSeq(s)
      BY Zenon
    <2>2. ASSUME NEW k \in 1 .. m
          PROVE  Quiet(s[k])
      <3>1. CalleeSaved[k] \in Nat /\ SavedReg(k) \in Nat
        BY Registers DEF SavedReg
      <3>2. Reg(CalleeSaved[k]) \in Expressions
        BY <3>1, RegIs
      <3>3. Quiet(Yield(Reg(CalleeSaved[k]), SavedReg(k)))
        BY <3>1, <3>2, QuietYield, Zenon
      <3> QED
        BY <3>3, Zenon
    <2>3. DOMAIN s = 1 .. m /\ s = [k \in 1 .. m |-> s[k]]
      OBVIOUS
    <2> HIDE DEF s, save
    <2> QED
      BY <2>1, <2>2, <2>3, QuietAlong
  <1>4. Quiet(take)
    <2> PICK a \in Nat, b \in Nat : a = Len(parameters) /\ b = Len(Arguments)
      BY Registers, ElementIs, Zenon DEF Complete, LaidOut
    <2>1. n \in Nat /\ n <= a /\ n <= b
      BY MinIs
    <2> HIDE DEF n
    <2> DEFINE s == [k \in 1 .. n |-> Yield(Reg(Arguments[k]), parameters[k].reg)]
    <2>2. ASSUME NEW k \in 1 .. n
          PROVE  Quiet(s[k])
      <3>1. k \in 1 .. a /\ k \in 1 .. b
        BY <2>1
      <3>2. parameters[k] \in Places /\ Arguments[k] \in Nat
        BY <3>1, Registers, ElementIs, Zenon DEF Complete, LaidOut
      <3>3. parameters[k].reg \in Nat /\ Reg(Arguments[k]) \in Expressions
        BY <3>2, RegIs DEF Places
      <3>4. Quiet(Yield(Reg(Arguments[k]), parameters[k].reg))
        BY <3>3, QuietYield, Zenon
      <3> QED
        BY <3>4, Zenon
    <2>3. DOMAIN s = 1 .. n /\ s = [k \in 1 .. n |-> s[k]] /\ take = FlattenSeq(s)
      OBVIOUS
    <2> HIDE DEF s, take
    <2> QED
      BY <2>1, <2>2, <2>3, QuietAlong
  <1>5. Quiet(takeLink)
    <2>1. CASE link = NoPlace
      BY <2>1, QuietNowhere
    <2>2. CASE link # NoPlace
      <3>1. link \in Places
        BY <2>2 DEF Complete, LaidOut
      <3>2. link.reg \in Nat /\ Reg(Link) \in Expressions
        BY <3>1, Registers, RegIs DEF Places
      <3> QED
        BY <2>2, <3>2, QuietYield
    <2> QED
      BY <2>1, <2>2
  <1> HIDE DEF n, save, take, takeLink
  <1>6. Quiet(<<Comment(<<>>, CalleeSaved)>> \o save)
    BY <1>2, <1>3, QuietOn
  <1>7. Quiet(<<Comment(<<>>, CalleeSaved)>> \o save \o take)
    BY <1>4, <1>6, QuietOn
  <1>8. Quiet(<<Comment(<<>>, CalleeSaved)>> \o save \o take \o takeLink)
    BY <1>5, <1>7, QuietOn
  <1> QED
    BY <1>1, <1>8

LEMMA EpilogueIsQuiet == Quiet(functionEpilogue)
  <1> DEFINE result == IF source.result = 0 THEN <<>> ELSE Yield(Reg(ResultReg), RAX)
             restore == FlattenSeq([k \in 1 .. Len(CalleeSaved) |-> Yield(Reg(SavedReg(k)), CalleeSaved[k])])
  <1>1. functionEpilogue = result \o restore \o <<Comment(CalleeSaved, <<>>)>>
    BY DEF functionEpilogue, Each
  <1>2. Quiet(<<Comment(CalleeSaved, <<>>)>>)
    <2>1. CalleeSaved \in Seq(Nat) /\ <<>> \in Seq(Nat)
      BY ConventionAssumption
    <2> QED
      BY <2>1, QuietComment
  <1>3. Quiet(restore)
    <2> PICK m \in Nat : m = Len(CalleeSaved)
      BY Registers
    <2> DEFINE s == [k \in 1 .. m |-> Yield(Reg(SavedReg(k)), CalleeSaved[k])]
    <2>1. restore = FlattenSeq(s)
      BY Zenon
    <2>2. ASSUME NEW k \in 1 .. m
          PROVE  Quiet(s[k])
      <3>1. CalleeSaved[k] \in Nat /\ SavedReg(k) \in Nat
        BY Registers DEF SavedReg
      <3>2. Reg(SavedReg(k)) \in Expressions
        BY <3>1, RegIs
      <3>3. Quiet(Yield(Reg(SavedReg(k)), CalleeSaved[k]))
        BY <3>1, <3>2, QuietYield, Zenon
      <3> QED
        BY <3>3, Zenon
    <2>3. DOMAIN s = 1 .. m /\ s = [k \in 1 .. m |-> s[k]]
      OBVIOUS
    <2> HIDE DEF s, restore
    <2> QED
      BY <2>1, <2>2, <2>3, QuietAlong
  <1>4. Quiet(result)
    <2>1. RAX \in Nat /\ Reg(ResultReg) \in Expressions
      BY Registers, RegIs DEF ResultReg
    <2> QED
      BY <2>1, QuietYield, QuietNowhere
  <1> HIDE DEF result, restore
  <1>5. Quiet(result \o restore)
    BY <1>3, <1>4, QuietOn
  <1>6. Quiet(result \o restore \o <<Comment(CalleeSaved, <<>>)>>)
    BY <1>2, <1>5, QuietOn
  <1> QED
    BY <1>1, <1>6

LEMMA FunctionGoes ==
  ASSUME Complete
  PROVE  /\ Goes(Body, <<0, 0>>, <<Len(source.calls), 0>>)
         /\ Goes(functionPrologue \o Body \o functionEpilogue, <<0, 0>>, <<Len(source.calls), 0>>)
  <1> PICK n \in Nat : n = Len(source.calls)
    BY SourceIs DEF Complete, LaidOut
  <1>1. <<0, 0>> \in Progress /\ <<n, 0>> \in Progress
    BY ProgressType, Zenon
  <1>2. Goes(functionPrologue, <<0, 0>>, <<0, 0>>) /\ Goes(functionEpilogue, <<n, 0>>, <<n, 0>>)
    BY <1>1, PrologueIsQuiet, EpilogueIsQuiet DEF Quiet
  <1>3. Goes(functionPrologue \o Body, <<0, 0>>, <<n, 0>>)
    BY <1>2, BodyGoes, GoesOn
  <1> QED
    BY <1>2, <1>3, BodyGoes, GoesOn
------------------------------------------------------------------------------
(* Spilling does not change what happens to the stack. *)

LEMMA UpdateIs ==
  ASSUME NEW i \in Instructions, NEW s \in Seq(Nat)
  PROVE  /\ /\ DOMAIN s = DOMAIN i.inputs
            /\ \A k \in DOMAIN s : s[k] = FP => i.inputs[k] = FP
            => [i EXCEPT !.inputs = s] \in Instructions
         /\ [i EXCEPT !.inputs = s].op = i.op
         /\ [i EXCEPT !.outputs = s] \in Instructions
         /\ [i EXCEPT !.outputs = s].op = i.op
  <1> HIDE DEF Ops, OperandType
  <1> DEFINE j == [i EXCEPT !.inputs = s]
             o == [i EXCEPT !.outputs = s]
  <1>1. i \in InstructionType
    BY DEF Instructions
  <1>2. j \in InstructionType /\ o \in InstructionType
    BY <1>1 DEF InstructionType
  <1>3. /\ j.op = i.op /\ j.from = i.from /\ j.inputs = s
        /\ o.op = i.op /\ o.from = i.from /\ o.inputs = i.inputs
    BY <1>1 DEF InstructionType
  <1> HIDE DEF j, o
  <1>4. o \in Instructions
    BY <1>2, <1>3 DEF Instructions, OnStackOnly
  <1>5. /\ DOMAIN s = DOMAIN i.inputs
        /\ \A k \in DOMAIN s : s[k] = FP => i.inputs[k] = FP
        => j \in Instructions
    BY <1>2, <1>3 DEF Instructions, OnStackOnly
  <1> QED
    BY <1>3, <1>4, <1>5 DEF j, o

LEMMA InstructionHas ==
  ASSUME NEW i \in Instructions
  PROVE  /\ i.op \in Ops /\ i.from \in OperandType /\ i.to \in OperandType
         /\ i.inputs \in Seq(Nat) /\ i.outputs \in Seq(Nat)
         /\ Len(i.inputs) \in Nat
  <1>1. i.op \in Ops /\ i.from \in OperandType /\ i.to \in OperandType
    BY DEF InstructionType, Instructions
  <1>2. i.inputs \in Seq(Nat) /\ i.outputs \in Seq(Nat)
    BY DEF InstructionType, Instructions
  <1> QED
    BY <1>1, <1>2, ElementIs, Zenon

LEMMA ReplacedAre ==
  ASSUME NEW s \in Seq(Nat), NEW reg, NEW temp \in Nat \ {0}
  PROVE  /\ [k \in DOMAIN s |-> IF s[k] = reg THEN temp ELSE s[k]] \in Seq(Nat)
         /\ \A k : /\ [s EXCEPT ![k] = temp] \in Seq(Nat)
                  /\ DOMAIN [s EXCEPT ![k] = temp] = DOMAIN s
                  /\ \A l \in DOMAIN s : [s EXCEPT ![k] = temp][l] = FP => s[l] = FP
  <1> PICK n \in Nat : n = Len(s) /\ DOMAIN s = 1 .. n /\ \A k \in 1 .. n : s[k] \in Nat
    BY ElementIs
  <1>1. [k \in DOMAIN s |-> IF s[k] = reg THEN temp ELSE s[k]] \in [1 .. n -> Nat]
    OBVIOUS
  <1>2. \A k : [s EXCEPT ![k] = temp] \in [1 .. n -> Nat]
    OBVIOUS
  <1>3. \A k : /\ DOMAIN [s EXCEPT ![k] = temp] = DOMAIN s
              /\ \A l \in DOMAIN s : [s EXCEPT ![k] = temp][l] = FP => s[l] = FP
    BY DEF FP
  <1> QED
    BY <1>1, <1>2, <1>3, RowIs

LEMMA LoadAndStore ==
  ASSUME NEW temp \in Nat, NEW slot \in Int
  PROVE  Quiet(<<Load(temp, slot)>>) /\ Quiet(<<Store(temp, slot)>>)
  <1>1. /\ At(1, slot) \in OperandType /\ Out(1) \in OperandType /\ At(2, slot) \in OperandType
        /\ In(1) \in OperandType /\ "mov" \in {"mov", "comment"} /\ FALSE \in BOOLEAN
    BY OperandsAre
  <1>2. <<FP>> \in Seq(Nat) /\ <<temp>> \in Seq(Nat) /\ <<temp, FP>> \in Seq(Nat) /\ <<>> \in Seq(Nat)
    BY DEF FP
  <1> QED
    BY <1>1, <1>2, QuietInstruction, Zenon DEF Load, Store

LEMMA AssignmentGoes ==
  ASSUME NEW i \in Instructions, NEW reg, NEW slot \in Int, NEW temp \in Nat \ {0},
         NEW a \in Progress, NEW b \in Progress, Moves(i.op, a, b)
  PROVE  Goes(AssignmentReplaced(i, reg, slot, temp), a, b)
  <1>1. CASE AssignmentSplits(i)
    <2> DEFINE outputs == [k \in DOMAIN i.outputs |-> IF i.outputs[k] = reg THEN temp ELSE i.outputs[k]]
               j == [i EXCEPT !.outputs = outputs]
    <2>1. AssignmentReplaced(i, reg, slot, temp) = <<j, Store(temp, slot)>>
      BY <1>1 DEF AssignmentReplaced
    <2>2. outputs \in Seq(Nat)
      BY InstructionHas, ReplacedAre
    <2> HIDE DEF outputs
    <2>3. j \in Instructions /\ j.op = i.op
      BY <2>2, UpdateIs
    <2> HIDE DEF j
    <2>4. Goes(<<j>>, a, b) /\ Goes(<<Store(temp, slot)>>, b, b)
      BY <2>3, GoesOne, LoadAndStore DEF Quiet
    <2>5. <<j, Store(temp, slot)>> = <<j>> \o <<Store(temp, slot)>>
      OBVIOUS
    <2> QED
      BY <2>1, <2>4, <2>5, GoesOn
  <1>2. CASE ~ AssignmentSplits(i)
    <2> DEFINE inputs == InputsWithFrame(i)
               to == At(Len(i.inputs) + 1, slot)
               j == [i EXCEPT !.inputs = inputs, !.move = FALSE, !.to = to]
    <2>1. AssignmentReplaced(i, reg, slot, temp) = <<j>>
      BY <1>2 DEF AssignmentReplaced
    <2>2. inputs \in Seq(Nat) /\ to \in OperandType
      <3>1. i.inputs \in Seq(Nat) /\ Len(i.inputs) \in Nat
        BY InstructionHas, Zenon
      <3>2. inputs \in Seq(Nat)
        BY <3>1 DEF InputsWithFrame, FP
      <3>3. Len(i.inputs) + 1 \in Nat
        BY <3>1
      <3> QED
        BY <3>2, <3>3, OperandsAre, Zenon
    <2>2a. DOMAIN i.inputs \subseteq DOMAIN inputs /\ \A k \in DOMAIN i.inputs : inputs[k] = i.inputs[k]
      <3>1. i.inputs \in Seq(Nat)
        BY InstructionHas
      <3> QED
        BY <3>1 DEF InputsWithFrame
    <2> HIDE DEF inputs, to
    <2>3. j \in Instructions /\ j.op = i.op
      <3> HIDE DEF Ops, OperandType
      <3>1. i \in InstructionType
        BY DEF Instructions
      <3>2. j \in InstructionType /\ j.op = i.op /\ j.from = i.from /\ j.inputs = inputs
        BY <2>2, <3>1 DEF InstructionType
      <3> HIDE DEF j
      <3> QED
        BY <2>2a, <3>2 DEF Instructions, OnStackOnly
    <2> HIDE DEF j
    <2> QED
      BY <2>1, <2>3, GoesOne
  <1> QED
    BY <1>1, <1>2

LEMMA UsageGoes ==
  ASSUME NEW i \in Instructions, NEW reg, NEW slot \in Int, NEW temp \in Nat \ {0},
         NEW a \in Progress, NEW b \in Progress, Moves(i.op, a, b)
  PROVE  Goes(UsageReplaced(i, reg, slot, temp), a, b)
  <1>1. CASE UsageSplits(i, reg)
    <2> DEFINE inputs == [i.inputs EXCEPT ![FirstNamed(i, reg)] = temp]
               j == [i EXCEPT !.inputs = inputs]
    <2>1. UsageReplaced(i, reg, slot, temp) = <<Load(temp, slot), j>>
      BY <1>1 DEF UsageReplaced
    <2>2. /\ inputs \in Seq(Nat) /\ DOMAIN inputs = DOMAIN i.inputs
          /\ \A k \in DOMAIN inputs : inputs[k] = FP => i.inputs[k] = FP
      BY InstructionHas, ReplacedAre
    <2> HIDE DEF inputs
    <2>3. j \in Instructions /\ j.op = i.op
      BY <2>2, UpdateIs
    <2> HIDE DEF j
    <2>4. Goes(<<Load(temp, slot)>>, a, a) /\ Goes(<<j>>, a, b)
      BY <2>3, GoesOne, LoadAndStore DEF Quiet
    <2>5. <<Load(temp, slot), j>> = <<Load(temp, slot)>> \o <<j>>
      OBVIOUS
    <2> QED
      BY <2>1, <2>4, <2>5, GoesOn
  <1>2. CASE ~ UsageSplits(i, reg)
    <2> DEFINE inputs == <<FP>>
               from == At(1, slot)
               j == [i EXCEPT !.inputs = inputs, !.from = from, !.move = FALSE]
    <2>1. UsageReplaced(i, reg, slot, temp) = <<j>>
      BY <1>2 DEF UsageReplaced
    <2>2. inputs \in Seq(Nat) /\ from \in OperandType
      <3>1. 0 \in Nat /\ 1 \in Nat /\ <<0>> \in Seq(Nat)
        OBVIOUS
      <3> QED
        BY <3>1, OperandsAre, Zenon DEF FP
    <2> HIDE DEF inputs
    <2>3. j \in Instructions /\ j.op = i.op
      <3> HIDE DEF Ops, OperandType, from
      <3>1. i \in InstructionType
        BY DEF Instructions
      <3>2. j \in InstructionType /\ j.op = i.op /\ j.from = from
        BY <2>2, <3>1 DEF InstructionType
      <3>3. from.kind # "input"
        BY DEF from, At
      <3> HIDE DEF j
      <3> QED
        BY <3>2, <3>3 DEF Instructions, OnStackOnly
    <2> HIDE DEF j
    <2> QED
      BY <2>1, <2>3, GoesOne
  <1> QED
    BY <1>1, <1>2

LEMMA RewrittenGoes ==
  ASSUME NEW i \in Instructions, NEW reg, NEW slot \in Int, NEW temp \in Nat \ {0},
         NEW a \in Progress, NEW b \in Progress, Moves(i.op, a, b)
  PROVE  Goes(Rewritten(i, reg, slot, temp), a, b)
  <1>1. CASE Names(i.inputs, reg) /\ Names(i.outputs, reg)
    <2> DEFINE inputs == [k \in DOMAIN i.inputs |-> IF i.inputs[k] = reg THEN temp ELSE i.inputs[k]]
               j == [i EXCEPT !.inputs = inputs]
    <2>1. Rewritten(i, reg, slot, temp) = <<Load(temp, slot)>> \o AssignmentReplaced(j, reg, slot, temp + 1)
      BY <1>1 DEF Rewritten, BothReplaced
    <2>2. /\ inputs \in Seq(Nat) /\ DOMAIN inputs = DOMAIN i.inputs
          /\ \A k \in DOMAIN inputs : inputs[k] = FP => i.inputs[k] = FP
      BY InstructionHas, ReplacedAre DEF FP
    <2> HIDE DEF inputs
    <2>3. j \in Instructions /\ j.op = i.op
      BY <2>2, UpdateIs
    <2> HIDE DEF j
    <2>4. Moves(j.op, a, b) /\ temp + 1 \in Nat \ {0}
      BY <2>3
    <2>5. Goes(AssignmentReplaced(j, reg, slot, temp + 1), a, b)
      BY <2>3, <2>4, AssignmentGoes
    <2>6. Goes(<<Load(temp, slot)>>, a, a)
      BY LoadAndStore DEF Quiet
    <2> QED
      BY <2>1, <2>5, <2>6, GoesOn
  <1>2. CASE Names(i.inputs, reg) /\ ~ Names(i.outputs, reg)
    BY <1>2, UsageGoes DEF Rewritten
  <1>3. CASE ~ Names(i.inputs, reg) /\ Names(i.outputs, reg)
    BY <1>3, AssignmentGoes DEF Rewritten
  <1>4. CASE ~ Names(i.inputs, reg) /\ ~ Names(i.outputs, reg)
    <2>1. Rewritten(i, reg, slot, temp) = <<i>>
      BY <1>4 DEF Rewritten
    <2> QED
      BY <2>1, GoesOne
  <1> QED
    BY <1>1, <1>2, <1>3, <1>4

LEMMA SpilledGoes ==
  ASSUME NEW c, NEW a, NEW b, Goes(c, a, b), NEW reg, NEW slot \in Int, NEW base \in Nat
  PROVE  Goes(FlattenSeq([p \in DOMAIN c |-> Rewritten(c[p], reg, slot, base + 2 * p)]), a, b)
  <1> PICK f : Annotates(f, c, a, b)
    BY DEF Goes
  <1> PICK n \in Nat : n = Len(c) /\ DOMAIN c = 1 .. n /\ \A p \in 1 .. n : c[p] \in Instructions
    <2>1. c \in Seq(Instructions)
      BY DEF Goes
    <2> HIDE DEF Instructions
    <2> QED
      BY <2>1
  <1>1. /\ f \in [1 .. n + 1 -> Progress] /\ f[1] = a /\ f[n + 1] = b
        /\ \A p \in 1 .. n : Moves(c[p].op, f[p], f[p + 1])
    BY DEF Annotates
  <1> DEFINE s == [p \in 1 .. n |-> Rewritten(c[p], reg, slot, base + 2 * p)]
  <1>2. ASSUME NEW p \in 1 .. n
        PROVE  Goes(s[p], f[p], f[p + 1])
    <2>1. f[p] \in Progress /\ f[p + 1] \in Progress /\ base + 2 * p \in Nat \ {0}
      BY <1>1
    <2>2. Goes(Rewritten(c[p], reg, slot, base + 2 * p), f[p], f[p + 1])
      BY <1>1, <2>1, RewrittenGoes, Zenon
    <2> QED
      BY <2>2, Zenon
  <1>3. DOMAIN s = 1 .. n /\ s = [p \in 1 .. n |-> s[p]]
    OBVIOUS
  <1>4. [p \in DOMAIN c |-> Rewritten(c[p], reg, slot, base + 2 * p)] = s
    BY Zenon
  <1> HIDE DEF s
  <1>5. Goes(FlattenSeq(s), f[1], f[n + 1])
    BY <1>1, <1>2, <1>3, GoesAlong
  <1> QED
    BY <1>1, <1>4, <1>5
------------------------------------------------------------------------------
(* Nor does putting in the frame pointer. *)

LEMMA FirstNamedIs ==
  ASSUME NEW i \in Instructions, NEW reg, reg \in ToSet(i.inputs)
  PROVE  FirstNamed(i, reg) \in DOMAIN i.inputs /\ i.inputs[FirstNamed(i, reg)] = reg
  <1> PICK n \in Nat : n = Len(i.inputs) /\ DOMAIN i.inputs = 1 .. n
    <2>1. i.inputs \in Seq(Nat)
      BY InstructionHas, Zenon
    <2> QED
      BY <2>1
  <1> DEFINE T == {k \in 1 .. n : i.inputs[k] = reg}
  <1>1. T \in SUBSET Nat /\ T # {}
    BY DEF ToSet
  <1>2. PICK k \in T : \A m \in T : k <= m
    BY <1>1, LeastNatural, Zenon
  <1>3. \A l \in 1 .. k - 1 : i.inputs[l] # reg
    BY <1>2
  <1>4. \E m \in DOMAIN i.inputs : i.inputs[m] = reg /\ \A l \in 1 .. m - 1 : i.inputs[l] # reg
    BY <1>2, <1>3
  <1> QED
    BY <1>4, Zenon DEF FirstNamed

LEMMA OffsetIs ==
  ASSUME NEW o \in OperandType, NEW n \in Nat, NEW words \in Int
  PROVE  /\ addOffset(o, n, words) \in OperandType
         /\ addOffset(o, n, words).kind = "input" => addOffset(o, n, words) = o /\ o.n # n
  <1>1. CASE o.kind \in {"input", "memory"} /\ o.n = n
    <2>1. o.slot - words \in Int
      BY DEF OperandType
    <2>2. At(n, o.slot - words) \in OperandType /\ At(n, o.slot - words).kind = "memory"
      BY <2>1, OperandsAre DEF At
    <2> QED
      BY <1>1, <2>2 DEF addOffset
  <1>2. CASE ~ (o.kind \in {"input", "memory"} /\ o.n = n)
    BY <1>2 DEF addOffset
  <1> QED
    BY <1>1, <1>2

LEMMA FramePointerPutIn ==
  ASSUME NEW i \in Instructions, NEW words \in Int, NEW a, NEW b, Moves(i.op, a, b)
  PROVE  /\ implementFramePointer(i, words) \in Instructions
         /\ Moves(implementFramePointer(i, words).op, a, b)
  <1>1. CASE FP \notin ToSet(i.inputs)
    BY <1>1 DEF implementFramePointer
  <1>2. CASE FP \in ToSet(i.inputs)
    <2> DEFINE n == FirstNamed(i, FP)
               from == addOffset(i.from, n, words)
               to == addOffset(i.to, n, words)
               op == IF i.from = In(n) THEN "lea" ELSE i.op
               inputs == [i.inputs EXCEPT ![n] = RSP]
               j == [i EXCEPT !.inputs = inputs, !.op = op, !.from = from, !.to = to]
    <2>1. n \in DOMAIN i.inputs /\ i.inputs[n] = FP
      BY <1>2, FirstNamedIs, Zenon
    <2>2. /\ i.inputs \in Seq(Nat) /\ i.from \in OperandType /\ i.to \in OperandType /\ i.op \in Ops
      BY InstructionHas, Zenon
    <2>3. n \in Nat
      BY <2>1, <2>2
    <2>4. /\ implementFramePointer(i, words) = j
      BY <1>2, Zenon DEF implementFramePointer
    <2>5. from \in OperandType /\ to \in OperandType /\ (from.kind = "input" => from = i.from /\ i.from.n # n)
      BY <2>2, <2>3, OffsetIs, Zenon
    <2>6. op \in Ops
      BY <2>2 DEF Ops
    <2>7. inputs \in Seq(Nat) /\ DOMAIN inputs = DOMAIN i.inputs /\ \A k \in DOMAIN inputs : k # n => inputs[k] = i.inputs[k]
      <3>1. RSP \in Nat
        BY Registers, Zenon
      <3> QED
        BY <2>1, <2>2, <3>1
    <2>8. i.op \in {"push", "call", "remove"} => op = i.op
      <3> SUFFICES ASSUME i.op \in {"push", "call", "remove"} PROVE i.from # In(n)
        OBVIOUS
      <3>1. OnStackOnly(i)
        BY DEF Instructions
      <3> QED
        BY <2>1, <3>1 DEF OnStackOnly, In
    <2> HIDE DEF n, from, to, inputs
    <2>9. j \in InstructionType /\ j.op = op /\ j.from = from /\ j.inputs = inputs
      <3>1. i \in InstructionType
        BY DEF Instructions
      <3> HIDE DEF Ops, OperandType, op
      <3> QED
        BY <2>5, <2>6, <2>7, <3>1 DEF InstructionType
    <2>10. op \in {"push", "call", "remove"} => i.op = op
      OBVIOUS
    <2>11. Moves(op, a, b)
      <3>1. CASE op = i.op
        BY <3>1, Zenon
      <3>2. CASE op # i.op
        <4>1. op = "lea" /\ i.op \notin {"push", "call", "remove"}
          BY <2>8, <3>2
        <4>2. b = a
          BY <4>1 DEF Moves
        <4> HIDE DEF op
        <4> QED
          BY <4>1, <4>2 DEF Moves, OutsideBody
      <3> QED
        BY <3>1, <3>2, Zenon
    <2> HIDE DEF j, op
    <2>12. j \in Instructions
      <3> SUFFICES ASSUME op \in {"push", "call", "remove"}, from.kind = "input"
                   PROVE  from.n \in DOMAIN inputs /\ inputs[from.n] # FP
        BY <2>9 DEF Instructions, OnStackOnly
      <3>1. OnStackOnly(i)
        BY <2>10 DEF Instructions
      <3>2. i.from.kind = "input" /\ from = i.from /\ i.from.n # n
        BY <2>5
      <3> QED
        BY <2>7, <3>1, <3>2 DEF OnStackOnly
    <2> QED
      BY <2>4, <2>9, <2>11, <2>12
  <1> QED
    BY <1>1, <1>2

LEMMA PutInGoes ==
  ASSUME NEW c, NEW a, NEW b, Goes(c, a, b), NEW words \in Int
  PROVE  Goes([p \in DOMAIN c |-> implementFramePointer(c[p], words)], a, b)
  <1> PICK f : Annotates(f, c, a, b)
    BY DEF Goes
  <1> PICK n \in Nat : n = Len(c) /\ DOMAIN c = 1 .. n /\ \A p \in 1 .. n : c[p] \in Instructions
    <2>1. c \in Seq(Instructions)
      BY DEF Goes
    <2> HIDE DEF Instructions
    <2> QED
      BY <2>1
  <1> DEFINE d == [p \in 1 .. n |-> implementFramePointer(c[p], words)]
  <1>1. ASSUME NEW p \in 1 .. n
        PROVE  d[p] \in Instructions /\ Moves(d[p].op, f[p], f[p + 1])
    <2>1. Moves(c[p].op, f[p], f[p + 1])
      BY DEF Annotates
    <2>2. /\ implementFramePointer(c[p], words) \in Instructions
          /\ Moves(implementFramePointer(c[p], words).op, f[p], f[p + 1])
      BY <2>1, FramePointerPutIn, Zenon
    <2>3. d[p] = implementFramePointer(c[p], words)
      BY Zenon
    <2> HIDE DEF d
    <2> QED
      BY <2>2, <2>3
  <1>2. d = [p \in DOMAIN c |-> implementFramePointer(c[p], words)]
    BY Zenon
  <1>3. d \in Seq(Instructions) /\ Len(d) = n
    <2>1. d \in [1 .. n -> Instructions]
      BY <1>1, Zenon
    <2> HIDE DEF d
    <2> QED
      BY <2>1, RowIs, Zenon
  <1> HIDE DEF d
  <1>4. Annotates(f, d, a, b)
    BY <1>1, <1>3 DEF Annotates
  <1> QED
    BY <1>2, <1>3, <1>4 DEF Goes
------------------------------------------------------------------------------
(****************************************************************************)
(* The inductive invariant.  n is the number of instructions between the    *)
(* prologue of the frame and its epilogue, f the progress before each.      *)
(****************************************************************************)
Compiled ==
  pc \in {"spill", "implement"} => Goes(code, <<0, 0>>, <<Len(source.calls), 0>>)

Implemented(n, f) ==
  /\ n \in Nat
  /\ f \in [1 .. n + 1 -> Progress]
  /\ f[1] = <<0, 0>> /\ f[n + 1][2] = 0
  /\ code[1].op = "lower" /\ code[1].from.n = getFrameSize(frame)
  /\ \A p \in 1 .. n : Moves(code[p + 1].op, f[p], f[p + 1])
  /\ code[n + 2].op = "raise" /\ code[n + 2].from.n = getFrameSize(frame)
  /\ code[n + 3].op = "ret"

ReachedBy(n, f) ==
  \/ at = 1 /\ calls = 0 /\ rsp = Entry
  \/ /\ at \in 2 .. n + 2
     /\ calls = f[at - 1][1]
     /\ rsp = Entry - getFrameSize(frame) - 8 * f[at - 1][2]
  \/ at = n + 3 /\ rsp = Entry

Waiting == pc \notin {"run", "returned", "fault"} => at = 1 /\ calls = 0

Running ==
  pc \in {"enter", "run"} =>
    \E n, f : Implemented(n, f) /\ (pc = "run" => ReachedBy(n, f))

StackIsGivenBack == pc = "returned" => rsp = Entry

IInv == LaidOut /\ Compiled /\ Waiting /\ Running /\ StackIsGivenBack

(* Sizes of frames. *)
LEMMA SizeIs ==
  ASSUME NEW f \in Frames
  PROVE  getFrameSize(f) \in Nat /\ getFrameSize(f) % 16 = 8
  <1>1. f.frame_size \in Nat /\ f.frame_size % 8 = 0
    BY DEF Frames, Words
  <1> PICK w \in Nat : w = f.frame_size
    BY <1>1
  <1>2. \A x \in Nat : x % 8 = 0 => x % 16 = 0 \/ x % 16 = 8
    OBVIOUS
  <1>3. w % 16 = 0 \/ w % 16 = 8
    BY <1>1, <1>2
  <1>4. w + ((24 - (w % 16)) % 16) \in Nat /\ (w + ((24 - (w % 16)) % 16)) % 16 = 8
    <2>1. CASE w % 16 = 0
      <3>1. (24 - (w % 16)) % 16 = 8
        BY <2>1
      <3>2. (w + 8) % 16 = 8
        BY <2>1
      <3> QED
        BY <3>1, <3>2
    <2>2. CASE w % 16 = 8
      <3>1. (24 - (w % 16)) % 16 = 0
        BY <2>2
      <3> QED
        BY <2>2, <3>1
    <2> QED
      BY <1>3, <2>1, <2>2
  <1> QED
    BY <1>4 DEF getFrameSize

LEMMA Aligned ==
  \A s, k \in Nat : s % 16 = 8 /\ k % 2 = 0 => (Entry - s - 8 * k) % 16 = 0
  <1> SUFFICES ASSUME NEW s \in Nat, NEW k \in Nat, s % 16 = 8, k % 2 = 0
               PROVE  (808 - s - 8 * k) % 16 = 0
    BY DEF Entry
  <1> PICK a \in Nat : s = 16 * a + 8
    OBVIOUS
  <1> PICK b \in Nat : k = 2 * b
    OBVIOUS
  <1>1. 808 - s - 8 * k = 16 * (50 - a - b)
    OBVIOUS
  <1>2. \A c \in Int : (16 * c) % 16 = 0
    OBVIOUS
  <1> QED
    BY <1>1, <1>2

LEMMA FramesGrow ==
  ASSUME NEW f \in Frames
  PROVE  /\ Grown(f) \in Frames
         /\ MemoryOf(f) \in [kind : {"memory"}, reg : Nat, slot : Int]
         /\ MemoryOf(f) \in Places /\ MemoryOf(f).slot \in Int
         /\ StackPlace(f) \in Places
         /\ f.param_count + 1 \in Nat /\ f.param_stack_size + 8 \in Nat
         /\ \A n \in Nat, w \in Nat :
              [f EXCEPT !.param_count = n, !.param_stack_size = w] \in Frames
  <1>1. f.frame_size \in Words /\ f.param_count \in Nat /\ f.param_stack_size \in Nat
    BY DEF Frames
  <1>2. \A w \in Words : /\ w + 8 \in Words /\ (w + 8) \div 8 \in Int
                         /\ w + 8 \in Nat
    BY DEF Words
  <1>3. Grown(f) \in Frames
    <2>1. f.frame_size + 8 \in Words
      BY <1>1, <1>2
    <2> QED
      BY <2>1 DEF Grown, Frames
  <1>4. \A n \in Nat, w \in Nat :
          [f EXCEPT !.param_count = n, !.param_stack_size = w] \in Frames
    BY DEF Frames
  <1>5. /\ MemoryOf(f) \in [kind : {"memory"}, reg : Nat, slot : Int]
        /\ MemoryOf(f).slot \in Int
    <2>1. (f.frame_size + 8) \div 8 \in Int /\ FP \in Nat
      BY <1>1, <1>2 DEF FP
    <2> QED
      BY <2>1 DEF MemoryOf, Below
  <1>6. StackPlace(f) \in Places
    <2>1. - ((8 + f.param_stack_size) \div 8) \in Int /\ FP \in Nat
      BY <1>1 DEF FP
    <2> QED
      BY <2>1, RegIs, Zenon DEF StackPlace
  <1>7. MemoryOf(f) \in Places
    BY <1>5 DEF Places
  <1>8. f.param_count + 1 \in Nat /\ f.param_stack_size + 8 \in Nat
    BY <1>1, <1>2
  <1> QED
    BY <1>3, <1>4, <1>5, <1>6, <1>7, <1>8

(* The conventions do not change, nor does the function. *)
LEMMA MovesStay ==
  ASSUME source' = source, NEW op, NEW x, NEW y
  PROVE  Moves(op, x, y)' <=> Moves(op, x, y)
  BY Zenon DEF Moves, OnStack, InRegisters, OutsideBody

LEMMA GoesStay ==
  ASSUME source' = source, NEW c, NEW a, NEW b, Goes(c, a, b)
  PROVE  Goes(c, a, b)'
  BY MovesStay, Zenon DEF Goes, Annotates, Instructions, Progress

LEMMA CompiledNext ==
  ASSUME source' = source, NEW d, code' = d, Goes(d, <<0, 0>>, <<Len(source.calls), 0>>)
  PROVE  Compiled'
  <1> PICK b : b = <<Len(source.calls), 0>>
    OBVIOUS
  <1>1. Goes(d, <<0, 0>>, b)
    OBVIOUS
  <1>2. Goes(d, <<0, 0>>, b)'
    BY <1>1, GoesStay
  <1>3. Goes(code, <<0, 0>>, <<Len(source.calls), 0>>)'
    BY <1>2, Zenon DEF Goes, Annotates
  <1> QED
    BY <1>3, Zenon DEF Compiled
------------------------------------------------------------------------------
(* The steps of the compilation. *)

LEMMA Starts == Init => IInv
  <1> SUFFICES ASSUME Init PROVE IInv
    OBVIOUS
  <1>1. LaidOut
    <2>1. frame \in Frames
      BY DEF Init, Frames, Words
    <2>2. parameters \in Seq(Places) /\ places \in Seq(Places)
          /\ movements \in Seq([parameter : Places, where_store : Places])
      BY DEF Init
    <2> QED
      BY <2>1, <2>2, Zenon DEF Init, LaidOut
  <1>2. pc \in {"declare", "link"}
    BY DEF Init
  <1>3. at = 1 /\ calls = 0
    BY DEF Init
  <1> QED
    BY <1>1, <1>2, <1>3 DEF IInv, Compiled, Waiting, Running, StackIsGivenBack

LEMMA EarlyStep ==
  ASSUME IInv, LaidOut', pc \in {"link", "declare"}, pc' \in {"link", "declare"},
         at' = at, calls' = calls
  PROVE  IInv'
  BY DEF IInv, Compiled, Waiting, Running, StackIsGivenBack

LEMMA PlacesAppend ==
  /\ \A s \in Seq(Places), x \in Places : Append(s, x) \in Seq(Places)
  /\ \A s \in Seq([parameter : Places, where_store : Places]), x, y \in Places :
       /\ Append(s, [parameter |-> x, where_store |-> y])
            \in Seq([parameter : Places, where_store : Places])
       /\ <<[parameter |-> x, where_store |-> y]>>
            \in Seq([parameter : Places, where_store : Places])
  <1>1. \A s \in Seq(Places), x \in Places : Append(s, x) \in Seq(Places)
    <2> HIDE DEF Places
    <2> QED
      OBVIOUS
  <1> DEFINE M == [parameter : Places, where_store : Places]
  <1>2. \A x, y \in Places : [parameter |-> x, where_store |-> y] \in M
    OBVIOUS
  <1> HIDE DEF M
  <1>3. \A s \in Seq(M), m \in M : Append(s, m) \in Seq(M) /\ <<m>> \in Seq(M)
    OBVIOUS
  <1>4. \A s \in Seq(M), x, y \in Places :
          /\ Append(s, [parameter |-> x, where_store |-> y]) \in Seq(M)
          /\ <<[parameter |-> x, where_store |-> y]>> \in Seq(M)
    BY <1>2, <1>3, Zenon
  <1> QED
    BY <1>1, <1>4, Zenon DEF M

LEMMA RegisterPlace ==
  \A n \in Nat : /\ Reg(VariableReg(n)) \in Places
                 /\ Reg(LinkReg) \in Places /\ Reg(LinkReg) # NoPlace
  <1>1. \A n \in Nat : 10 + n \in Nat
    OBVIOUS
  <1>2. Reg(LinkReg).kind # NoPlace.kind
    BY DEF Reg, NoPlace
  <1> QED
    BY <1>1, <1>2, RegIs DEF VariableReg, LinkReg

LEMMA Links == IInv /\ addParentFpParamVariable => IInv'
  <1> SUFFICES ASSUME IInv, addParentFpParamVariable PROVE IInv'
    OBVIOUS
  <1>1. LaidOut
    BY DEF IInv
  <1>2. /\ pc = "link" /\ pc' = "declare" /\ link' = Reg(LinkReg)
        /\ source' = source /\ parameters' = parameters /\ places' = places /\ spills' = spills
        /\ at' = at /\ calls' = calls
    BY DEF addParentFpParamVariable, runVars
  <1>3. \/ movements' = movements /\ frame' = frame
        \/ /\ movements' = <<[parameter |-> Reg(LinkReg), where_store |-> MemoryOf(frame)]>>
           /\ frame' = Grown(frame)
    BY DEF addParentFpParamVariable
  <1>4. Reg(LinkReg) \in Places /\ Reg(LinkReg) # NoPlace
    BY RegisterPlace
  <1>5. frame' \in Frames /\ movements' \in Seq([parameter : Places, where_store : Places])
    BY <1>1, <1>3, <1>4, FramesGrow, PlacesAppend, Zenon DEF LaidOut
  <1>6. LaidOut'
    BY <1>1, <1>2, <1>4, <1>5, Zenon DEF LaidOut
  <1> QED
    BY <1>2, <1>6, EarlyStep

LEMMA AddsParameter == IInv /\ addParameter => IInv'
  <1> SUFFICES ASSUME IInv, addParameter PROVE IInv'
    OBVIOUS
  <1>1. LaidOut
    BY DEF IInv
  <1> DEFINE n == Len(parameters) + 1
             on_stack == frame.param_count >= Len(Arguments)
             counted == [frame EXCEPT !.param_count = @ + 1,
                                      !.param_stack_size = IF on_stack THEN @ + 8 ELSE @]
             parameter == IF on_stack THEN StackPlace(frame) ELSE Reg(VariableReg(n))
             moved == ~ on_stack /\ source.params[n]
  <1>2. /\ pc = "declare" /\ pc' = pc /\ source' = source /\ link' = link /\ spills' = spills
        /\ at' = at /\ calls' = calls
        /\ parameters' = Append(parameters, parameter)
        /\ places' = Append(places, IF moved THEN MemoryOf(frame) ELSE parameter)
        /\ frame' = IF moved THEN Grown(counted) ELSE counted
        /\ movements' = IF moved
                        THEN Append(movements, [parameter |-> parameter, where_store |-> MemoryOf(frame)])
                        ELSE movements
    BY DEF addParameter, runVars
  <1>3. /\ frame \in Frames /\ parameters \in Seq(Places) /\ places \in Seq(Places)
        /\ movements \in Seq([parameter : Places, where_store : Places])
    BY <1>1 DEF LaidOut
  <1>4. counted \in Frames
    <2> PICK w \in Nat : w = IF on_stack THEN frame.param_stack_size + 8 ELSE frame.param_stack_size
      <3>1. frame.param_stack_size \in Nat /\ frame.param_stack_size + 8 \in Nat
        BY <1>3, FramesGrow DEF Frames
      <3> QED
        BY <3>1
    <2>1. frame.param_count + 1 \in Nat
      BY <1>3, FramesGrow, Zenon
    <2>2. [frame EXCEPT !.param_count = frame.param_count + 1, !.param_stack_size = w] \in Frames
      BY <1>3, <2>1, FramesGrow, Zenon
    <2>3. counted = [frame EXCEPT !.param_count = frame.param_count + 1, !.param_stack_size = w]
      BY <1>3 DEF Frames
    <2> QED
      BY <2>2, <2>3
  <1>5. parameter \in Places
    <2>1. n \in Nat
      BY <1>3
    <2> QED
      BY <1>3, <2>1, FramesGrow, RegisterPlace, Zenon
  <1>6. MemoryOf(frame) \in Places /\ Grown(counted) \in Frames
    BY <1>3, <1>4, FramesGrow, Zenon
  <1> HIDE DEF counted, parameter, moved
  <1>7. parameters' \in Seq(Places) /\ frame' \in Frames
    BY <1>2, <1>3, <1>4, <1>5, <1>6, PlacesAppend, Zenon
  <1>8. places' \in Seq(Places)
    <2> PICK x \in Places : x = IF moved THEN MemoryOf(frame) ELSE parameter
      BY <1>5, <1>6
    <2> QED
      BY <1>2, <1>3, PlacesAppend, Zenon
  <1>9. movements' \in Seq([parameter : Places, where_store : Places])
    BY <1>2, <1>3, <1>5, <1>6, PlacesAppend, Zenon
  <1>10. LaidOut'
    BY <1>1, <1>2, <1>7, <1>8, <1>9, Zenon DEF LaidOut
  <1> QED
    BY <1>2, <1>10, EarlyStep

LEMMA AddsVariable == IInv /\ addVariable => IInv'
  <1> SUFFICES ASSUME IInv, addVariable PROVE IInv'
    OBVIOUS
  <1>1. LaidOut
    BY DEF IInv
  <1> DEFINE n == Len(places) + 1
  <1>2. /\ pc = "declare" /\ pc' = pc /\ source' = source /\ link' = link /\ spills' = spills
        /\ parameters' = parameters /\ movements' = movements /\ at' = at /\ calls' = calls
        /\ \/ places' = Append(places, MemoryOf(frame)) /\ frame' = Grown(frame)
           \/ places' = Append(places, Reg(VariableReg(n))) /\ frame' = frame
    BY DEF addVariable, runVars
  <1>3. frame \in Frames /\ places \in Seq(Places)
    BY <1>1 DEF LaidOut
  <1>4. n \in Nat
    BY <1>3
  <1>5. places' \in Seq(Places) /\ frame' \in Frames
    BY <1>2, <1>3, <1>4, FramesGrow, RegisterPlace, PlacesAppend, Zenon
  <1>6. LaidOut'
    BY <1>1, <1>2, <1>5, Zenon DEF LaidOut
  <1> QED
    BY <1>2, <1>6, EarlyStep

LEMMA Translates == IInv /\ translateFunctionBody => IInv'
  <1> SUFFICES ASSUME IInv, translateFunctionBody PROVE IInv'
    OBVIOUS
  <1>1. LaidOut /\ Waiting
    BY DEF IInv
  <1>2. /\ pc = "declare" /\ Len(places) = Len(Flags) /\ pc' = "spill"
        /\ code' = IF source.program THEN Body ELSE functionPrologue \o Body \o functionEpilogue
        /\ source' = source /\ frame' = frame /\ parameters' = parameters /\ places' = places
        /\ movements' = movements /\ link' = link /\ spills' = spills /\ at' = at /\ calls' = calls
    BY Zenon DEF translateFunctionBody, runVars
  <1>3. Complete
    <2>1. Len(Flags) = Variables
      BY <1>1, SourceIs, Zenon DEF LaidOut
    <2> QED
      BY <1>1, <1>2, <2>1 DEF Complete
  <1> PICK d : d = code'
    OBVIOUS
  <1>4. Goes(d, <<0, 0>>, <<Len(source.calls), 0>>)
    BY <1>2, <1>3, FunctionGoes, Zenon
  <1>5. Compiled'
    BY <1>2, <1>4, CompiledNext
  <1>6. LaidOut'
    BY <1>1, <1>2 DEF LaidOut
  <1> QED
    BY <1>1, <1>2, <1>5, <1>6 DEF IInv, Waiting, Running, StackIsGivenBack

LEMMA Spills ==
  ASSUME NEW reg
  PROVE  IInv /\ spillRegister(reg) => IInv'
  <1> SUFFICES ASSUME IInv, spillRegister(reg) PROVE IInv'
    OBVIOUS
  <1>1. LaidOut /\ Compiled /\ Waiting
    BY DEF IInv
  <1> DEFINE slot == MemoryOf(frame).slot
             base == FirstNew + 200 * spills
             rewritten == FlattenSeq([p \in DOMAIN code |-> Rewritten(code[p], reg, slot, base + 2 * p)])
  <1>2. /\ pc = "spill" /\ pc' = pc /\ code' = rewritten
        /\ frame' = Grown(frame) /\ spills' = spills + 1
        /\ source' = source /\ parameters' = parameters /\ places' = places
        /\ movements' = movements /\ link' = link /\ at' = at /\ calls' = calls
    BY Zenon DEF spillRegister, runVars
  <1>3. slot \in Int /\ base \in Nat /\ spills + 1 \in Nat /\ Grown(frame) \in Frames
    <2>1. frame \in Frames /\ spills \in Nat
      BY <1>1 DEF LaidOut
    <2>2. FirstNew \in Nat
      BY Registers, Zenon
    <2>3. base \in Nat /\ spills + 1 \in Nat
      BY <2>1, <2>2
    <2> QED
      BY <2>1, <2>3, FramesGrow, Zenon
  <1>4. Goes(code, <<0, 0>>, <<Len(source.calls), 0>>)
    BY <1>1, <1>2 DEF Compiled
  <1> HIDE DEF slot, base
  <1>5. Goes(rewritten, <<0, 0>>, <<Len(source.calls), 0>>)
    BY <1>3, <1>4, SpilledGoes, Zenon
  <1> PICK d : d = code'
    OBVIOUS
  <1>6. Compiled'
    BY <1>2, <1>5, CompiledNext, Zenon
  <1>7. LaidOut'
    BY <1>1, <1>2, <1>3 DEF LaidOut
  <1> QED
    BY <1>1, <1>2, <1>6, <1>7 DEF IInv, Waiting, Running, StackIsGivenBack

LEMMA Colours == IInv /\ AssignRegisters => IInv'
  <1> SUFFICES ASSUME IInv, AssignRegisters PROVE IInv'
    OBVIOUS
  <1>1. LaidOut /\ Compiled /\ Waiting
    BY DEF IInv
  <1>2. /\ pc = "spill" /\ pc' = "implement" /\ code' = code
        /\ source' = source /\ frame' = frame /\ parameters' = parameters /\ places' = places
        /\ movements' = movements /\ link' = link /\ spills' = spills /\ at' = at /\ calls' = calls
    BY Zenon DEF AssignRegisters, runVars
  <1> PICK d : d = code'
    OBVIOUS
  <1>3. Goes(d, <<0, 0>>, <<Len(source.calls), 0>>)
    BY <1>1, <1>2 DEF Compiled
  <1>4. Compiled'
    BY <1>2, <1>3, CompiledNext
  <1>5. LaidOut'
    BY <1>1, <1>2 DEF LaidOut
  <1> QED
    BY <1>1, <1>2, <1>4, <1>5 DEF IInv, Waiting, Running, StackIsGivenBack

(* The instructions of the frame are around those of the function. *)
Between(x, c, y, z, n) ==
  /\ (<<x>> \o c \o <<y>> \o <<z>>)[1] = x
  /\ \A p \in 1 .. n : (<<x>> \o c \o <<y>> \o <<z>>)[p + 1] = c[p]
  /\ (<<x>> \o c \o <<y>> \o <<z>>)[n + 2] = y
  /\ (<<x>> \o c \o <<y>> \o <<z>>)[n + 3] = z

LEMMA TogetherIs ==
  ASSUME NEW X, NEW s \in Seq(X), NEW t \in Seq(X), NEW x
  PROVE  <<x>> \o s \o t = <<x>> \o (s \o t)
  <1> DEFINE U == X \cup {x}
  <1>1. <<x>> \in Seq(U) /\ s \in Seq(U) /\ t \in Seq(U)
    OBVIOUS
  <1> HIDE DEF U
  <1> QED
    BY <1>1, ConcatAssociative

LEMMA AroundIs ==
  ASSUME NEW X, NEW c \in Seq(X), NEW x, NEW y, NEW z, NEW n \in Nat, n = Len(c)
  PROVE  Between(x, c, y, z, n)
  <1> DEFINE U == X \cup {x, y, z}
             a == <<x>> \o c
             b == a \o <<y>>
             e == b \o <<z>>
  <1>1. <<x>> \in Seq(U) /\ c \in Seq(U) /\ <<y>> \in Seq(U) /\ <<z>> \in Seq(U)
        /\ Len(<<x>>) = 1 /\ Len(<<y>>) = 1 /\ Len(<<z>>) = 1
        /\ <<x>>[1] = x /\ <<y>>[1] = y /\ <<z>>[1] = z
    OBVIOUS
  <1> HIDE DEF U
  <1>2. /\ a \in Seq(U) /\ Len(a) = n + 1 /\ a[1] = x
        /\ \A p \in 1 .. n : a[p + 1] = c[p]
    BY <1>1
  <1> HIDE DEF a
  <1>3. /\ b \in Seq(U) /\ Len(b) = n + 2 /\ b[n + 2] = y
        /\ \A p \in 1 .. n + 1 : b[p] = a[p]
    BY <1>1, <1>2
  <1> HIDE DEF b
  <1>4. /\ Len(e) = n + 3 /\ e[n + 3] = z
        /\ \A p \in 1 .. n + 2 : e[p] = b[p]
    BY <1>1, <1>3
  <1> HIDE DEF e
  <1>5. /\ e[1] = x /\ e[n + 2] = y
        /\ \A p \in 1 .. n : e[p + 1] = c[p]
    <2>1. 1 \in 1 .. n + 1 /\ 1 \in 1 .. n + 2 /\ n + 2 \in 1 .. n + 2
      OBVIOUS
    <2>2. \A p \in 1 .. n : p + 1 \in 1 .. n + 1 /\ p + 1 \in 1 .. n + 2
      OBVIOUS
    <2> QED
      BY <1>2, <1>3, <1>4, <2>1, <2>2
  <1> QED
    BY <1>4, <1>5 DEF a, b, e, Between

LEMMA Implements == IInv /\ implementFrameSize => IInv'
  <1> SUFFICES ASSUME IInv, implementFrameSize PROVE IInv'
    OBVIOUS
  <1>1. LaidOut /\ Compiled /\ Waiting
    BY DEF IInv
  <1> DEFINE size == Operand(Literal(getFrameSize(frame)), 1)
             lower == Instruction("lower", size, Nothing, <<>>, <<>>, FALSE)
             raise == Instruction("raise", size, Nothing, <<>>, <<>>, FALSE)
             ret_ == Instruction("ret", size, Nothing, <<>>, <<>>, FALSE)
             words == getFrameSize(frame) \div 8
             row == [p \in DOMAIN code |-> implementFramePointer(code[p], words)]
             yield == IF source.program THEN Yield(Number, RAX) ELSE <<>>
             d == row \o yield
  <1>2. /\ pc = "implement" /\ pc' = "enter"
        /\ code' = <<lower>> \o row \o yield \o <<raise>> \o <<ret_>>
        /\ source' = source /\ frame' = frame /\ parameters' = parameters /\ places' = places
        /\ movements' = movements /\ link' = link /\ spills' = spills /\ at' = at /\ calls' = calls
    BY Zenon DEF implementFrameSize, runVars
  <1>3. frame \in Frames /\ getFrameSize(frame) \in Nat /\ words \in Int
    <2>1. frame \in Frames
      BY <1>1 DEF LaidOut
    <2>2. getFrameSize(frame) \in Nat
      BY <2>1, SizeIs
    <2> QED
      BY <2>1, <2>2
  <1>4. lower.op = "lower" /\ raise.op = "raise" /\ ret_.op = "ret"
        /\ lower.from.n = getFrameSize(frame) /\ raise.from.n = getFrameSize(frame)
    <2>1. size.n = getFrameSize(frame)
      BY DEF Operand, Literal, Constant
    <2> HIDE DEF size
    <2> QED
      BY <2>1 DEF Instruction
  <1> PICK m \in Nat : m = Len(source.calls)
    BY <1>1, SourceIs DEF LaidOut
  <1>5. Goes(row, <<0, 0>>, <<m, 0>>)
    <2>1. Goes(code, <<0, 0>>, <<m, 0>>)
      BY <1>1, <1>2 DEF Compiled
    <2> HIDE DEF words
    <2> QED
      BY <1>3, <2>1, PutInGoes, Zenon
  <1>6. Goes(yield, <<m, 0>>, <<m, 0>>)
    <2>1. <<m, 0>> \in Progress
      BY ProgressType, Zenon
    <2>2. RAX \in Nat /\ Number \in Expressions
      <3>1. 0 \in Nat
        OBVIOUS
      <3> QED
        BY <3>1, Registers, RegIs, Zenon DEF Number
    <2>3. Quiet(yield)
      BY <2>2, QuietYield, QuietNowhere, Zenon
    <2> QED
      BY <2>1, <2>3, Zenon DEF Quiet
  <1>7. row \in Seq(Instructions) /\ yield \in Seq(Instructions)
    BY <1>5, <1>6, Zenon DEF Goes
  <1> HIDE DEF row, yield, lower, raise, ret_
  <1>8. Goes(d, <<0, 0>>, <<m, 0>>)
    BY <1>5, <1>6, GoesOn, Zenon
  <1>9. code' = <<lower>> \o d \o <<raise>> \o <<ret_>>
    <2> HIDE DEF Instructions
    <2>1. \A x : <<x>> \o row \o yield = <<x>> \o (row \o yield)
      BY <1>7, TogetherIs
    <2>2. <<lower>> \o row \o yield = <<lower>> \o d
      BY <2>1, Zenon
    <2> QED
      BY <1>2, <2>2, Zenon
  <1> PICK f : Annotates(f, d, <<0, 0>>, <<m, 0>>)
    BY <1>8 DEF Goes
  <1> PICK n \in Nat : n = Len(d)
    <2>1. d \in Seq(Instructions)
      BY <1>8 DEF Goes
    <2> HIDE DEF d
    <2> QED
      BY <2>1, ElementIs, Zenon
  <1>10. /\ code'[1] = lower /\ code'[n + 2] = raise /\ code'[n + 3] = ret_
         /\ \A p \in 1 .. n : code'[p + 1] = d[p]
    <2>1. d \in Seq(Instructions)
      BY <1>8 DEF Goes
    <2> HIDE DEF d, Instructions
    <2> DEFINE e == <<lower>> \o d \o <<raise>> \o <<ret_>>
    <2>2. /\ e[1] = lower /\ e[n + 2] = raise /\ e[n + 3] = ret_
          /\ \A p \in 1 .. n : e[p + 1] = d[p]
      <3>1. \A x, y, z : Between(x, d, y, z, n)
        BY <2>1, AroundIs, Zenon
      <3>2. Between(lower, d, raise, ret_, n)
        BY <3>1
      <3> QED
        BY ONLY <3>2 DEF Between, e
    <2>3. code' = e
      BY <1>9
    <2> HIDE DEF e
    <2> QED
      BY <2>2, <2>3, Zenon
  <1> HIDE DEF d
  <1>11. /\ f \in [1 .. n + 1 -> Progress] /\ f[1] = <<0, 0>> /\ f[n + 1] = <<m, 0>>
         /\ \A p \in 1 .. n : Moves(d[p].op, f[p], f[p + 1])
    BY DEF Annotates
  <1>12. f[n + 1][2] = 0
    BY <1>11
  <1>13. Implemented(n, f)'
    <2>1. \A p \in 1 .. n : Moves(code'[p + 1].op, f[p], f[p + 1])
      BY <1>10, <1>11
    <2>2. ASSUME NEW p \in 1 .. n
          PROVE  Moves(code[p + 1].op, f[p], f[p + 1])'
      <3> PICK op : op = code'[p + 1].op
        OBVIOUS
      <3>1. Moves(op, f[p], f[p + 1])
        BY <2>1
      <3>2. Moves(op, f[p], f[p + 1])'
        BY <1>2, <3>1, MovesStay
      <3> QED
        BY <3>2, Zenon DEF Moves
    <2> QED
      BY <1>2, <1>4, <1>10, <1>11, <1>12, <2>2 DEF Implemented
  <1>14. LaidOut'
    BY <1>1, <1>2 DEF LaidOut
  <1>15. Running'
    BY <1>2, <1>13 DEF Running
  <1> QED
    BY <1>1, <1>2, <1>14, <1>15 DEF IInv, Waiting, Compiled, StackIsGivenBack
------------------------------------------------------------------------------
(* The steps of the run. *)

LEMMA StaysImplemented ==
  ASSUME NEW n, NEW f, Implemented(n, f), source' = source, frame' = frame, code' = code
  PROVE  Implemented(n, f)'
  <1>1. ASSUME NEW p \in 1 .. n
        PROVE  Moves(code[p + 1].op, f[p], f[p + 1])'
    <2> PICK op : op = code[p + 1].op
      OBVIOUS
    <2>1. Moves(op, f[p], f[p + 1])
      BY DEF Implemented
    <2>2. Moves(op, f[p], f[p + 1])'
      BY <2>1, MovesStay
    <2> QED
      BY <2>2, Zenon DEF Moves
  <1> QED
    BY <1>1, Zenon DEF Implemented

LEMMA RunStep ==
  ASSUME IInv, UNCHANGED compileVars, pc \in {"enter", "run"},
         pc' \in {"run", "returned", "fault"}, Running', StackIsGivenBack'
  PROVE  IInv'
  <1>1. LaidOut
    BY DEF IInv
  <1>2. LaidOut'
    BY <1>1 DEF LaidOut, compileVars
  <1> QED
    BY <1>2 DEF IInv, Compiled, Waiting

(* Between the prologue of the frame and its epilogue. *)
InRow(n, f) ==
  /\ at \in 2 .. n + 1 /\ Current.op \notin OutsideBody
  /\ Moves(Current.op, f[at - 1], f[at])
  /\ f[at - 1] \in Progress /\ f[at] \in Progress
  /\ calls = f[at - 1][1]
  /\ rsp = Entry - getFrameSize(frame) - 8 * f[at - 1][2]

LEMMA WhereItIs ==
  ASSUME NEW n, NEW f, frame \in Frames, Implemented(n, f), ReachedBy(n, f)
  PROVE  \/ /\ at = 1 /\ Current.op = "lower" /\ Current.from.n = getFrameSize(frame)
            /\ f[1][1] = 0 /\ f[1][2] = 0 /\ calls = 0 /\ rsp = Entry
         \/ InRow(n, f)
         \/ /\ at = n + 2 /\ Current.op = "raise" /\ Current.from.n = getFrameSize(frame)
            /\ rsp = Entry - getFrameSize(frame)
         \/ at = n + 3 /\ Current.op = "ret" /\ rsp = Entry
  <1>1. n \in Nat
    BY DEF Implemented
  <1>2. CASE at = 1 /\ calls = 0 /\ rsp = Entry
    BY <1>2 DEF Implemented, Current
  <1>3. CASE /\ at \in 2 .. n + 2
             /\ calls = f[at - 1][1]
             /\ rsp = Entry - getFrameSize(frame) - 8 * f[at - 1][2]
    <2>1. CASE at = n + 2
      <3>1. at - 1 = n + 1
        BY <1>1, <2>1
      <3>2. f[at - 1][2] = 0
        BY <3>1 DEF Implemented
      <3>3. rsp = Entry - getFrameSize(frame) - 8 * 0
        BY <1>3, <3>2
      <3>4. rsp = Entry - getFrameSize(frame)
        <4>1. getFrameSize(frame) \in Nat
          BY SizeIs
        <4> QED
          BY <3>3, <4>1 DEF Entry
      <3> QED
        BY <2>1, <3>4 DEF Implemented, Current
    <2>2. CASE at # n + 2
      <3> PICK p \in 1 .. n : p + 1 = at /\ at - 1 = p
        <4>1. at \in Nat /\ at - 1 \in 1 .. n /\ (at - 1) + 1 = at
          BY <1>1, <1>3, <2>2
        <4> QED
          BY <4>1
      <3>1. at \in 2 .. n + 1 /\ p \in 1 .. n + 1 /\ p + 1 \in 1 .. n + 1
        BY <1>1
      <3>2. Moves(Current.op, f[p], f[p + 1]) /\ f[p] \in Progress /\ f[p + 1] \in Progress
        BY <3>1 DEF Implemented, Current
      <3>3. Current.op \notin OutsideBody
        BY <3>2 DEF Moves, OutsideBody
      <3> QED
        BY <1>3, <3>1, <3>2, <3>3 DEF InRow
    <2> QED
      BY <2>1, <2>2
  <1>4. CASE at = n + 3 /\ rsp = Entry
    BY <1>4 DEF Implemented, Current
  <1> QED
    BY <1>2, <1>3, <1>4 DEF ReachedBy

LEMMA RowStep ==
  ASSUME NEW n \in Nat, NEW f, InRow(n, f), UNCHANGED compileVars,
         at' = at + 1, calls' = f[at][1], rsp' = Entry - getFrameSize(frame) - 8 * f[at][2]
  PROVE  ReachedBy(n, f)'
  <1>1. frame' = frame
    BY DEF compileVars
  <1>2. at' \in 2 .. n + 2 /\ at' - 1 = at
    BY DEF InRow
  <1>3. f[at' - 1] = f[at]
    BY <1>2
  <1> QED
    BY <1>1, <1>2, <1>3 DEF ReachedBy

LEMMA Enters == IInv /\ enter => IInv'
  <1> SUFFICES ASSUME IInv, enter PROVE IInv'
    OBVIOUS
  <1>1. /\ pc = "enter" /\ pc' = "run" /\ rsp' = Entry /\ at' = at /\ calls' = calls
        /\ UNCHANGED compileVars
    BY Zenon DEF enter
  <1>2. Running /\ Waiting
    BY DEF IInv
  <1> PICK n, f : Implemented(n, f)
    BY <1>1, <1>2 DEF Running
  <1>3. at = 1 /\ calls = 0
    BY <1>1, <1>2 DEF Waiting
  <1>4. ReachedBy(n, f)'
    BY <1>1, <1>3 DEF ReachedBy, Entry
  <1>5. Implemented(n, f)'
    BY <1>1, StaysImplemented DEF compileVars
  <1>6. Running' /\ StackIsGivenBack'
    BY <1>1, <1>4, <1>5 DEF Running, StackIsGivenBack
  <1> QED
    BY <1>1, <1>6, RunStep

(* What an instruction that goes on to the next one has to show. *)
LEMMA GoingOn ==
  ASSUME IInv, pc = "run", pc' = pc, UNCHANGED compileVars,
         NEW n, NEW f, Implemented(n, f), ReachedBy(n, f)'
  PROVE  IInv'
  <1>1. Implemented(n, f)'
    BY StaysImplemented DEF compileVars
  <1>2. Running' /\ StackIsGivenBack'
    BY <1>1 DEF Running, StackIsGivenBack
  <1> QED
    BY <1>2, RunStep

LEMMA RunsOn ==
  ASSUME IInv, pc = "run"
  PROVE  \E n, f : n \in Nat /\ Implemented(n, f) /\ ReachedBy(n, f)
  BY DEF IInv, Running, Implemented

LEMMA Stays ==
  ASSUME IInv, pc = "run", Advance, Current.op \in {"mov", "lea", "comment"},
         rsp' = rsp, calls' = calls
  PROVE  IInv'
  <1> PICK n, f : n \in Nat /\ Implemented(n, f) /\ ReachedBy(n, f)
    BY RunsOn
  <1>1. frame \in Frames
    BY DEF IInv, LaidOut
  <1>2. InRow(n, f)
    BY <1>1, WhereItIs
  <1>3. f[at] = f[at - 1]
    BY <1>2 DEF InRow, Moves
  <1>4. at' = at + 1 /\ UNCHANGED compileVars /\ pc' = pc
    BY DEF Advance
  <1>5. /\ calls' = f[at][1]
        /\ rsp' = Entry - getFrameSize(frame) - 8 * f[at][2]
    BY <1>2, <1>3 DEF InRow
  <1>6. ReachedBy(n, f)'
    BY <1>2, <1>4, <1>5, RowStep
  <1> QED
    BY <1>4, <1>6, GoingOn

LEMMA Pushes == IInv /\ push => IInv'
  <1> SUFFICES ASSUME IInv, push PROVE IInv'
    OBVIOUS
  <1>0. pc = "run" /\ Current.op = "push" /\ rsp' = rsp - 8 /\ calls' = calls /\ Advance
    BY DEF push
  <1> PICK n, f : n \in Nat /\ Implemented(n, f) /\ ReachedBy(n, f)
    BY <1>0, RunsOn
  <1>1. frame \in Frames
    BY DEF IInv, LaidOut
  <1>2. InRow(n, f)
    BY <1>0, <1>1, WhereItIs
  <1>3. f[at] = <<f[at - 1][1], f[at - 1][2] + 1>>
    BY <1>0, <1>2 DEF InRow, Moves
  <1>4. at' = at + 1 /\ UNCHANGED compileVars /\ pc' = pc
    BY <1>0 DEF Advance
  <1>5. /\ calls' = f[at][1]
        /\ rsp' = Entry - getFrameSize(frame) - 8 * f[at][2]
    <2> PICK k \in Nat, s \in Nat : k = f[at - 1][2] /\ s = getFrameSize(frame)
      BY <1>1, <1>2, SizeIs, ProgressType DEF InRow
    <2>1. f[at][1] = f[at - 1][1] /\ f[at][2] = k + 1
      BY <1>3
    <2>2. rsp = 808 - s - 8 * k /\ calls = f[at - 1][1]
      BY <1>2 DEF InRow, Entry
    <2>3. rsp' = 808 - s - 8 * (k + 1)
      BY <1>0, <2>2
    <2> QED
      BY <1>0, <2>1, <2>2, <2>3 DEF Entry
  <1>6. ReachedBy(n, f)'
    BY <1>2, <1>4, <1>5, RowStep
  <1> QED
    BY <1>0, <1>4, <1>6, GoingOn

LEMMA MovesStackPointer == IInv /\ moveStackPointer => IInv'
  <1> SUFFICES ASSUME IInv, moveStackPointer PROVE IInv'
    OBVIOUS
  <1>0. /\ pc = "run" /\ Current.op \in {"lower", "raise"} /\ calls' = calls /\ Advance
        /\ rsp' = IF Current.op = "lower" THEN rsp - Current.from.n ELSE rsp + Current.from.n
    BY DEF moveStackPointer
  <1> PICK n, f : n \in Nat /\ Implemented(n, f) /\ ReachedBy(n, f)
    BY <1>0, RunsOn
  <1>1. frame \in Frames
    BY DEF IInv, LaidOut
  <1>2. at' = at + 1 /\ UNCHANGED compileVars /\ pc' = pc
    BY <1>0 DEF Advance
  <1> PICK s \in Nat : s = getFrameSize(frame)
    BY <1>1, SizeIs
  <1>3. getFrameSize(frame') = s
    BY <1>2 DEF compileVars
  <1>4. CASE Current.op = "lower"
    <2>1. at = 1 /\ Current.from.n = s /\ f[1][1] = 0 /\ f[1][2] = 0 /\ calls = 0 /\ rsp = Entry
      BY <1>1, <1>4, WhereItIs DEF InRow, OutsideBody
    <2>2. at' = 2 /\ at' - 1 = 1 /\ rsp' = Entry - s - 8 * 0 /\ at' \in 2 .. n + 2
      BY <1>0, <1>2, <1>4, <2>1 DEF Entry
    <2>3. /\ calls' = f[at' - 1][1]
          /\ rsp' = Entry - getFrameSize(frame') - 8 * f[at' - 1][2]
      BY <1>0, <1>3, <2>1, <2>2
    <2>4. ReachedBy(n, f)'
      BY <2>2, <2>3 DEF ReachedBy
    <2> QED
      BY <1>0, <1>2, <2>4, GoingOn
  <1>5. CASE Current.op = "raise"
    <2>1. at = n + 2 /\ Current.from.n = s /\ rsp = Entry - s
      BY <1>1, <1>5, WhereItIs DEF InRow, OutsideBody
    <2>2. at' = n + 3 /\ rsp' = Entry
      BY <1>0, <1>2, <1>5, <2>1 DEF Entry
    <2>3. ReachedBy(n, f)'
      BY <2>2 DEF ReachedBy, Entry
    <2> QED
      BY <1>0, <1>2, <2>3, GoingOn
  <1> QED
    BY <1>0, <1>4, <1>5

LEMMA Calls == IInv /\ call => IInv'
  <1> SUFFICES ASSUME IInv, call PROVE IInv'
    OBVIOUS
  <1>0. pc = "run" /\ Current.op = "call" /\ rsp' = rsp /\ calls' = calls + 1 /\ Advance
    BY Zenon DEF call
  <1> PICK n, f : n \in Nat /\ Implemented(n, f) /\ ReachedBy(n, f)
    BY <1>0, RunsOn
  <1>1. frame \in Frames
    BY DEF IInv, LaidOut
  <1>2. InRow(n, f)
    BY <1>0, <1>1, WhereItIs
  <1>3. f[at] = <<f[at - 1][1] + 1, f[at - 1][2]>>
    BY <1>0, <1>2 DEF InRow, Moves
  <1>4. at' = at + 1 /\ UNCHANGED compileVars /\ pc' = pc
    BY <1>0 DEF Advance
  <1>5. /\ calls' = f[at][1]
        /\ rsp' = Entry - getFrameSize(frame) - 8 * f[at][2]
    <2>1. f[at][1] = f[at - 1][1] + 1 /\ f[at][2] = f[at - 1][2]
      BY <1>3
    <2> QED
      BY <1>0, <1>2, <2>1 DEF InRow
  <1>6. ReachedBy(n, f)'
    BY <1>2, <1>4, <1>5, RowStep
  <1> QED
    BY <1>0, <1>4, <1>6, GoingOn

LEMMA Faults == IInv /\ remove => IInv'
  <1> SUFFICES ASSUME IInv, remove PROVE IInv'
    OBVIOUS
  <1>1. pc = "run" /\ pc' = "fault" /\ UNCHANGED compileVars
    BY DEF remove
  <1>2. Running' /\ StackIsGivenBack'
    BY <1>1 DEF Running, StackIsGivenBack
  <1> QED
    BY <1>1, <1>2, RunStep

LEMMA Returns == IInv /\ ret => IInv'
  <1> SUFFICES ASSUME IInv, ret PROVE IInv'
    OBVIOUS
  <1>1. pc = "run" /\ Current.op = "ret" /\ pc' = "returned" /\ rsp' = rsp /\ UNCHANGED compileVars
    BY DEF ret, runVars
  <1> PICK n, f : n \in Nat /\ Implemented(n, f) /\ ReachedBy(n, f)
    BY <1>1, RunsOn
  <1>2. frame \in Frames
    BY DEF IInv, LaidOut
  <1>3. rsp = Entry
    BY <1>1, <1>2, WhereItIs DEF InRow, OutsideBody
  <1>4. Running' /\ StackIsGivenBack'
    BY <1>1, <1>3 DEF Running, StackIsGivenBack, Entry
  <1> QED
    BY <1>1, <1>4, RunStep

LEMMA Unchanged == IInv /\ UNCHANGED vars => IInv'
  <1> SUFFICES ASSUME IInv, UNCHANGED vars PROVE IInv'
    OBVIOUS
  <1>1. UNCHANGED compileVars /\ pc' = pc /\ UNCHANGED runVars
    BY DEF vars
  <1>2. /\ source' = source /\ frame' = frame /\ parameters' = parameters /\ places' = places
        /\ movements' = movements /\ link' = link /\ code' = code /\ spills' = spills
        /\ at' = at /\ calls' = calls /\ rsp' = rsp
    BY <1>1 DEF compileVars, runVars
  <1>3. LaidOut' /\ Waiting' /\ StackIsGivenBack'
    BY <1>1, <1>2 DEF IInv, LaidOut, Waiting, StackIsGivenBack
  <1>4. Compiled'
    <2>1. CASE pc \in {"spill", "implement"}
      <3> PICK d : d = code
        OBVIOUS
      <3>1. Goes(d, <<0, 0>>, <<Len(source.calls), 0>>)
        BY <2>1 DEF IInv, Compiled
      <3> QED
        BY <1>2, <3>1, CompiledNext
    <2>2. CASE pc \notin {"spill", "implement"}
      BY <1>1, <2>2 DEF Compiled
    <2> QED
      BY <2>1, <2>2
  <1>5. Running'
    <2>1. CASE pc \in {"enter", "run"}
      <3> PICK n, f : Implemented(n, f) /\ (pc = "run" => ReachedBy(n, f))
        BY <2>1 DEF IInv, Running
      <3>1. Implemented(n, f)'
        BY <1>2, StaysImplemented
      <3>2. pc' = "run" => ReachedBy(n, f)'
        BY <1>1, <1>2, Zenon DEF ReachedBy
      <3> QED
        BY <3>1, <3>2 DEF Running
    <2>2. CASE pc \notin {"enter", "run"}
      BY <1>1, <2>2 DEF Running
    <2> QED
      BY <2>1, <2>2
  <1> QED
    BY <1>3, <1>4, <1>5 DEF IInv
------------------------------------------------------------------------------

LEMMA Inductive == Spec => []IInv
  <1>1. IInv /\ [Next]_vars => IInv'
    <2> SUFFICES ASSUME IInv, [Next]_vars PROVE IInv'
      OBVIOUS
    <2>1. CASE addParentFpParamVariable
      BY <2>1, Links
    <2>2. CASE addParameter
      BY <2>2, AddsParameter
    <2>3. CASE addVariable
      BY <2>3, AddsVariable
    <2>4. CASE translateFunctionBody
      BY <2>4, Translates
    <2>5. CASE \E reg \in VirtualRegisters : spillRegister(reg)
      BY <2>5, Spills, Zenon
    <2>6. CASE AssignRegisters
      BY <2>6, Colours
    <2>7. CASE implementFrameSize
      BY <2>7, Implements
    <2>8. CASE enter
      BY <2>8, Enters
    <2>9. CASE move
      BY <2>9, Stays, Zenon DEF move
    <2>10. CASE push
      BY <2>10, Pushes
    <2>11. CASE moveStackPointer
      BY <2>11, MovesStackPointer
    <2>12. CASE comment
      <3>1. Current.op \in {"mov", "lea", "comment"}
        BY <2>12 DEF comment
      <3> QED
        BY <2>12, <3>1, Stays, Zenon DEF comment
    <2>13. CASE call
      BY <2>13, Calls
    <2>14. CASE remove
      BY <2>14, Faults
    <2>15. CASE ret
      BY <2>15, Returns
    <2>16. CASE Stopped \/ UNCHANGED vars
      <3>1. UNCHANGED vars
        BY <2>16, Zenon DEF Stopped
      <3> QED
        BY <3>1, Unchanged
    <2> QED
      BY <2>1, <2>2, <2>3, <2>4, <2>5, <2>6, <2>7, <2>8, <2>9, <2>10, <2>11, <2>12,
         <2>13, <2>14, <2>15, <2>16, Zenon DEF Next
  <1> QED
    BY <1>1, Starts, PTL DEF Spec

(****************************************************************************)
(* getFrameSize: whatever the parameters, variables and spilled registers   *)
(* of a function are, the stack is aligned to 16 bytes at each of its calls *)
(* unless an odd number of arguments has been pushed for it.                *)
(****************************************************************************)
THEOREM StackAlignment == Spec => []StackIsAligned
  <1>1. IInv => StackIsAligned
    <2> SUFFICES ASSUME IInv, pc = "run", Current.op = "call", OnStack(Passed) % 2 = 0
                 PROVE  rsp % 16 = 0
      BY Zenon DEF StackIsAligned
    <2> PICK n, f : n \in Nat /\ Implemented(n, f) /\ ReachedBy(n, f)
      BY RunsOn
    <2>1. frame \in Frames
      BY DEF IInv, LaidOut
    <2>2. InRow(n, f)
      BY <2>1, WhereItIs
    <2> PICK k \in Nat, s \in Nat : k = f[at - 1][2] /\ s = getFrameSize(frame) /\ s % 16 = 8
      BY <2>1, <2>2, SizeIs, ProgressType DEF InRow
    <2>3. k = OnStack(Passed)
      BY <2>2 DEF InRow, Moves, Passed, NextCall
    <2>4. rsp = Entry - s - 8 * k
      BY <2>2 DEF InRow
    <2> QED
      BY <2>3, <2>4, Aligned
  <1> QED
    BY <1>1, Inductive, PTL

(****************************************************************************)
(* framePrologue and frameEpilogue: a function that returns does so with    *)
(* the stack pointer it has been entered with.                              *)
(****************************************************************************)
THEOREM StackBalance == Spec => []StackIsGivenBack
  <1>1. IInv => StackIsGivenBack
    BY DEF IInv
  <1> QED
    BY <1>1, Inductive, PTL
==============================================================================
