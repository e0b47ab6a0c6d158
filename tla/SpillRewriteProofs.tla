--------------------------- MODULE SpillRewriteProofs ---------------------------
(****************************************************************************)
(* Spilling, for every function made of the instructions of the templates,  *)
(* every number of registers spilled and every order: the asserts of the    *)
(* rewriting hold, and the temporaries live for a short time.               *)
(****************************************************************************)
EXTENDS SpillRewrite, Iteration, SequenceTheorems

(****************************************************************************)
(* The instructions that are made of the instructions before number p.      *)
(****************************************************************************)
Joined(s, flat, off) ==
  /\ off[1] = 0 /\ off[Len(s) + 1] = Len(flat)
  /\ \A p \in 1 .. Len(s) + 1 : off[p] \in Nat
  /\ \A p \in 1 .. Len(s) : off[p + 1] = off[p] + Len(s[p])
  /\ \A p \in 1 .. Len(s) : \A j \in 1 .. Len(s[p]) : flat[off[p] + j] = s[p][j]

LEMMA Sums ==
  /\ \A a, b, c, e \in Nat : e + c <= a => e + c <= a + b
  /\ \A a, c, e \in Nat : \A j \in 1 .. c : e + c <= a => e + j \in 1 .. a
  /\ \A a \in Nat : ~ a > 1 => a = 0 \/ a = 1
  OBVIOUS

LEMMA LongerIs ==
  ASSUME NEW X, NEW w \in Seq(X), NEW s \in Seq(Seq(X)), NEW p \in 1 .. Len(s)
  PROVE  /\ Longer(w, s, p) \in Seq(X)
         /\ Len(Longer(w, s, p)) = Len(w) + Len(s[p])
         /\ \A j \in 1 .. Len(w) : Longer(w, s, p)[j] = w[j]
         /\ \A j \in 1 .. Len(s[p]) : Longer(w, s, p)[Len(w) + j] = s[p][j]
  <1>1. s[p] \in Seq(X)
    OBVIOUS
  <1>2. Len(w) \in Nat /\ Len(s[p]) \in Nat
    BY <1>1
  <1> QED
    BY <1>1, <1>2 DEF Longer

LEMMA Joins ==
  ASSUME NEW X, NEW s \in Seq(Seq(X))
  PROVE  FlattenSeq(s) \in Seq(X) /\ \E off : Joined(s, FlattenSeq(s), off)
  <1>0. ASSUME NEW v \in Seq(X), NEW p \in 1 .. Len(s)
        PROVE  /\ Longer(v, s, p) \in Seq(X)
               /\ Len(Longer(v, s, p)) = Len(v) + Len(s[p])
               /\ \A j \in 1 .. Len(v) : Longer(v, s, p)[j] = v[j]
               /\ \A j \in 1 .. Len(s[p]) : Longer(v, s, p)[Len(v) + j] = s[p][j]
    BY LongerIs
  <1>1. CASE Len(s) = 0
    <2>1. FlattenSeq(s) = <<>> /\ s = <<>>
      BY <1>1 DEF FlattenSeq
    <2>2. Joined(s, <<>>, <<0>>)
      BY <1>1 DEF Joined
    <2> QED
      BY <2>1, <2>2
  <1>2. CASE Len(s) # 0
    <2> PICK n \in Nat : n = Len(s) /\ n # 0 /\ \A p \in 1 .. n : s[p] \in Seq(X)
      BY <1>2
    <2> PICK g : FlattenSeq(s) = g[n] /\ Chains(s, g, n)
      BY <1>2, Flattens
    <2> DEFINE off == [p \in 1 .. n + 1 |-> IF p = 1 THEN 0 ELSE Len(g[p - 1])]
               Holds(m) == /\ g[m] \in Seq(X)
                           /\ off[m + 1] = Len(g[m])
                           /\ \A p \in 1 .. m : /\ off[p] \in Nat /\ off[p + 1] = off[p] + Len(s[p])
                                                /\ off[p + 1] <= off[m + 1]
                           /\ \A p \in 1 .. m : \A j \in 1 .. Len(s[p]) : g[m][off[p] + j] = s[p][j]
               S == {m \in Nat : m \in 1 .. n => Holds(m)}
    <2>1. off[1] = 0 /\ \A p \in 1 .. n : off[p + 1] = Len(g[p])
      OBVIOUS
    <2> HIDE DEF off
    <2>2. 0 \in S
      OBVIOUS
    <2>3. ASSUME NEW m \in Nat, m \in S
          PROVE  m + 1 \in S
      <3>1. SUFFICES m + 1 \in 1 .. n => Holds(m + 1)
        OBVIOUS
      <3>2. SUFFICES ASSUME m + 1 \in 1 .. n PROVE Holds(m + 1)
        OBVIOUS
      <3>3. CASE m = 0
        <4>1. g[1] = s[1] /\ off[2] = Len(s[1]) /\ Len(s[1]) \in Nat /\ s[1] \in Seq(X)
          BY <2>1 DEF Chains
        <4>2. Holds(1)
          BY <2>1, <4>1
        <4> QED
          BY <3>3, <4>2
      <3>4. CASE m # 0
        <4>1. m \in 1 .. n
          BY <3>2, <3>4
        <4>2. Holds(m)
          BY <2>3, <4>1
        <4> PICK r \in 1 .. n : r = m + 1 /\ r + 1 = m + 2 /\ m + 1 + 1 = m + 2 /\ r # 1 /\ r - 1 = m
          BY <3>2, <3>4
        <4>3. g[r] = Longer(g[m], s, r)
          BY DEF Chains
        <4> PICK w \in Seq(X) : w = g[m]
          BY <4>2
        <4>4. /\ Longer(w, s, r) \in Seq(X)
              /\ Len(Longer(w, s, r)) = Len(w) + Len(s[r])
              /\ \A j \in 1 .. Len(w) : Longer(w, s, r)[j] = w[j]
              /\ \A j \in 1 .. Len(s[r]) : Longer(w, s, r)[Len(w) + j] = s[r][j]
          <5>1. r \in 1 .. Len(s)
            OBVIOUS
          <5> QED
            BY <1>0, <5>1, Zenon
        <4> PICK a \in Nat : a = Len(w)
          OBVIOUS
        <4> PICK b \in Nat : b = Len(s[r])
          OBVIOUS
        <4>5. /\ g[r] \in Seq(X) /\ Len(g[r]) = a + b
              /\ \A j \in 1 .. a : g[r][j] = w[j]
              /\ \A j \in 1 .. b : g[r][a + j] = s[r][j]
          BY <4>3, <4>4, Zenon
        <4>6. off[r] = a /\ off[r + 1] = a + b
          <5>1. off[r + 1] = Len(g[r]) /\ off[m + 1] = Len(w)
            BY <2>1, <4>1
          <5> QED
            BY <4>5, <5>1
        <4>a. ASSUME NEW p \in 1 .. m
              PROVE  /\ off[p] \in Nat /\ off[p + 1] = off[p] + Len(s[p]) /\ off[p + 1] <= a
                     /\ Len(s[p]) \in Nat /\ off[p] + Len(s[p]) <= a
                     /\ \A j \in 1 .. Len(s[p]) : w[off[p] + j] = s[p][j]
          <5>1. off[p] \in Nat /\ off[p + 1] = off[p] + Len(s[p]) /\ off[p + 1] <= off[m + 1]
            BY <4>2, Zenon
          <5>2. \A j \in 1 .. Len(s[p]) : w[off[p] + j] = s[p][j]
            BY <4>2, Zenon
          <5>3. p \in 1 .. n
            BY <4>1
          <5>4. s[p] \in Seq(X)
            BY <5>3
          <5>5. Len(s[p]) \in Nat
            BY <5>4
          <5>6. off[p + 1] <= a /\ off[p] + Len(s[p]) <= a
            BY <4>6, <5>1, Zenon
          <5> QED
            BY <5>1, <5>2, <5>5, <5>6, Zenon
        <4>7. ASSUME NEW p \in 1 .. r
              PROVE  off[p] \in Nat /\ off[p + 1] = off[p] + Len(s[p]) /\ off[p + 1] <= off[r + 1]
          <5>1. CASE p = r
            <6>1. off[p] = a /\ Len(s[p]) = b /\ off[p + 1] = a + b
              BY <4>6, <5>1
            <6> QED
              BY <4>6, <6>1
          <5>2. CASE p # r
            <6>1. p \in 1 .. m
              BY <5>2
            <6> PICK c \in Nat, e \in Nat : c = Len(s[p]) /\ e = off[p] /\ off[p + 1] = e + c /\ e + c <= a
              BY <4>a, <6>1
            <6>2. e + c <= a + b
              BY Sums, Zenon
            <6> QED
              BY <4>6, <6>2
          <5> QED
            BY <5>1, <5>2
        <4>8. ASSUME NEW p \in 1 .. r, NEW j \in 1 .. Len(s[p])
              PROVE  g[r][off[p] + j] = s[p][j]
          <5>1. CASE p = r
            <6>1. j \in 1 .. b
              BY <5>1
            <6> QED
              BY <4>5, <4>6, <5>1, <6>1
          <5>2. CASE p # r
            <6>1. p \in 1 .. m
              BY <5>2
            <6> PICK c \in Nat, e \in Nat : c = Len(s[p]) /\ e = off[p] /\ e + c <= a
              BY <4>a, <6>1
            <6>3. j \in 1 .. c
              OBVIOUS
            <6>4. e + j \in 1 .. a
              BY <6>3, Sums, Zenon
            <6>5. w[off[p] + j] = s[p][j]
              BY <4>a, <6>1
            <6> QED
              BY <4>5, <6>4, <6>5
          <5> QED
            BY <5>1, <5>2
        <4>9. Holds(r)
          <5>1. g[r] \in Seq(X) /\ off[r + 1] = Len(g[r])
            BY <4>5, <4>6
          <5> QED
            BY <4>7, <4>8, <5>1, Zenon
        <4> QED
          BY <4>9
      <3> QED
        BY <3>3, <3>4
    <2>4. Nat \subseteq S
      <3> HIDE DEF S
      <3> QED
        BY <2>2, <2>3, SetInduction
    <2>5. Holds(n)
      <3>1. n \in S /\ n \in 1 .. n
        <4> HIDE DEF S
        <4> QED
          BY <2>4
      <3> QED
        BY <3>1, Zenon
    <2>6. off[n + 1] \in Nat
      BY <2>5
    <2>7. Joined(s, g[n], off)
      <3>1. \A p \in 1 .. n + 1 : off[p] \in Nat
        <4>1. \A p \in 1 .. n + 1 : p = n + 1 \/ p \in 1 .. n
          OBVIOUS
        <4>2. \A p \in 1 .. n : off[p] \in Nat
          BY <2>5
        <4> QED
          BY <2>6, <4>1, <4>2, Zenon
      <3>2. off[n + 1] = Len(g[n])
        BY <2>5
      <3>3. \A p \in 1 .. n : off[p + 1] = off[p] + Len(s[p])
        BY <2>5
      <3>4. \A p \in 1 .. n : \A j \in 1 .. Len(s[p]) : g[n][off[p] + j] = s[p][j]
        BY <2>5
      <3> QED
        BY <2>1, <3>1, <3>2, <3>3, <3>4, Zenon DEF Joined
    <2> QED
      BY <2>5, <2>7
  <1> QED
    BY <1>1, <1>2

(* Every place is a place of one of the sequences joined; which come in their order. *)
Located(s, flat, off) ==
  /\ \A q \in 1 .. Len(flat) : \E p \in 1 .. Len(s) : \E j \in 1 .. Len(s[p]) : q = off[p] + j
  /\ \A p, r \in 1 .. Len(s) : p < r => off[p] + Len(s[p]) <= off[r]
  /\ \A p \in 1 .. Len(s) : \A j \in 1 .. Len(s[p]) : off[p] + j \in 1 .. Len(flat)

LEMMA Places ==
  ASSUME NEW X, NEW s \in Seq(Seq(X)), NEW flat \in Seq(X), NEW off, Joined(s, flat, off)
  PROVE  Located(s, flat, off)
  <1> PICK n \in Nat : n = Len(s) /\ \A p \in 1 .. n : Len(s[p]) \in Nat
    <2>1. \A p \in 1 .. Len(s) : s[p] \in Seq(X)
      OBVIOUS
    <2>2. \A p \in 1 .. Len(s) : Len(s[p]) \in Nat
      BY <2>1
    <2> QED
      BY <2>2
  <1> PICK m \in Nat : m = Len(flat)
    OBVIOUS
  <1>1. /\ off[1] = 0 /\ off[n + 1] = m
        /\ \A p \in 1 .. n + 1 : off[p] \in Nat
        /\ \A p \in 1 .. n : off[p + 1] = off[p] + Len(s[p])
    BY DEF Joined
  <1>2. ASSUME NEW q \in 1 .. m
        PROVE  \E p \in 1 .. n : \E j \in 1 .. Len(s[p]) : q = off[p] + j
    <2> DEFINE T == {p \in Nat : p \in 1 .. n + 1 /\ q <= off[p]}
    <2>1. n + 1 \in T
      BY <1>1
    <2> PICK p \in T : \A r \in T : p <= r
      BY <2>1, LeastNatural
    <2>2. p # 1 /\ p \in 1 .. n + 1 /\ p - 1 \in 1 .. n
      BY <1>1
    <2> PICK r \in 1 .. n : r = p - 1 /\ r + 1 = p
      BY <2>2
    <2>3. r \notin T
      OBVIOUS
    <2>4. off[r] \in Nat /\ off[r + 1] = off[r] + Len(s[r]) /\ Len(s[r]) \in Nat /\ q <= off[r + 1]
      BY <1>1
    <2> PICK a \in Nat, b \in Nat : a = off[r] /\ b = Len(s[r])
      BY <2>4
    <2>5. ~ q <= a
      BY <2>3
    <2>6. q - a \in 1 .. b /\ q = a + (q - a)
      BY <2>4, <2>5
    <2> QED
      BY <2>6
  <1>3. ASSUME NEW p \in 1 .. n, NEW r \in 1 .. n + 1, p < r
        PROVE  off[p] + Len(s[p]) <= off[r]
    <2> DEFINE S == {k \in Nat : p + 1 + k \in 1 .. n + 1 => off[p] + Len(s[p]) <= off[p + 1 + k]}
    <2>1. 0 \in S
      <3>1. p + 1 + 0 = p + 1 /\ off[p + 1] = off[p] + Len(s[p]) /\ off[p] \in Nat /\ Len(s[p]) \in Nat
        BY <1>1
      <3> PICK a \in Nat, b \in Nat : a = off[p] /\ b = Len(s[p]) /\ off[p + 1] = a + b
        BY <3>1
      <3> QED
        BY <3>1
    <2>2. ASSUME NEW k \in Nat, k \in S
          PROVE  k + 1 \in S
      <3> SUFFICES ASSUME p + 1 + (k + 1) \in 1 .. n + 1
                   PROVE  off[p] + Len(s[p]) <= off[p + 1 + (k + 1)]
        OBVIOUS
      <3> PICK i \in 1 .. n : i = p + 1 + k /\ p + 1 + (k + 1) = i + 1
        OBVIOUS
      <3>1. off[i + 1] = off[i] + Len(s[i]) /\ off[i] \in Nat /\ Len(s[i]) \in Nat
        BY <1>1
      <3>2. off[p] \in Nat /\ Len(s[p]) \in Nat /\ off[p] + Len(s[p]) <= off[i]
        BY <1>1, <2>2
      <3> PICK a \in Nat, b \in Nat, c \in Nat : a = off[p] /\ b = Len(s[p]) /\ c = Len(s[i])
        BY <3>1, <3>2
      <3>3. a + b <= off[i + 1]
        BY <3>1, <3>2
      <3> QED
        BY <3>3
    <2>3. Nat \subseteq S
      <3> HIDE DEF S
      <3> QED
        BY <2>1, <2>2, SetInduction
    <2>4. r - (p + 1) \in Nat /\ p + 1 + (r - (p + 1)) = r
      BY <1>3
    <2> QED
      BY <2>3, <2>4
  <1>4. ASSUME NEW p \in 1 .. n, NEW j \in 1 .. Len(s[p])
        PROVE  off[p] + j \in 1 .. m
    <2>1. p < n + 1 /\ n + 1 \in 1 .. n + 1
      OBVIOUS
    <2>2. off[p] + Len(s[p]) <= off[n + 1]
      BY <1>3, <2>1
    <2>3. off[p] \in Nat /\ Len(s[p]) \in Nat
      BY <1>1
    <2>4. off[p] + Len(s[p]) <= m
      BY <1>1, <2>2
    <2> QED
      BY <2>3, <2>4, Sums, Zenon
  <1> QED
    BY <1>2, <1>3, <1>4 DEF Located
------------------------------------------------------------------------------
(* What becomes of one instruction. *)

RegistersOf(i) == ToSet(i.inputs) \cup ToSet(i.outputs)

(****************************************************************************)
(* What instruction number q of c reads as t has been assigned there, with  *)
(* nothing but inserted instructions in between.                            *)
(****************************************************************************)
SetBefore(c, q, t) ==
  \E w \in 1 .. q - 1 :
    /\ Names(c[w].outputs, t)
    /\ \A k \in w + 1 .. q - 1 : c[k].of = 0

(****************************************************************************)
(* The instructions g in place of i, reg being spilled, with registers up   *)
(* to top.  What they read is assigned among them or comes from before i,   *)
(* and what i has assigned is there after them.                             *)
(****************************************************************************)
Replaces(g, i, reg, top) ==
  /\ g \in Seq(InstructionType)
  /\ \A j \in 1 .. Len(g) : Fits(g[j]) /\ RegistersOf(g[j]) \subseteq 0 .. top
  /\ i.of = 0 => \A j \in 1 .. Len(g) : g[j].of = 0
  /\ \A j \in 1 .. Len(g) : \A t \in ToSet(g[j].inputs) :
       t >= FirstNew =>
         \/ SetBefore(g, j, t)
         \/ Names(i.inputs, t) /\ t # reg /\ \A k \in 1 .. j - 1 : g[k].of = 0
  /\ \A t \in ToSet(i.outputs) \ {reg} :
       \E j \in 1 .. Len(g) : Names(g[j].outputs, t) /\ \A k \in j + 1 .. Len(g) : g[k].of = 0

(* The instruction that comes of i itself may read a register loaded before it. *)
Becomes(m, i, reg, loaded, top) ==
  /\ m \in InstructionType /\ Fits(m) /\ RegistersOf(m) \subseteq 0 .. top
  /\ m.of = i.of
  /\ \A t \in ToSet(m.inputs) : t >= FirstNew => t = loaded \/ (Names(i.inputs, t) /\ t # reg)
  /\ ToSet(i.outputs) \ {reg} \subseteq ToSet(m.outputs)

LEMMA LoadIs ==
  ASSUME NEW temp \in Nat, NEW slot \in Int, NEW top \in Nat, temp <= top
  PROVE  /\ Load(temp, slot) \in InstructionType
         /\ Fits(Load(temp, slot))
         /\ RegistersOf(Load(temp, slot)) \subseteq 0 .. top
         /\ Load(temp, slot).of = 0
         /\ ToSet(Load(temp, slot).inputs) = {0}
         /\ ToSet(Load(temp, slot).outputs) = {temp}
  <1> DEFINE m == Load(temp, slot)
  <1>1. /\ m.op = "mov" /\ m.from = At(1, slot) /\ m.to = Out(1) /\ m.inputs = <<FP>>
        /\ m.outputs = <<temp>> /\ m.move = FALSE /\ m.of = 0
        /\ m = [op |-> "mov", from |-> At(1, slot), to |-> Out(1), inputs |-> <<FP>>,
                outputs |-> <<temp>>, move |-> FALSE, of |-> 0]
    BY DEF Load, Instruction
  <1> HIDE DEF m
  <1>2. At(1, slot) \in OperandType /\ Out(1) \in OperandType /\ FP \in Nat /\ "mov" \in Ops
    BY DEF At, Out, OperandType, FP, Ops
  <1>3. m \in InstructionType
    BY <1>1, <1>2 DEF InstructionType
  <1>4. ToSet(m.inputs) = {0} /\ ToSet(m.outputs) = {temp}
    BY <1>1 DEF ToSet, FP
  <1>5. m.from \in FirstInput(m)
    BY <1>1 DEF FirstInput, At
  <1>6. Fits(m)
    BY <1>1, <1>5 DEF Fits
  <1> QED
    BY <1>1, <1>3, <1>4, <1>6 DEF m, RegistersOf

LEMMA StoreIs ==
  ASSUME NEW temp \in Nat, NEW slot \in Int, NEW top \in Nat, temp <= top, FirstNew <= temp
  PROVE  /\ Store(temp, slot) \in InstructionType
         /\ Fits(Store(temp, slot))
         /\ RegistersOf(Store(temp, slot)) \subseteq 0 .. top
         /\ Store(temp, slot).of = 0
         /\ ToSet(Store(temp, slot).inputs) = {temp, 0}
         /\ ToSet(Store(temp, slot).outputs) = {}
  <1> DEFINE m == Store(temp, slot)
  <1>1. /\ m.op = "mov" /\ m.from = In(1) /\ m.to = At(2, slot) /\ m.inputs = <<temp, FP>>
        /\ m.outputs = <<>> /\ m.move = FALSE /\ m.of = 0
        /\ m = [op |-> "mov", from |-> In(1), to |-> At(2, slot), inputs |-> <<temp, FP>>,
                outputs |-> <<>>, move |-> FALSE, of |-> 0]
    BY DEF Store, Instruction
  <1> HIDE DEF m
  <1>2. At(2, slot) \in OperandType /\ In(1) \in OperandType /\ FP \in Nat /\ "mov" \in Ops
    BY DEF At, In, OperandType, FP, Ops
  <1>3. m \in InstructionType
    BY <1>1, <1>2 DEF InstructionType
  <1>4. ToSet(m.inputs) = {temp, 0} /\ ToSet(m.outputs) = {}
    BY <1>1 DEF ToSet, FP
  <1>5. AssignmentSplits(m)
    BY <1>1 DEF AssignmentSplits
  <1>6. Len(m.inputs) = 2 /\ DOMAIN m.inputs = 1 .. 2 /\ m.inputs[1] # m.inputs[2]
    BY <1>1, SourceAssumption DEF FP
  <1>7. Fits(m)
    BY <1>5, <1>6 DEF Fits
  <1> QED
    BY <1>1, <1>3, <1>4, <1>7 DEF m, RegistersOf

LEMMA Alone ==
  ASSUME NEW i, NEW reg, NEW top, NEW m, Becomes(m, i, reg, 0, top)
  PROVE  Replaces(<<m>>, i, reg, top)
  <1> DEFINE g == <<m>>
  <1>1. Len(g) = 1 /\ g[1] = m /\ m \in InstructionType
    BY DEF Becomes
  <1>2. g \in Seq(InstructionType)
    BY <1>1
  <1> HIDE DEF g
  <1>3. \A t \in ToSet(m.inputs) : t >= FirstNew => Names(i.inputs, t) /\ t # reg
    BY SourceAssumption DEF Becomes
  <1> QED
    BY <1>1, <1>2, <1>3 DEF g, Replaces, Becomes, Names

LEMMA AfterLoad ==
  ASSUME NEW i, NEW reg, NEW top \in Nat, NEW temp \in Nat, temp <= top, FirstNew <= temp,
         NEW slot \in Int, NEW m, Becomes(m, i, reg, temp, top)
  PROVE  Replaces(<<Load(temp, slot), m>>, i, reg, top)
  <1> PICK l : l = Load(temp, slot)
    OBVIOUS
  <1>1. /\ l \in InstructionType /\ Fits(l) /\ RegistersOf(l) \subseteq 0 .. top /\ l.of = 0
        /\ ToSet(l.inputs) = {0} /\ ToSet(l.outputs) = {temp}
    BY LoadIs
  <1>2. /\ m \in InstructionType /\ Fits(m) /\ RegistersOf(m) \subseteq 0 .. top /\ m.of = i.of
        /\ \A t \in ToSet(m.inputs) : t >= FirstNew => t = temp \/ (Names(i.inputs, t) /\ t # reg)
        /\ ToSet(i.outputs) \ {reg} \subseteq ToSet(m.outputs)
    BY DEF Becomes
  <1> DEFINE g == <<l, m>>
  <1>3. Len(g) = 2 /\ g[1] = l /\ g[2] = m /\ g \in Seq(InstructionType)
    BY <1>1, <1>2
  <1> HIDE DEF g
  <1>4. \A j \in 1 .. 2 : j = 1 \/ j = 2
    OBVIOUS
  <1>5. \A j \in 1 .. 2 : Fits(g[j]) /\ RegistersOf(g[j]) \subseteq 0 .. top
    BY <1>1, <1>2, <1>3, <1>4
  <1>6. i.of = 0 => \A j \in 1 .. 2 : g[j].of = 0
    BY <1>1, <1>2, <1>3, <1>4
  <1>7. ASSUME NEW j \in 1 .. 2, NEW t \in ToSet(g[j].inputs), t >= FirstNew
        PROVE  \/ SetBefore(g, j, t)
               \/ Names(i.inputs, t) /\ t # reg /\ \A k \in 1 .. j - 1 : g[k].of = 0
    <2>1. j = 2
      BY <1>1, <1>3, <1>4, <1>7, SourceAssumption
    <2>2. CASE t = temp
      <3>1. SetBefore(g, 2, temp)
        BY <1>1, <1>3 DEF SetBefore, Names
      <3> QED
        BY <2>1, <2>2, <3>1
    <2>3. CASE t # temp
      <3>1. Names(i.inputs, t) /\ t # reg
        BY <1>2, <1>3, <1>7, <2>1, <2>3
      <3>2. \A k \in 1 .. j - 1 : g[k].of = 0
        BY <1>1, <1>3, <2>1
      <3> QED
        BY <3>1, <3>2
    <2> QED
      BY <2>2, <2>3
  <1>8. ASSUME NEW t \in ToSet(i.outputs) \ {reg}
        PROVE  \E j \in 1 .. 2 : Names(g[j].outputs, t) /\ \A k \in j + 1 .. 2 : g[k].of = 0
    <2>1. Names(g[2].outputs, t)
      BY <1>2, <1>3 DEF Names
    <2> QED
      BY <2>1
  <1>9. Replaces(g, i, reg, top)
    BY <1>3, <1>5, <1>6, <1>7, <1>8 DEF Replaces
  <1> QED
    BY <1>9 DEF g

LEMMA BeforeStore ==
  ASSUME NEW i, NEW reg, NEW top \in Nat, NEW temp \in Nat, temp <= top, FirstNew <= temp,
         NEW slot \in Int, NEW m, Becomes(m, i, reg, 0, top), Names(m.outputs, temp)
  PROVE  Replaces(<<m, Store(temp, slot)>>, i, reg, top)
  <1> PICK l : l = Store(temp, slot)
    OBVIOUS
  <1>1. /\ l \in InstructionType /\ Fits(l) /\ RegistersOf(l) \subseteq 0 .. top /\ l.of = 0
        /\ ToSet(l.inputs) = {temp, 0} /\ ToSet(l.outputs) = {}
    BY StoreIs
  <1>2. /\ m \in InstructionType /\ Fits(m) /\ RegistersOf(m) \subseteq 0 .. top /\ m.of = i.of
        /\ \A t \in ToSet(m.inputs) : t >= FirstNew => t = 0 \/ (Names(i.inputs, t) /\ t # reg)
        /\ ToSet(i.outputs) \ {reg} \subseteq ToSet(m.outputs)
    BY DEF Becomes
  <1> DEFINE g == <<m, l>>
  <1>3. Len(g) = 2 /\ g[1] = m /\ g[2] = l /\ g \in Seq(InstructionType)
    BY <1>1, <1>2
  <1> HIDE DEF g
  <1>4. \A j \in 1 .. 2 : j = 1 \/ j = 2
    OBVIOUS
  <1>5. \A j \in 1 .. 2 : Fits(g[j]) /\ RegistersOf(g[j]) \subseteq 0 .. top
    BY <1>1, <1>2, <1>3, <1>4
  <1>6. i.of = 0 => \A j \in 1 .. 2 : g[j].of = 0
    BY <1>1, <1>2, <1>3, <1>4
  <1>7. ASSUME NEW j \in 1 .. 2, NEW t \in ToSet(g[j].inputs), t >= FirstNew
        PROVE  \/ SetBefore(g, j, t)
               \/ Names(i.inputs, t) /\ t # reg /\ \A k \in 1 .. j - 1 : g[k].of = 0
    <2>0. t # 0
      BY <1>7, SourceAssumption
    <2>1. CASE j = 2
      <3>1. t = temp
        BY <1>1, <1>3, <2>0, <2>1
      <3>2. SetBefore(g, 2, temp)
        BY <1>3 DEF SetBefore
      <3> QED
        BY <2>1, <3>1, <3>2
    <2>2. CASE j = 1
      <3>1. Names(i.inputs, t) /\ t # reg
        BY <1>2, <1>3, <1>7, <2>0, <2>2
      <3>2. \A k \in 1 .. j - 1 : g[k].of = 0
        BY <2>2
      <3> QED
        BY <3>1, <3>2
    <2> QED
      BY <1>4, <2>1, <2>2
  <1>8. ASSUME NEW t \in ToSet(i.outputs) \ {reg}
        PROVE  \E j \in 1 .. 2 : Names(g[j].outputs, t) /\ \A k \in j + 1 .. 2 : g[k].of = 0
    <2>1. Names(g[1].outputs, t)
      BY <1>2, <1>3 DEF Names
    <2>2. \A k \in 1 + 1 .. 2 : g[k].of = 0
      BY <1>1, <1>3
    <2> QED
      BY <2>1, <2>2
  <1>9. Replaces(g, i, reg, top)
    BY <1>3, <1>5, <1>6, <1>7, <1>8 DEF Replaces
  <1> QED
    BY <1>9 DEF g

LEMMA Between ==
  ASSUME NEW i, NEW reg, NEW top \in Nat, NEW temp \in Nat, NEW temp2 \in Nat,
         temp <= top, FirstNew <= temp, temp2 <= top, FirstNew <= temp2,
         NEW slot \in Int, NEW m, Becomes(m, i, reg, temp, top), Names(m.outputs, temp2)
  PROVE  Replaces(<<Load(temp, slot), m, Store(temp2, slot)>>, i, reg, top)
  <1> PICK l : l = Load(temp, slot)
    OBVIOUS
  <1> PICK z : z = Store(temp2, slot)
    OBVIOUS
  <1>0. /\ z \in InstructionType /\ Fits(z) /\ RegistersOf(z) \subseteq 0 .. top /\ z.of = 0
        /\ ToSet(z.inputs) = {temp2, 0} /\ ToSet(z.outputs) = {}
    BY StoreIs
  <1>1. /\ l \in InstructionType /\ Fits(l) /\ RegistersOf(l) \subseteq 0 .. top /\ l.of = 0
        /\ ToSet(l.inputs) = {0} /\ ToSet(l.outputs) = {temp}
    BY LoadIs
  <1>2. /\ m \in InstructionType /\ Fits(m) /\ RegistersOf(m) \subseteq 0 .. top /\ m.of = i.of
        /\ \A t \in ToSet(m.inputs) : t >= FirstNew => t = temp \/ (Names(i.inputs, t) /\ t # reg)
        /\ ToSet(i.outputs) \ {reg} \subseteq ToSet(m.outputs)
    BY DEF Becomes
  <1> DEFINE g == <<l, m, z>>
  <1>3. Len(g) = 3 /\ g[1] = l /\ g[2] = m /\ g[3] = z /\ g \in Seq(InstructionType)
    BY <1>0, <1>1, <1>2
  <1> HIDE DEF g
  <1>4. \A j \in 1 .. 3 : j = 1 \/ j = 2 \/ j = 3
    OBVIOUS
  <1>5. \A j \in 1 .. 3 : Fits(g[j]) /\ RegistersOf(g[j]) \subseteq 0 .. top
    BY <1>0, <1>1, <1>2, <1>3, <1>4
  <1>6. i.of = 0 => \A j \in 1 .. 3 : g[j].of = 0
    BY <1>0, <1>1, <1>2, <1>3, <1>4
  <1>7. ASSUME NEW j \in 1 .. 3, NEW t \in ToSet(g[j].inputs), t >= FirstNew
        PROVE  \/ SetBefore(g, j, t)
               \/ Names(i.inputs, t) /\ t # reg /\ \A k \in 1 .. j - 1 : g[k].of = 0
    <2>0. t # 0
      BY <1>7, SourceAssumption
    <2>1. CASE j = 3
      <3>1. t = temp2
        BY <1>0, <1>3, <2>0, <2>1
      <3>2. SetBefore(g, 3, temp2)
        BY <1>3 DEF SetBefore
      <3> QED
        BY <2>1, <3>1, <3>2
    <2>2. CASE j = 2 /\ t = temp
      <3>1. SetBefore(g, 2, temp)
        BY <1>1, <1>3 DEF SetBefore, Names
      <3> QED
        BY <2>2, <3>1
    <2>3. CASE j = 2 /\ t # temp
      <3>1. Names(i.inputs, t) /\ t # reg
        BY <1>2, <1>3, <1>7, <2>3
      <3>2. \A k \in 1 .. j - 1 : g[k].of = 0
        BY <1>1, <1>3, <2>3
      <3> QED
        BY <3>1, <3>2
    <2>4. j # 1
      BY <1>1, <1>3, <2>0
    <2> QED
      BY <1>4, <2>1, <2>2, <2>3, <2>4
  <1>8. ASSUME NEW t \in ToSet(i.outputs) \ {reg}
        PROVE  \E j \in 1 .. 3 : Names(g[j].outputs, t) /\ \A k \in j + 1 .. 3 : g[k].of = 0
    <2>1. Names(g[2].outputs, t)
      BY <1>2, <1>3 DEF Names
    <2>2. \A k \in 2 + 1 .. 3 : g[k].of = 0
      BY <1>0, <1>3
    <2> QED
      BY <2>1, <2>2
  <1>9. Replaces(g, i, reg, top)
    BY <1>3, <1>5, <1>6, <1>7, <1>8 DEF Replaces
  <1> QED
    BY <1>9 DEF g

LEMMA FirstNewIsNatural == FirstNew \in Nat /\ FirstNew # 0
  BY SourceAssumption

LEMMA Elements ==
  ASSUME NEW s \in Seq(Nat)
  PROVE  /\ DOMAIN s = 1 .. Len(s) /\ Len(s) \in Nat
         /\ \A k \in DOMAIN s : s[k] \in Nat /\ s[k] \in ToSet(s)
         /\ \A t \in ToSet(s) : \E k \in DOMAIN s : s[k] = t
  BY DEF ToSet

Replaced(s, reg, temp) == [k \in DOMAIN s |-> IF s[k] = reg THEN temp ELSE s[k]]

LEMMA ReplacedIs ==
  ASSUME NEW s \in Seq(Nat), NEW reg, NEW temp \in Nat
  PROVE  LET u == Replaced(s, reg, temp)
         IN  u \in Seq(Nat) /\ Len(u) = Len(s) /\ DOMAIN u = DOMAIN s
  <1> PICK n \in Nat : n = Len(s) /\ DOMAIN s = 1 .. n /\ \A k \in 1 .. n : s[k] \in Nat
    BY Elements
  <1> DEFINE u == Replaced(s, reg, temp)
  <1>1. u \in [1 .. n -> Nat]
    BY DEF Replaced
  <1> HIDE DEF u
  <1>2. u \in Seq(Nat)
    BY <1>1
  <1>3. Len(u) = n
    BY <1>1, <1>2
  <1>4. DOMAIN u = 1 .. n
    BY <1>1
  <1> QED
    BY <1>2, <1>3, <1>4 DEF u

LEMMA FirstNamedIs ==
  ASSUME NEW i \in InstructionType, NEW reg, Names(i.inputs, reg)
  PROVE  FirstNamed(i, reg) \in DOMAIN i.inputs /\ i.inputs[FirstNamed(i, reg)] = reg
  <1>1. i.inputs \in Seq(Nat)
    BY DEF InstructionType
  <1> PICK s \in Seq(Nat) : s = i.inputs
    BY <1>1
  <1> DEFINE T == {k \in Nat : k \in DOMAIN s /\ s[k] = reg}
  <1>2. T # {}
    BY Elements DEF Names
  <1> PICK k \in T : \A l \in T : k <= l
    BY <1>2, LeastNatural
  <1>3. k \in DOMAIN s /\ s[k] = reg /\ \A l \in 1 .. k - 1 : s[l] # reg
    <2>1. ASSUME NEW l \in 1 .. k - 1 PROVE s[l] # reg
      <3>1. l \in Nat /\ l \in DOMAIN s /\ ~ k <= l
        BY Elements
      <3> QED
        BY <3>1
    <2> QED
      BY <2>1
  <1>4. \E f \in DOMAIN s : s[f] = reg /\ \A l \in 1 .. f - 1 : s[l] # reg
    BY <1>3
  <1> QED
    BY <1>4 DEF FirstNamed

(* The input is replaced by a register that is loaded. *)
LEMMA LoadedInput ==
  ASSUME NEW i \in InstructionType, Fits(i), NEW temp \in Nat, NEW top \in Nat,
         temp <= top, FirstNew <= temp, RegistersOf(i) \subseteq 0 .. temp - 1,
         NEW reg, Names(i.inputs, reg), ~ Names(i.outputs, reg)
  PROVE  Becomes([i EXCEPT !.inputs[FirstNamed(i, reg)] = temp], i, reg, temp, top)
  <1> PICK f : f = FirstNamed(i, reg)
    OBVIOUS
  <1> PICK s : s = i.inputs
    OBVIOUS
  <1>1. s \in Seq(Nat) /\ f \in DOMAIN s /\ s[f] = reg
    BY FirstNamedIs DEF InstructionType
  <1> PICK u : u = [s EXCEPT ![f] = temp]
    OBVIOUS
  <1>2. u \in Seq(Nat) /\ Len(u) = Len(s) /\ DOMAIN u = DOMAIN s /\ u[f] = temp
    BY <1>1
  <1>3. \A k \in DOMAIN s : k # f => u[k] = s[k]
    BY <1>1
  <1> DEFINE m == [i EXCEPT !.inputs[f] = temp]
  <1>4. /\ m.inputs = u /\ m.outputs = i.outputs /\ m.from = i.from /\ m.to = i.to /\ m.of = i.of
        /\ m \in InstructionType
    BY <1>2 DEF InstructionType, Replaced
  <1> HIDE DEF m
  <1>5. \A k \in DOMAIN s : s[k] \in Nat /\ s[k] \in ToSet(s) /\ s[k] < temp
    <2>1. \A k \in DOMAIN s : s[k] \in Nat /\ s[k] \in ToSet(s)
      BY <1>1, Elements
    <2>2. \A t \in ToSet(s) : t \in 0 .. temp - 1
      BY DEF RegistersOf
    <2> QED
      BY <2>1, <2>2
  <1>6. \A k, l \in DOMAIN s :
          k # l /\ s[k] = s[l]
          => s[k] < FirstNew /\ (s[k] \in Machine \cup {FP} \/ ~ Names(i.outputs, s[k]))
    BY DEF Fits
  <1>7. \A k, l \in DOMAIN u :
          k # l /\ u[k] = u[l]
          => u[k] < FirstNew /\ (u[k] \in Machine \cup {FP} \/ ~ Names(i.outputs, u[k]))
    <2> SUFFICES ASSUME NEW k \in DOMAIN u, NEW l \in DOMAIN u, k # l, u[k] = u[l]
                 PROVE  u[k] < FirstNew /\ (u[k] \in Machine \cup {FP} \/ ~ Names(i.outputs, u[k]))
      OBVIOUS
    <2>1. k # f /\ l # f
      BY <1>2, <1>3, <1>5
    <2> QED
      BY <1>2, <1>3, <1>6, <2>1
  <1>8. Fits(m)
    <2>1. FirstInput(m) = FirstInput(i) /\ (InParentheses(m) <=> InParentheses(i))
      BY <1>4 DEF FirstInput, InParentheses
    <2>2. AssignmentSplits(m) <=> AssignmentSplits(i)
      BY <1>2, <1>4, <2>1 DEF AssignmentSplits
    <2>3. Len(m.inputs) = 1 => FirstInput(m) # {}
      BY <1>2, <1>4, <2>1 DEF Fits
    <2>4. AssignmentSplits(m) \/ m.to = Out(1) \/ ToSet(m.outputs) \subseteq Machine
      BY <1>4, <2>2 DEF Fits
    <2> QED
      BY <1>4, <1>7, <2>3, <2>4 DEF Fits
  <1>9. \A t \in ToSet(u) : t = temp \/ \E k \in DOMAIN s : k # f /\ t = s[k]
    <2>1. \A t \in ToSet(u) : \E k \in DOMAIN u : u[k] = t
      BY <1>2, Elements
    <2> QED
      BY <1>2, <1>3, <2>1
  <1>10. RegistersOf(m) \subseteq 0 .. top
    <2>1. ToSet(u) \subseteq 0 .. top
      BY <1>5, <1>9
    <2>2. ToSet(i.outputs) \subseteq 0 .. top
      BY DEF RegistersOf
    <2> QED
      BY <1>4, <2>1, <2>2 DEF RegistersOf
  <1>11. ASSUME NEW t \in ToSet(m.inputs), t >= FirstNew
         PROVE  t = temp \/ (Names(i.inputs, t) /\ t # reg)
    <2> SUFFICES ASSUME t # temp PROVE Names(i.inputs, t) /\ t # reg
      OBVIOUS
    <2> PICK k \in DOMAIN s : k # f /\ t = s[k]
      BY <1>4, <1>9
    <2>1. t # reg
      <3> SUFFICES ASSUME t = reg PROVE FALSE
        OBVIOUS
      <3>1. s[k] < FirstNew
        BY <1>1, <1>6
      <3>2. s[k] \in Nat /\ s[k] >= FirstNew
        BY <1>5, <1>11
      <3> QED
        BY <3>1, <3>2, FirstNewIsNatural
    <2> QED
      BY <1>5, <2>1 DEF Names
  <1>12. Becomes(m, i, reg, temp, top)
    BY <1>4, <1>8, <1>10, <1>11 DEF Becomes
  <1> QED
    BY <1>12 DEF m

(* The source of a move is replaced by the place in the frame. *)
LEMMA FrameInput ==
  ASSUME NEW i \in InstructionType, Fits(i), NEW temp \in Nat, NEW top \in Nat,
         temp <= top, RegistersOf(i) \subseteq 0 .. temp - 1, NEW slot \in Int,
         NEW reg, ~ Names(i.outputs, reg)
  PROVE  Becomes([i EXCEPT !.inputs = <<FP>>, !.from = At(1, slot), !.move = FALSE], i, reg, 0, top)
  <1> DEFINE m == [i EXCEPT !.inputs = <<FP>>, !.from = At(1, slot), !.move = FALSE]
  <1>1. At(1, slot) \in OperandType /\ <<FP>> \in Seq(Nat)
    BY DEF At, OperandType, FP
  <1>2. /\ m.inputs = <<FP>> /\ m.outputs = i.outputs /\ m.from = At(1, slot) /\ m.of = i.of
        /\ m \in InstructionType
    BY <1>1 DEF InstructionType
  <1> HIDE DEF m
  <1>3. m.from \in FirstInput(m) /\ m.from.kind = "memory"
    BY <1>2 DEF FirstInput, At
  <1>4. Len(m.inputs) = 1 /\ DOMAIN m.inputs = 1 .. 1 /\ ToSet(m.inputs) = {0}
    BY <1>2 DEF FP, ToSet
  <1>5. AssignmentSplits(m)
    BY <1>3, <1>4 DEF AssignmentSplits, InParentheses
  <1>6. Fits(m)
    BY <1>3, <1>4, <1>5 DEF Fits
  <1>7. RegistersOf(m) \subseteq 0 .. top
    BY <1>2, <1>4 DEF RegistersOf
  <1>8. Becomes(m, i, reg, 0, top)
    BY <1>2, <1>4, <1>6, <1>7 DEF Becomes
  <1> QED
    BY <1>8 DEF m

(* Every input that is the register is replaced by one that is loaded. *)
LEMMA LoadedInputs ==
  ASSUME NEW i \in InstructionType, Fits(i), NEW temp \in Nat, NEW top \in Nat,
         temp <= top, FirstNew <= temp, RegistersOf(i) \subseteq 0 .. temp - 1,
         NEW reg, reg \notin Machine \cup {FP}, Names(i.outputs, reg)
  PROVE  Becomes([i EXCEPT !.inputs = [k \in DOMAIN @ |-> IF @[k] = reg THEN temp ELSE @[k]]],
                 i, reg, temp, top)
  <1> PICK s : s = i.inputs
    OBVIOUS
  <1>1. s \in Seq(Nat)
    BY DEF InstructionType
  <1> PICK u : u = Replaced(s, reg, temp)
    OBVIOUS
  <1>2. u \in Seq(Nat) /\ Len(u) = Len(s) /\ DOMAIN u = DOMAIN s
    BY <1>1, ReplacedIs
  <1>3. \A k \in DOMAIN s : u[k] = IF s[k] = reg THEN temp ELSE s[k]
    BY DEF Replaced
  <1> DEFINE m == [i EXCEPT !.inputs = [k \in DOMAIN @ |-> IF @[k] = reg THEN temp ELSE @[k]]]
  <1>4. /\ m.inputs = u /\ m.outputs = i.outputs /\ m.from = i.from /\ m.to = i.to /\ m.of = i.of
        /\ m \in InstructionType
    BY <1>2 DEF InstructionType, Replaced
  <1> HIDE DEF m
  <1>5. \A k \in DOMAIN s : s[k] \in Nat /\ s[k] \in ToSet(s) /\ s[k] < temp
    <2>1. \A k \in DOMAIN s : s[k] \in Nat /\ s[k] \in ToSet(s)
      BY <1>1, Elements
    <2>2. \A t \in ToSet(s) : t \in 0 .. temp - 1
      BY DEF RegistersOf
    <2> QED
      BY <2>1, <2>2
  <1>6. \A k, l \in DOMAIN s :
          k # l /\ s[k] = s[l]
          => s[k] < FirstNew /\ (s[k] \in Machine \cup {FP} \/ ~ Names(i.outputs, s[k]))
    BY DEF Fits
  <1>7. \A k, l \in DOMAIN u :
          k # l /\ u[k] = u[l]
          => u[k] < FirstNew /\ (u[k] \in Machine \cup {FP} \/ ~ Names(i.outputs, u[k]))
    <2> SUFFICES ASSUME NEW k \in DOMAIN u, NEW l \in DOMAIN u, k # l, u[k] = u[l]
                 PROVE  u[k] < FirstNew /\ (u[k] \in Machine \cup {FP} \/ ~ Names(i.outputs, u[k]))
      OBVIOUS
    <2>1. s[k] # reg \/ s[l] # reg
      BY <1>2, <1>6
    <2>2. s[k] # reg /\ s[l] # reg
      BY <1>2, <1>3, <1>5, <2>1
    <2> QED
      BY <1>2, <1>3, <1>6, <2>2
  <1>8. Fits(m)
    <2>1. FirstInput(m) = FirstInput(i) /\ (InParentheses(m) <=> InParentheses(i))
      BY <1>4 DEF FirstInput, InParentheses
    <2>2. AssignmentSplits(m) <=> AssignmentSplits(i)
      BY <1>2, <1>4, <2>1 DEF AssignmentSplits
    <2>3. Len(m.inputs) = 1 => FirstInput(m) # {}
      BY <1>2, <1>4, <2>1 DEF Fits
    <2>4. AssignmentSplits(m) \/ m.to = Out(1) \/ ToSet(m.outputs) \subseteq Machine
      BY <1>4, <2>2 DEF Fits
    <2> QED
      BY <1>4, <1>7, <2>3, <2>4 DEF Fits
  <1>9. \A t \in ToSet(u) : t = temp \/ \E k \in DOMAIN s : t # reg /\ t = s[k]
    <2>1. \A t \in ToSet(u) : \E k \in DOMAIN u : u[k] = t
      BY <1>2, Elements
    <2> QED
      BY <1>2, <1>3, <2>1
  <1>10. RegistersOf(m) \subseteq 0 .. top
    <2>1. ToSet(u) \subseteq 0 .. top
      BY <1>5, <1>9
    <2>2. ToSet(i.outputs) \subseteq 0 .. top
      BY DEF RegistersOf
    <2> QED
      BY <1>4, <2>1, <2>2 DEF RegistersOf
  <1>11. \A t \in ToSet(m.inputs) : t = temp \/ (Names(i.inputs, t) /\ t # reg)
    BY <1>4, <1>5, <1>9 DEF Names
  <1>12. Becomes(m, i, reg, temp, top)
    BY <1>4, <1>8, <1>10, <1>11 DEF Becomes
  <1> QED
    BY <1>12 DEF m

(* Every output that is the register is replaced by one that is stored. *)
LEMMA StoredOutputs ==
  ASSUME NEW i, NEW b, NEW reg, NEW loaded, NEW top \in Nat, Becomes(b, i, reg, loaded, top),
         AssignmentSplits(b), Names(b.outputs, reg),
         NEW temp \in Nat, temp <= top, FirstNew <= temp
  PROVE  LET m == [b EXCEPT !.outputs = [k \in DOMAIN @ |-> IF @[k] = reg THEN temp ELSE @[k]]]
         IN  Becomes(m, i, reg, loaded, top) /\ Names(m.outputs, temp)
  <1> PICK s : s = b.outputs
    OBVIOUS
  <1>0. b \in InstructionType
    BY DEF Becomes
  <1>1. s \in Seq(Nat) /\ b.inputs \in Seq(Nat)
    BY <1>0 DEF InstructionType
  <1> PICK u : u = Replaced(s, reg, temp)
    OBVIOUS
  <1>2. u \in Seq(Nat) /\ DOMAIN u = DOMAIN s
    BY <1>1, ReplacedIs
  <1>3. \A k \in DOMAIN s : u[k] = IF s[k] = reg THEN temp ELSE s[k]
    BY DEF Replaced
  <1> DEFINE m == [b EXCEPT !.outputs = [k \in DOMAIN @ |-> IF @[k] = reg THEN temp ELSE @[k]]]
  <1>4. /\ m.inputs = b.inputs /\ m.outputs = u /\ m.from = b.from /\ m.to = b.to /\ m.of = b.of
        /\ m \in InstructionType
    BY <1>0, <1>2 DEF InstructionType, Replaced
  <1> HIDE DEF m
  <1>5. \A t \in ToSet(u) : t = temp \/ (t \in ToSet(s) /\ t # reg)
    <2>1. \A t \in ToSet(u) : \E k \in DOMAIN u : u[k] = t
      BY <1>2, Elements
    <2>2. \A k \in DOMAIN s : s[k] \in ToSet(s)
      BY <1>1, Elements
    <2> QED
      BY <1>2, <1>3, <2>1, <2>2
  <1>6. (ToSet(s) \ {reg}) \cup {temp} \subseteq ToSet(u)
    <2>1. \A t \in ToSet(s) : \E k \in DOMAIN s : s[k] = t
      BY <1>1, Elements
    <2>2. \A k \in DOMAIN u : u[k] \in ToSet(u)
      BY <1>2, Elements
    <2>3. reg \in ToSet(s)
      BY DEF Names
    <2>4. temp \in ToSet(u)
      BY <1>2, <1>3, <2>1, <2>2, <2>3
    <2>5. ASSUME NEW t \in ToSet(s), t # reg
          PROVE  t \in ToSet(u)
      <3> PICK k \in DOMAIN s : s[k] = t
        BY <2>1
      <3>1. u[k] = t
        BY <1>3, <2>5
      <3> QED
        BY <1>2, <2>2, <3>1
    <2> QED
      BY <2>4, <2>5
  <1>7. AssignmentSplits(m) /\ (Len(m.inputs) = 1 => FirstInput(m) # {})
    <2>1. FirstInput(m) = FirstInput(b) /\ (InParentheses(m) <=> InParentheses(b))
      BY <1>4 DEF FirstInput, InParentheses
    <2>2. AssignmentSplits(m)
      BY <1>4, <2>1 DEF AssignmentSplits
    <2>3. Len(m.inputs) = 1 => FirstInput(m) # {}
      BY <1>4, <2>1 DEF Fits, Becomes
    <2> QED
      BY <2>2, <2>3
  <1>8. \A k, l \in DOMAIN b.inputs :
          k # l /\ b.inputs[k] = b.inputs[l]
          => b.inputs[k] < FirstNew /\ (b.inputs[k] \in Machine \cup {FP} \/ ~ Names(u, b.inputs[k]))
    <2> SUFFICES ASSUME NEW k \in DOMAIN b.inputs, NEW l \in DOMAIN b.inputs, k # l,
                        b.inputs[k] = b.inputs[l]
                 PROVE  b.inputs[k] < FirstNew
                        /\ (b.inputs[k] \in Machine \cup {FP} \/ ~ Names(u, b.inputs[k]))
      OBVIOUS
    <2>1. b.inputs[k] < FirstNew /\ (b.inputs[k] \in Machine \cup {FP} \/ ~ Names(s, b.inputs[k]))
      BY DEF Fits, Becomes
    <2>2. b.inputs[k] \in Nat
      BY <1>1, Elements
    <2>3. b.inputs[k] # temp
      BY <2>1, <2>2, FirstNewIsNatural
    <2> QED
      BY <1>5, <2>1, <2>3 DEF Names
  <1>9. Fits(m)
    BY <1>4, <1>7, <1>8 DEF Fits
  <1>10. RegistersOf(m) \subseteq 0 .. top
    <2>1. ToSet(b.inputs) \subseteq 0 .. top /\ ToSet(s) \subseteq 0 .. top
      BY DEF RegistersOf, Becomes
    <2> QED
      BY <1>4, <1>5, <2>1 DEF RegistersOf
  <1>11. Becomes(m, i, reg, loaded, top)
    BY <1>4, <1>6, <1>9, <1>10 DEF Becomes
  <1>12. Names(m.outputs, temp)
    BY <1>4, <1>6 DEF Names
  <1> QED
    BY <1>11, <1>12 DEF m

(* The destination of a move is replaced by the place in the frame. *)
LEMMA FrameOutput ==
  ASSUME NEW i, NEW b, NEW reg, NEW loaded, NEW top \in Nat, Becomes(b, i, reg, loaded, top),
         ~ AssignmentSplits(b), NEW slot \in Int
  PROVE  Becomes([b EXCEPT !.inputs = InputsWithFrame(b), !.move = FALSE,
                           !.to = At(Len(b.inputs) + 1, slot)], i, reg, loaded, top)
  <1> PICK s : s = b.inputs
    OBVIOUS
  <1>0. b \in InstructionType /\ RegistersOf(b) \subseteq 0 .. top
    BY DEF Becomes
  <1>1. s \in Seq(Nat) /\ Len(s) \in Nat
    BY <1>0 DEF InstructionType
  <1> PICK u : u = Append(s, 0)
    OBVIOUS
  <1>2. u \in Seq(Nat) /\ Len(u) = Len(s) + 1 /\ u[Len(s) + 1] = 0
    BY <1>1
  <1>3. At(Len(s) + 1, slot) \in OperandType
    BY <1>1 DEF At, OperandType
  <1> DEFINE m == [b EXCEPT !.inputs = InputsWithFrame(b), !.move = FALSE,
                            !.to = At(Len(b.inputs) + 1, slot)]
  <1>4. /\ m.inputs = u /\ m.outputs = b.outputs /\ m.to = At(Len(s) + 1, slot) /\ m.of = b.of
        /\ m \in InstructionType
    BY <1>0, <1>2, <1>3 DEF InstructionType, InputsWithFrame, FP
  <1> HIDE DEF m
  <1>5. Len(s) = 0 \/ Len(s) = 1
    <2>1. ~ Len(s) > 1
      BY DEF AssignmentSplits
    <2> QED
      BY <1>1, <2>1, Sums, Zenon
  <1>6. \A k \in 1 .. Len(s) : u[k] = s[k]
    BY <1>1
  <1>7. \A t \in ToSet(u) : t = 0 \/ t \in ToSet(s)
    <2>1. \A t \in ToSet(u) : \E k \in DOMAIN u : u[k] = t
      BY <1>2, Elements
    <2>2. DOMAIN u = 1 .. Len(s) + 1
      BY <1>2, Elements
    <2>3. \A k \in 1 .. Len(s) : s[k] \in ToSet(s)
      BY <1>1, Elements
    <2> QED
      BY <1>1, <1>2, <1>6, <2>1, <2>2, <2>3
  <1>8. Len(m.inputs) = 1 => m.to \in FirstInput(m) /\ m.to.kind = "memory"
    <2> SUFFICES ASSUME Len(m.inputs) = 1 PROVE m.to \in FirstInput(m) /\ m.to.kind = "memory"
      OBVIOUS
    <2>1. m.to = At(1, slot)
      BY <1>1, <1>2, <1>4
    <2> QED
      BY <2>1 DEF FirstInput, At
  <1>9. AssignmentSplits(m)
    <2>1. Len(m.inputs) = 1 \/ Len(m.inputs) > 1
      BY <1>2, <1>4, <1>5
    <2> QED
      BY <1>8, <2>1 DEF AssignmentSplits, InParentheses
  <1>10. \A k, l \in DOMAIN u : k # l /\ u[k] = u[l] => u[k] = 0
    <2>1. DOMAIN u = 1 .. Len(s) + 1
      BY <1>2, Elements
    <2> QED
      BY <1>2, <1>5, <2>1
  <1>11. Fits(m)
    <2>1. 0 < FirstNew /\ 0 \in Machine \cup {FP}
      BY FirstNewIsNatural DEF FP
    <2> QED
      BY <1>4, <1>8, <1>9, <1>10, <2>1 DEF Fits
  <1>12. RegistersOf(m) \subseteq 0 .. top
    BY <1>0, <1>4, <1>7 DEF RegistersOf
  <1>13. \A t \in ToSet(m.inputs) : t >= FirstNew => t = loaded \/ (Names(i.inputs, t) /\ t # reg)
    BY <1>4, <1>7, FirstNewIsNatural DEF Becomes
  <1>14. Becomes(m, i, reg, loaded, top)
    BY <1>4, <1>11, <1>12, <1>13 DEF Becomes
  <1> QED
    BY <1>14 DEF m

LEMMA AssignmentReplacedIs ==
  ASSUME NEW i, NEW b, NEW reg, NEW top \in Nat, Becomes(b, i, reg, 0, top), Names(b.outputs, reg),
         NEW temp \in Nat, temp <= top, FirstNew <= temp, NEW slot \in Int
  PROVE  Replaces(AssignmentReplaced(b, reg, slot, temp), i, reg, top)
  <1>1. CASE AssignmentSplits(b)
    <2> DEFINE m == [b EXCEPT !.outputs = [k \in DOMAIN @ |-> IF @[k] = reg THEN temp ELSE @[k]]]
    <2>1. Becomes(m, i, reg, 0, top) /\ Names(m.outputs, temp)
      BY <1>1, StoredOutputs
    <2>2. AssignmentReplaced(b, reg, slot, temp) = <<m, Store(temp, slot)>>
      BY <1>1 DEF AssignmentReplaced
    <2> HIDE DEF m
    <2> QED
      BY <2>1, <2>2, BeforeStore
  <1>2. CASE ~ AssignmentSplits(b)
    <2> DEFINE m == [b EXCEPT !.inputs = InputsWithFrame(b), !.move = FALSE,
                              !.to = At(Len(b.inputs) + 1, slot)]
    <2>1. Becomes(m, i, reg, 0, top)
      BY <1>2, FrameOutput
    <2>2. AssignmentReplaced(b, reg, slot, temp) = <<m>>
      BY <1>2 DEF AssignmentReplaced
    <2> HIDE DEF m
    <2> QED
      BY <2>1, <2>2, Alone
  <1> QED
    BY <1>1, <1>2

LEMMA OneMore ==
  ASSUME NEW S, NEW a \in S, NEW b \in S, NEW c \in S
  PROVE  <<a>> \o <<b>> = <<a, b>> /\ <<a>> \o <<b, c>> = <<a, b, c>>
  <1>1. <<a>> \in Seq(S) /\ <<b>> \in Seq(S) /\ <<b, c>> \in Seq(S)
        /\ <<a, b>> \in Seq(S) /\ <<a, b, c>> \in Seq(S)
    OBVIOUS
  <1>2. /\ Len(<<a>>) = 1 /\ Len(<<b>>) = 1 /\ Len(<<b, c>>) = 2
        /\ <<a>>[1] = a /\ <<b>>[1] = b /\ <<b, c>>[1] = b /\ <<b, c>>[2] = c
    OBVIOUS
  <1>3. /\ Len(<<a, b>>) = 2 /\ Len(<<a, b, c>>) = 3
        /\ <<a, b>>[1] = a /\ <<a, b>>[2] = b
        /\ <<a, b, c>>[1] = a /\ <<a, b, c>>[2] = b /\ <<a, b, c>>[3] = c
    OBVIOUS
  <1> PICK x : x = <<a>> OBVIOUS
  <1> PICK y : y = <<b>> OBVIOUS
  <1> PICK z : z = <<b, c>> OBVIOUS
  <1> PICK xy : xy = <<a, b>> OBVIOUS
  <1> PICK xz : xz = <<a, b, c>> OBVIOUS
  <1>4. x \o y = xy
    <2>1. x \o y \in Seq(S) /\ Len(x \o y) = 2 /\ (x \o y)[1] = a /\ (x \o y)[2] = b
      BY <1>1, <1>2, ConcatProperties
    <2>2. \A k \in 1 .. 2 : k = 1 \/ k = 2
      OBVIOUS
    <2>3. \A k \in 1 .. 2 : (x \o y)[k] = xy[k]
      BY <1>3, <2>1, <2>2
    <2> QED
      BY <1>1, <1>3, <2>1, <2>3, SeqEqual
  <1>5. x \o z = xz
    <2>1. /\ x \o z \in Seq(S) /\ Len(x \o z) = 3
          /\ (x \o z)[1] = a /\ (x \o z)[2] = b /\ (x \o z)[3] = c
      BY <1>1, <1>2, ConcatProperties
    <2>2. \A k \in 1 .. 3 : k = 1 \/ k = 2 \/ k = 3
      OBVIOUS
    <2>3. \A k \in 1 .. 3 : (x \o z)[k] = xz[k]
      BY <1>3, <2>1, <2>2
    <2> QED
      BY <1>1, <1>3, <2>1, <2>3, SeqEqual
  <1> QED
    BY <1>4, <1>5

LEMMA BothReplacedIs ==
  ASSUME NEW i \in InstructionType, Fits(i), NEW temp \in Nat, FirstNew <= temp,
         RegistersOf(i) \subseteq 0 .. temp - 1, NEW slot \in Int,
         NEW reg, reg \notin Machine \cup {FP}, Names(i.outputs, reg)
  PROVE  Replaces(BothReplaced(i, reg, slot, temp, temp + 1), i, reg, temp + 1)
  <1> DEFINE b == [i EXCEPT !.inputs = [k \in DOMAIN @ |-> IF @[k] = reg THEN temp ELSE @[k]]]
  <1> PICK temp2 \in Nat : temp2 = temp + 1
    OBVIOUS
  <1>1. temp <= temp2 /\ temp2 <= temp2 /\ FirstNew <= temp2
    BY FirstNewIsNatural
  <1>2. Becomes(b, i, reg, temp, temp2)
    BY <1>1, LoadedInputs
  <1>3. b.outputs = i.outputs
    BY DEF InstructionType
  <1>4. BothReplaced(i, reg, slot, temp, temp2) =
          <<Load(temp, slot)>> \o AssignmentReplaced(b, reg, slot, temp2)
    BY DEF BothReplaced
  <1> HIDE DEF b
  <1>a. Load(temp, slot) \in InstructionType /\ Store(temp2, slot) \in InstructionType
    BY <1>1, LoadIs, StoreIs
  <1>5. CASE AssignmentSplits(b)
    <2> DEFINE m == [b EXCEPT !.outputs = [k \in DOMAIN @ |-> IF @[k] = reg THEN temp2 ELSE @[k]]]
    <2>1. Becomes(m, i, reg, temp, temp2) /\ Names(m.outputs, temp2)
      BY <1>1, <1>2, <1>3, <1>5, StoredOutputs
    <2>2. AssignmentReplaced(b, reg, slot, temp2) = <<m, Store(temp2, slot)>>
      BY <1>5 DEF AssignmentReplaced
    <2> HIDE DEF m
    <2>a. m \in InstructionType
      BY <2>1 DEF Becomes
    <2>b. <<Load(temp, slot)>> \o <<m, Store(temp2, slot)>> = <<Load(temp, slot), m, Store(temp2, slot)>>
      BY <1>a, <2>a, OneMore
    <2>3. BothReplaced(i, reg, slot, temp, temp2) = <<Load(temp, slot), m, Store(temp2, slot)>>
      BY <1>4, <2>2, <2>b, Zenon
    <2>4. Replaces(<<Load(temp, slot), m, Store(temp2, slot)>>, i, reg, temp2)
      BY <1>1, <2>1, Between
    <2> QED
      BY <2>3, <2>4
  <1>6. CASE ~ AssignmentSplits(b)
    <2> DEFINE m == [b EXCEPT !.inputs = InputsWithFrame(b), !.move = FALSE,
                              !.to = At(Len(b.inputs) + 1, slot)]
    <2>1. Becomes(m, i, reg, temp, temp2)
      BY <1>2, <1>6, FrameOutput
    <2>2. AssignmentReplaced(b, reg, slot, temp2) = <<m>>
      BY <1>6 DEF AssignmentReplaced
    <2> HIDE DEF m
    <2>a. m \in InstructionType
      BY <2>1 DEF Becomes
    <2>b. <<Load(temp, slot)>> \o <<m>> = <<Load(temp, slot), m>>
      BY <1>a, <2>a, OneMore
    <2>3. BothReplaced(i, reg, slot, temp, temp2) = <<Load(temp, slot), m>>
      BY <1>4, <2>2, <2>b, Zenon
    <2>4. Replaces(<<Load(temp, slot), m>>, i, reg, temp2)
      BY <1>1, <2>1, AfterLoad
    <2> QED
      BY <2>3, <2>4
  <1> QED
    BY <1>5, <1>6

LEMMA UsageReplacedIs ==
  ASSUME NEW i \in InstructionType, Fits(i), NEW temp \in Nat, FirstNew <= temp,
         RegistersOf(i) \subseteq 0 .. temp - 1, NEW slot \in Int,
         NEW reg, Names(i.inputs, reg), ~ Names(i.outputs, reg), NEW top \in Nat, temp <= top
  PROVE  Replaces(UsageReplaced(i, reg, slot, temp), i, reg, top)
  <1>1. CASE UsageSplits(i, reg)
    <2> DEFINE m == [i EXCEPT !.inputs[FirstNamed(i, reg)] = temp]
    <2>1. Becomes(m, i, reg, temp, top)
      BY LoadedInput
    <2>2. UsageReplaced(i, reg, slot, temp) = <<Load(temp, slot), m>>
      BY <1>1 DEF UsageReplaced
    <2> HIDE DEF m
    <2> QED
      BY <2>1, <2>2, AfterLoad
  <1>2. CASE ~ UsageSplits(i, reg)
    <2> DEFINE m == [i EXCEPT !.inputs = <<FP>>, !.from = At(1, slot), !.move = FALSE]
    <2>1. Becomes(m, i, reg, 0, top)
      BY FrameInput
    <2>2. UsageReplaced(i, reg, slot, temp) = <<m>>
      BY <1>2 DEF UsageReplaced
    <2> HIDE DEF m
    <2> QED
      BY <2>1, <2>2, Alone
  <1> QED
    BY <1>1, <1>2

LEMMA UnnamedIs ==
  ASSUME NEW i \in InstructionType, Fits(i), NEW temp \in Nat, NEW top \in Nat, temp <= top,
         RegistersOf(i) \subseteq 0 .. temp - 1, NEW reg, ~ Names(i.inputs, reg)
  PROVE  Becomes(i, i, reg, 0, top)
  <1>1. RegistersOf(i) \subseteq 0 .. top
    OBVIOUS
  <1> QED
    BY <1>1 DEF Becomes, Names

(* Whatever the instruction, spilling makes of it instructions that replace it. *)
LEMMA RewrittenReplaces ==
  ASSUME NEW i \in InstructionType, Fits(i), NEW temp \in Nat, FirstNew <= temp,
         RegistersOf(i) \subseteq 0 .. temp - 1, NEW slot \in Int,
         NEW reg, reg \notin Machine \cup {FP}
  PROVE  Replaces(Rewritten(i, reg, slot, temp), i, reg, temp + 1)
  <1> PICK top \in Nat : top = temp + 1
    OBVIOUS
  <1>1. temp <= top
    OBVIOUS
  <1>2. CASE Names(i.inputs, reg) /\ Names(i.outputs, reg)
    BY <1>2, BothReplacedIs DEF Rewritten
  <1>3. CASE Names(i.inputs, reg) /\ ~ Names(i.outputs, reg)
    BY <1>1, <1>3, UsageReplacedIs DEF Rewritten
  <1>4. CASE ~ Names(i.inputs, reg) /\ Names(i.outputs, reg)
    <2>1. Becomes(i, i, reg, 0, top)
      BY <1>1, <1>4, UnnamedIs
    <2>2. Replaces(AssignmentReplaced(i, reg, slot, temp), i, reg, top)
      BY <1>1, <1>4, <2>1, AssignmentReplacedIs
    <2> QED
      BY <1>4, <2>2 DEF Rewritten
  <1>5. CASE ~ Names(i.inputs, reg) /\ ~ Names(i.outputs, reg)
    <2>1. Becomes(i, i, reg, 0, top)
      BY <1>1, <1>5, UnnamedIs
    <2>2. Replaces(<<i>>, i, reg, top)
      BY <2>1, Alone
    <2> QED
      BY <1>5, <2>2 DEF Rewritten
  <1> QED
    BY <1>2, <1>3, <1>4, <1>5

LEMMA AssertsOfOne ==
  ASSUME NEW i \in InstructionType, Fits(i), NEW reg, reg \notin Machine
  PROVE  ~ RewriteAssertFails(i, reg)
  <1>1. Names(i.outputs, reg) => AssignmentSplits(i) \/ i.to = Out(1)
    BY DEF Fits, Names
  <1> QED
    BY <1>1 DEF RewriteAssertFails, Fits

------------------------------------------------------------------------------
(* What becomes of the code. *)

(****************************************************************************)
(* Code with registers below n, all of whose instructions can be rewritten. *)
(* A register that is not of the sources is read where it has been          *)
(* assigned, with nothing but inserted instructions in between.             *)
(****************************************************************************)
Sound(c, n) ==
  /\ c \in Seq(InstructionType) /\ n \in Nat /\ FirstNew <= n
  /\ \A p \in 1 .. Len(c) : Fits(c[p]) /\ RegistersOf(c[p]) \subseteq 0 .. n - 1
  /\ \A p \in 1 .. Len(c) : \A t \in ToSet(c[p].inputs) : t >= FirstNew => SetBefore(c, p, t)

(* The instructions s[p], len[p] of them, have taken the place of instruction p, from off[p] on. *)
Grouped(m, size, s, off, len, flat) ==
  /\ m \in Nat /\ size \in Nat
  /\ \A p \in 1 .. m : off[p] \in Nat /\ len[p] \in Nat
  /\ \A q \in 1 .. size : \E p \in 1 .. m : \E j \in 1 .. len[p] : q = off[p] + j
  /\ \A p, r \in 1 .. m : p < r => off[p] + len[p] <= off[r]
  /\ \A p \in 1 .. m : \A j \in 1 .. len[p] :
       off[p] + j \in 1 .. size /\ flat[off[p] + j] = s[p][j]

(* What an instruction of c assigns to t is there after those that replace it. *)
CarryOver(m, c, s, len, t) ==
  /\ \A p \in 1 .. m : c[p].of = 0 => \A j \in 1 .. len[p] : s[p][j].of = 0
  /\ \A p \in 1 .. m : Names(c[p].outputs, t) =>
       \E j \in 1 .. len[p] : Names(s[p][j].outputs, t) /\ \A k \in j + 1 .. len[p] : s[p][k].of = 0

LEMMA SetBeforeJoined ==
  ASSUME NEW m, NEW size, NEW c, NEW s, NEW flat, NEW t, NEW off, NEW len,
         Grouped(m, size, s, off, len, flat),
         NEW p \in 1 .. m, NEW j \in 1 .. len[p],
         \/ SetBefore(s[p], j, t)
         \/ CarryOver(m, c, s, len, t) /\ SetBefore(c, p, t) /\ \A k \in 1 .. j - 1 : s[p][k].of = 0
  PROVE  SetBefore(flat, off[p] + j, t)
  <1>1. /\ m \in Nat /\ size \in Nat
        /\ \A r \in 1 .. m : off[r] \in Nat /\ len[r] \in Nat
        /\ \A q \in 1 .. size : \E r \in 1 .. m : \E k \in 1 .. len[r] : q = off[r] + k
        /\ \A x, r \in 1 .. m : x < r => off[x] + len[x] <= off[r]
        /\ \A r \in 1 .. m : \A k \in 1 .. len[r] :
             off[r] + k \in 1 .. size /\ flat[off[r] + k] = s[r][k]
    BY DEF Grouped
  <1> USE <1>1
  <1> PICK q \in 1 .. size : q = off[p] + j
    OBVIOUS
  <1> PICK a \in Nat : a = off[p]
    OBVIOUS
  <1> PICK l \in Nat : l = len[p]
    OBVIOUS
  <1>3. CASE SetBefore(s[p], j, t)
    <2> PICK w \in 1 .. j - 1 : Names(s[p][w].outputs, t) /\ \A k \in w + 1 .. j - 1 : s[p][k].of = 0
      BY <1>3 DEF SetBefore
    <2>1. w \in 1 .. l /\ a + w \in 1 .. q - 1
      OBVIOUS
    <2>2. flat[a + w] = s[p][w]
      BY <2>1
    <2>3. ASSUME NEW k \in a + w + 1 .. q - 1
          PROVE  flat[k].of = 0
      <3>1. k - a \in w + 1 .. j - 1 /\ k - a \in 1 .. l /\ k = a + (k - a)
        OBVIOUS
      <3>2. flat[k] = s[p][k - a]
        BY <3>1
      <3> QED
        BY <3>1, <3>2
    <2> QED
      BY <2>1, <2>2, <2>3 DEF SetBefore
  <1>4. CASE CarryOver(m, c, s, len, t) /\ SetBefore(c, p, t) /\ \A k \in 1 .. j - 1 : s[p][k].of = 0
    <2> PICK w \in 1 .. p - 1 : Names(c[w].outputs, t) /\ \A k \in w + 1 .. p - 1 : c[k].of = 0
      BY <1>4 DEF SetBefore
    <2>2. w \in 1 .. m /\ w < p
      OBVIOUS
    <2> PICK b \in Nat, lw \in Nat : b = off[w] /\ lw = len[w]
      BY <2>2
    <2> PICK jw \in 1 .. lw : Names(s[w][jw].outputs, t) /\ \A k \in jw + 1 .. lw : s[w][k].of = 0
      BY <1>4, <2>2 DEF CarryOver
    <2>3. b + lw <= a /\ b + jw \in 1 .. q - 1
      <3>1. off[w] + len[w] <= off[p]
        BY <2>2
      <3> QED
        BY <3>1
    <2>4. flat[b + jw] = s[w][jw]
      BY <2>2
    <2>5. ASSUME NEW k \in b + jw + 1 .. q - 1
          PROVE  flat[k].of = 0
      <3>1. k \in 1 .. size
        OBVIOUS
      <3> PICK x \in 1 .. m : \E y \in 1 .. len[x] : k = off[x] + y
        BY <3>1
      <3> PICK y \in 1 .. len[x] : k = off[x] + y
        OBVIOUS
      <3> PICK e \in Nat, lx \in Nat : e = off[x] /\ lx = len[x]
        OBVIOUS
      <3>2. flat[k] = s[x][y]
        OBVIOUS
      <3>3. x <= p
        <4> SUFFICES ASSUME p < x PROVE FALSE
          OBVIOUS
        <4>1. a + l <= e
          OBVIOUS
        <4> QED
          BY <4>1
      <3>4. w <= x
        <4> SUFFICES ASSUME x < w PROVE FALSE
          OBVIOUS
        <4>1. e + lx <= b
          BY <2>2
        <4> QED
          BY <4>1
      <3>5. CASE x = p
        <4>1. y \in 1 .. j - 1
          BY <3>5
        <4> QED
          BY <1>4, <3>2, <3>5, <4>1
      <3>6. CASE x = w
        <4>1. y \in jw + 1 .. lw
          BY <3>6
        <4> QED
          BY <3>2, <3>6, <4>1
      <3>7. CASE x # p /\ x # w
        <4>1. x \in w + 1 .. p - 1
          BY <3>3, <3>4, <3>7
        <4>2. c[x].of = 0
          BY <4>1
        <4>3. s[x][y].of = 0
          BY <1>4, <4>2 DEF CarryOver
        <4> QED
          BY <3>2, <4>3
      <3> QED
        BY <3>5, <3>6, <3>7
    <2> QED
      BY <2>3, <2>4, <2>5 DEF SetBefore
  <1> QED
    BY <1>3, <1>4

LEMMA SpillKeepsSound ==
  ASSUME NEW c, NEW n, Sound(c, n), NEW slot \in Int, NEW reg, reg \notin Machine \cup {FP}
  PROVE  Sound(FlattenSeq([p \in DOMAIN c |-> Rewritten(c[p], reg, slot, n + 2 * p)]),
               n + 2 * Len(c) + 2)
  <1> PICK m \in Nat : m = Len(c) /\ DOMAIN c = 1 .. m /\ \A p \in 1 .. m : c[p] \in InstructionType
    BY DEF Sound
  <1> DEFINE s == [p \in DOMAIN c |-> Rewritten(c[p], reg, slot, n + 2 * p)]
             top == n + 2 * Len(c) + 1
  <1>1. ASSUME NEW p \in 1 .. m
        PROVE  Replaces(s[p], c[p], reg, n + 2 * p + 1)
    <2> PICK temp : temp = n + 2 * p
      OBVIOUS
    <2>1. /\ n \in Nat /\ FirstNew <= n /\ c[p] \in InstructionType
          /\ Fits(c[p]) /\ RegistersOf(c[p]) \subseteq 0 .. n - 1
      BY DEF Sound
    <2>2. temp \in Nat /\ FirstNew <= temp
      BY <2>1, FirstNewIsNatural
    <2>3. 0 .. n - 1 \subseteq 0 .. temp - 1
      BY <2>1
    <2>4. RegistersOf(c[p]) \subseteq 0 .. temp - 1
      BY <2>1, <2>3
    <2>5. Replaces(Rewritten(c[p], reg, slot, temp), c[p], reg, temp + 1)
      BY <2>1, <2>2, <2>4, RewrittenReplaces
    <2> QED
      BY <2>5
  <1>2. s \in Seq(Seq(InstructionType)) /\ Len(s) = m
    <2>1. \A p \in 1 .. m : s[p] \in Seq(InstructionType)
      BY <1>1 DEF Replaces
    <2>2. s \in [1 .. m -> Seq(InstructionType)]
      <3>1. DOMAIN s = 1 .. m /\ s = [p \in 1 .. m |-> s[p]]
        OBVIOUS
      <3> HIDE DEF s
      <3> QED
        BY <2>1, <3>1
    <2> HIDE DEF s
    <2>3. s \in Seq(Seq(InstructionType))
      BY <2>2
    <2>4. DOMAIN s = 1 .. m
      BY <2>2
    <2> QED
      BY <2>3, <2>4
  <1> PICK flat : flat = FlattenSeq(s)
    OBVIOUS
  <1> HIDE DEF s
  <1>3. flat \in Seq(InstructionType) /\ \E off : Joined(s, flat, off)
    BY <1>2, Joins
  <1> PICK off : Joined(s, flat, off)
    BY <1>3
  <1>4. /\ \A q \in 1 .. Len(flat) : \E p \in 1 .. m : \E j \in 1 .. Len(s[p]) : q = off[p] + j
        /\ \A p, r \in 1 .. m : p < r => off[p] + Len(s[p]) <= off[r]
        /\ \A p \in 1 .. m : \A j \in 1 .. Len(s[p]) : off[p] + j \in 1 .. Len(flat)
    <2>1. Located(s, flat, off)
      BY <1>2, <1>3, Places
    <2> QED
      BY <1>2, <2>1 DEF Located
  <1>5. /\ \A p \in 1 .. m : off[p] \in Nat
        /\ \A p \in 1 .. m : \A j \in 1 .. Len(s[p]) : flat[off[p] + j] = s[p][j]
    BY <1>2 DEF Joined
  <1>6. \A p \in 1 .. m : Len(s[p]) \in Nat
    <2>1. \A p \in 1 .. m : s[p] \in Seq(InstructionType)
      BY <1>1 DEF Replaces
    <2> QED
      BY <2>1
  <1>7. n \in Nat /\ FirstNew <= n /\ m \in Nat /\ n + 2 * m + 2 \in Nat /\ FirstNew <= n + 2 * m + 2
    BY FirstNewIsNatural DEF Sound
  <1> PICK len : len = [p \in 1 .. m |-> Len(s[p])]
    OBVIOUS
  <1>a. \A p \in 1 .. m : len[p] = Len(s[p])
    OBVIOUS
  <1>b. Grouped(m, Len(flat), s, off, len, flat)
    <2>1. /\ \A p \in 1 .. m : off[p] \in Nat /\ len[p] \in Nat
          /\ \A q \in 1 .. Len(flat) : \E p \in 1 .. m : \E j \in 1 .. len[p] : q = off[p] + j
          /\ \A p, r \in 1 .. m : p < r => off[p] + len[p] <= off[r]
          /\ \A p \in 1 .. m : \A j \in 1 .. len[p] :
               off[p] + j \in 1 .. Len(flat) /\ flat[off[p] + j] = s[p][j]
      BY <1>4, <1>5, <1>6, <1>a
    <2>2. Len(flat) \in Nat
      BY <1>3
    <2> QED
      BY <2>1, <2>2 DEF Grouped
  <1>8. ASSUME NEW q \in 1 .. Len(flat)
        PROVE  Fits(flat[q]) /\ RegistersOf(flat[q]) \subseteq 0 .. n + 2 * m + 2 - 1
    <2> PICK p \in 1 .. m : \E j \in 1 .. Len(s[p]) : q = off[p] + j
      BY <1>4
    <2> PICK j \in 1 .. Len(s[p]) : q = off[p] + j
      OBVIOUS
    <2>1. flat[q] = s[p][j]
      BY <1>5
    <2>2. Fits(s[p][j]) /\ RegistersOf(s[p][j]) \subseteq 0 .. n + 2 * p + 1
      BY <1>1 DEF Replaces
    <2>3. 0 .. n + 2 * p + 1 \subseteq 0 .. n + 2 * m + 2 - 1
      BY <1>7
    <2> QED
      BY <2>1, <2>2, <2>3
  <1>9. ASSUME NEW q \in 1 .. Len(flat), NEW t \in ToSet(flat[q].inputs), t >= FirstNew
        PROVE  SetBefore(flat, q, t)
    <2> PICK p \in 1 .. m : \E j \in 1 .. Len(s[p]) : q = off[p] + j
      BY <1>4
    <2> PICK j \in 1 .. Len(s[p]) : q = off[p] + j
      OBVIOUS
    <2>1. flat[q] = s[p][j]
      BY <1>5
    <2>2. \/ SetBefore(s[p], j, t)
          \/ /\ Names(c[p].inputs, t) /\ t # reg
             /\ \A k \in 1 .. j - 1 : s[p][k].of = 0
      BY <1>1, <1>9, <2>1 DEF Replaces
    <2>3. CASE SetBefore(s[p], j, t)
      <3>1. j \in 1 .. len[p]
        BY <1>a
      <3>2. SetBefore(flat, off[p] + j, t)
        BY <1>b, <2>3, <3>1, SetBeforeJoined
      <3> QED
        BY <3>2
    <2>4. CASE Names(c[p].inputs, t) /\ t # reg /\ \A k \in 1 .. j - 1 : s[p][k].of = 0
      <3>1. j \in 1 .. len[p]
        BY <1>a
      <3>2. SetBefore(c, p, t)
        BY <1>9, <2>4 DEF Sound, Names
      <3>3. ASSUME NEW x \in 1 .. m, c[x].of = 0, NEW y \in 1 .. len[x]
            PROVE  s[x][y].of = 0
        <4>1. y \in 1 .. Len(s[x])
          BY <1>a
        <4>2. Replaces(s[x], c[x], reg, n + 2 * x + 1)
          BY <1>1
        <4> QED
          BY <3>3, <4>1, <4>2 DEF Replaces
      <3>4. ASSUME NEW x \in 1 .. m, Names(c[x].outputs, t)
            PROVE  \E y \in 1 .. len[x] : /\ Names(s[x][y].outputs, t)
                                         /\ \A k \in y + 1 .. len[x] : s[x][k].of = 0
        <4>1. Replaces(s[x], c[x], reg, n + 2 * x + 1)
          BY <1>1
        <4>2. t \in ToSet(c[x].outputs) \ {reg}
          BY <2>4, <3>4 DEF Names
        <4>3. \E y \in 1 .. Len(s[x]) : /\ Names(s[x][y].outputs, t)
                                       /\ \A k \in y + 1 .. Len(s[x]) : s[x][k].of = 0
          BY <4>1, <4>2, Zenon DEF Replaces
        <4>4. len[x] = Len(s[x])
          BY <1>a
        <4> QED
          BY <4>3, <4>4, Zenon
      <3>5. CarryOver(m, c, s, len, t)
        BY <3>3, <3>4 DEF CarryOver
      <3>6. SetBefore(flat, off[p] + j, t)
        BY <1>b, <2>4, <3>1, <3>2, <3>5, SetBeforeJoined
      <3> QED
        BY <3>6
    <2> QED
      BY <2>2, <2>3, <2>4
  <1>10. Sound(flat, n + 2 * m + 2)
    BY <1>3, <1>7, <1>8, <1>9 DEF Sound
  <1> QED
    BY <1>10 DEF s

------------------------------------------------------------------------------
(* The invariant. *)

SpillInv == Sound(code, next_register) /\ slots \in Nat /\ pc # "rewrite_assert"

LEMMA InitSound == Init => SpillInv
  <1> SUFFICES ASSUME Init PROVE SpillInv
    OBVIOUS
  <1>1. /\ source \in Seq(InstructionType)
        /\ \A p \in DOMAIN source :
             /\ Fits(source[p])
             /\ ToSet(source[p].inputs) \cup ToSet(source[p].outputs) \subseteq 0 .. FirstNew - 1
    BY SourceAssumption DEF Init
  <1> PICK m \in Nat : m = Len(source) /\ DOMAIN source = 1 .. m
                       /\ \A p \in 1 .. m : source[p] \in InstructionType
    BY <1>1
  <1> PICK c : c = [p \in 1 .. m |-> [source[p] EXCEPT !.of = p]]
    OBVIOUS
  <1>2. code = c /\ next_register = FirstNew /\ slots = 0 /\ pc = "spill"
    BY DEF Init
  <1>3. ASSUME NEW p \in 1 .. m
        PROVE  /\ c[p] \in InstructionType /\ c[p].inputs = source[p].inputs
               /\ c[p].outputs = source[p].outputs /\ c[p].from = source[p].from
               /\ c[p].to = source[p].to
    <2> PICK i \in InstructionType : i = source[p]
      OBVIOUS
    <2>1. c[p] = [i EXCEPT !.of = p] /\ p \in Nat
      OBVIOUS
    <2> PICK d : d = [i EXCEPT !.of = p]
      OBVIOUS
    <2>2. d \in InstructionType
      BY <2>1 DEF InstructionType
    <2>3. d.inputs = i.inputs /\ d.outputs = i.outputs /\ d.from = i.from /\ d.to = i.to
      BY DEF InstructionType
    <2> QED
      BY <2>1, <2>2, <2>3
  <1>4. c \in Seq(InstructionType) /\ Len(c) = m
    <2>1. c \in [1 .. m -> InstructionType]
      <3>1. c = [p \in 1 .. m |-> c[p]]
        OBVIOUS
      <3> QED
        BY <1>3, <3>1, Zenon
    <2>2. DOMAIN c = 1 .. m
      BY <2>1
    <2> QED
      BY <2>1, <2>2
  <1>5. ASSUME NEW p \in 1 .. m
        PROVE  Fits(c[p]) /\ RegistersOf(c[p]) \subseteq 0 .. FirstNew - 1
    <2>1. FirstInput(c[p]) = FirstInput(source[p])
      BY <1>3 DEF FirstInput
    <2>2. InParentheses(c[p]) <=> InParentheses(source[p])
      BY <2>1 DEF InParentheses
    <2>3. AssignmentSplits(c[p]) <=> AssignmentSplits(source[p])
      BY <1>3, <2>2 DEF AssignmentSplits
    <2>4. Fits(source[p])
      BY <1>1
    <2>5. Fits(c[p])
      BY <1>3, <2>1, <2>3, <2>4 DEF Fits
    <2> QED
      BY <1>1, <1>3, <2>5 DEF RegistersOf
  <1>6. ASSUME NEW p \in 1 .. m, NEW t \in ToSet(c[p].inputs)
        PROVE  ~ t >= FirstNew
    <2>1. t \in 0 .. FirstNew - 1
      BY <1>5, <1>6 DEF RegistersOf
    <2> QED
      BY <2>1, FirstNewIsNatural
  <1>7. Sound(c, FirstNew)
    BY <1>4, <1>5, <1>6, FirstNewIsNatural DEF Sound
  <1> QED
    BY <1>2, <1>7 DEF SpillInv

LEMMA SpillStep ==
  ASSUME SpillInv, NEW reg \in Spillable, Spill(reg)
  PROVE  SpillInv'
  <1>1. reg \notin Machine \cup {FP} /\ slots \in Nat /\ Sound(code, next_register)
    BY DEF Spillable, SpillInv
  <1>2. ASSUME NEW p \in DOMAIN code
        PROVE  ~ RewriteAssertFails(code[p], reg)
    <2>1. code[p] \in InstructionType /\ Fits(code[p])
      BY <1>1 DEF Sound
    <2> QED
      BY <1>1, <2>1, AssertsOfOne
  <1>3. /\ code' = FlattenSeq([p \in DOMAIN code |->
                       Rewritten(code[p], reg, NewSlot, next_register + 2 * p)])
        /\ next_register' = next_register + 2 * Len(code) + 2
        /\ slots' = slots + 1 /\ pc' = pc
    BY <1>2 DEF Spill
  <1> PICK slot \in Int : slot = NewSlot
    BY <1>1 DEF NewSlot
  <1>4. Sound(FlattenSeq([p \in DOMAIN code |->
                  Rewritten(code[p], reg, slot, next_register + 2 * p)]),
              next_register + 2 * Len(code) + 2)
    BY <1>1, SpillKeepsSound
  <1>5. Sound(code', next_register')
    BY <1>3, <1>4
  <1> QED
    BY <1>1, <1>3, <1>5 DEF SpillInv

LEMMA StepSound == SpillInv /\ [Next]_vars => SpillInv'
  <1> SUFFICES ASSUME SpillInv, [Next]_vars PROVE SpillInv'
    OBVIOUS
  <1>1. ASSUME NEW reg \in Spillable, Spill(reg) PROVE SpillInv'
    BY <1>1, SpillStep
  <1>2. ASSUME NEW reg \in Spillable, SpillPrespilled(reg) PROVE SpillInv'
    BY <1>2 DEF SpillPrespilled, SpillInv
  <1>3. CASE StartRun
    BY <1>3 DEF StartRun, SpillInv
  <1>4. CASE ExecuteInserted
    BY <1>4 DEF ExecuteInserted, SpillInv
  <1>5. CASE Execute
    BY <1>5 DEF Execute, SpillInv
  <1>6. CASE Stopped \/ UNCHANGED vars
    BY <1>6 DEF Stopped, vars, SpillInv
  <1> QED
    BY <1>1, <1>2, <1>3, <1>4, <1>5, <1>6 DEF Next

LEMMA SoundAlways == Spec => []SpillInv
  BY InitSound, StepSound, PTL DEF Spec

(****************************************************************************)
(* However many registers are spilled, in whatever order, temporaries       *)
(* included, no assert of replaceRegisterUsage or replaceRegisterAssignment *)
(* fails.                                                                   *)
(****************************************************************************)
THEOREM RewritingIsPossible == Spec => []RewriteAssertsHold
  <1>1. SpillInv => RewriteAssertsHold
    BY DEF SpillInv, RewriteAssertsHold
  <1> QED
    BY <1>1, SoundAlways, PTL

(****************************************************************************)
(* A register made by spilling is never live across an instruction of the   *)
(* source: what reads it finds, before any such instruction, the one that   *)
(* assigns it.                                                              *)
(****************************************************************************)
THEOREM TemporariesStayShort == Spec => []TemporariesAreShort
  <1>1. SpillInv => TemporariesAreShort
    <2> SUFFICES ASSUME SpillInv, NEW reg \in RegistersIn(code), reg >= FirstNew,
                        NEW p \in DOMAIN code, IsLiveAfter(code, p, reg)
                 PROVE  code[p].of = 0 \/ Names(code[p].outputs, reg)
      BY DEF TemporariesAreShort
    <2> PICK m \in Nat : m = Len(code) /\ DOMAIN code = 1 .. m
      BY DEF SpillInv, Sound
    <2> PICK q \in p + 1 .. m : /\ Names(code[q].inputs, reg)
                                /\ \A k \in p + 1 .. q - 1 : ~ Names(code[k].outputs, reg)
      BY DEF IsLiveAfter
    <2>1. q \in 1 .. m /\ reg \in ToSet(code[q].inputs)
      BY DEF Names
    <2>2. SetBefore(code, q, reg)
      BY <2>1 DEF SpillInv, Sound
    <2> PICK w \in 1 .. q - 1 : /\ Names(code[w].outputs, reg)
                                /\ \A k \in w + 1 .. q - 1 : code[k].of = 0
      BY <2>2 DEF SetBefore
    <2>3. w <= p
      OBVIOUS
    <2>4. w = p \/ p \in w + 1 .. q - 1
      BY <2>3
    <2> QED
      BY <2>4
  <1> QED
    BY <1>1, SoundAlways, PTL
==============================================================================
