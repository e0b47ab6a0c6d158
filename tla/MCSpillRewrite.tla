---------------------------- MODULE MCSpillRewrite ----------------------------
(****************************************************************************)
(* Spilling in the code of every template: two registers are set, the       *)
(* template combines them, and all three are compared.                      *)
(****************************************************************************)
EXTENDS SpillRewrite

MCMachine == 1 .. 5
MCRAX == 1
MCRDX == 2
MCArguments == <<3, 4>>
MCLink == 5
MCCallerSaved == <<1, 3, 4>>
MCFirstNew == 20
MCPrespilled == {10}
X == 6
Y == 7
Value == 8
Tmp == 9

Regs == {X, Y}
Right == {Number} \cup {Reg(r) : r \in Regs} \cup {Mem(r) : r \in Regs}

Pieces ==
  {Yield(e, r) : e \in Right, r \in {X, Value}}
    \cup {Plus(l, e, Value) : l \in Right, e \in Right}
    \cup {Plus(Reg(X), e, X) : e \in {Number, Reg(Y)}}
    \cup {Mul(Reg(X), e, Value, Tmp) : e \in Right}
    \cup {Div(Reg(X), e, Value, Tmp) : e \in Right}
    \cup {Lea(r, v) : r \in Regs, v \in {X, Value}}
    \cup {StoreTo(e, Mem(r)) : e \in {Number, Reg(X), Reg(Y)}, r \in Regs}
    \cup {CondJump(l, e) : l \in Right \ {Number}, e \in Right}
    \cup {Call(<<X, Y>> \o s, NoParent, Value) : s \in {<<>>, <<X>>, <<X, Y>>}}

Around(piece) ==
  Yield(Number, X) \o Yield(Number, Y) \o piece \o CondJump(Reg(X), Reg(Y))
    \o (IF \E k \in DOMAIN piece : Names(piece[k].outputs, Value)
        THEN CondJump(Reg(Value), Reg(Y)) ELSE <<>>)

MCSources ==
  {Around(piece) : piece \in Pieces}
    \cup {ParentFrame(10) \o Yield(Mem(10), X) \o Yield(Mem(10), Y) \o CondJump(Reg(X), Reg(Y))}
==============================================================================
