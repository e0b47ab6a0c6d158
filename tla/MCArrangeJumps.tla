---------------------------- MODULE MCArrangeJumps ----------------------------
(****************************************************************************)
(* arrangeJumps on the code of every program of nested control structures,  *)
(* two levels deep.                                                         *)
(****************************************************************************)
EXTENDS ControlFlow

Leaf(kind) == [kind |-> kind]

Simple == {Leaf("operation")}

If(S) == [kind : {"if"}, condition : Conditions, action : S]
IfElse(S, T) == [kind : {"ifelse"}, condition : Conditions, action : S, elseaction : T]
Loops(S) == [kind : {"while"}, condition : Conditions, action : S]
              \cup [kind : {"for"}, action : S]
Sequence(S, T) == [kind : {"sequence"}, action : S, elseaction : T]

(* In a loop there are breaks. *)
InLoop0 == Simple \cup {Leaf("break")}
InLoop1 == InLoop0 \cup If(InLoop0) \cup IfElse(InLoop0, InLoop0) \cup Loops(Simple)
             \cup Sequence(InLoop0, InLoop0)

Outside1 == {Leaf("operation"), Leaf("comparison")} \cup If(Simple) \cup IfElse(Simple, Simple) \cup Loops(InLoop0)

Programs ==
  If(Outside1) \cup IfElse(Outside1, Outside1) \cup Loops(InLoop1) \cup Sequence(Outside1, Outside1)

MCSources == {Translated(t, 1, 0).code : t \in Programs}
MCFirstNew == 40
MCOperations == 1 .. 39
==============================================================================
