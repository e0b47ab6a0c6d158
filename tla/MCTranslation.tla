--------------------------- MODULE MCTranslation ---------------------------
(***************************************************************************)
(* Programs for Translation: every kind of expression, with every pair of  *)
(* parts out of those that read, change, call, jump or have a value of     *)
(* their own.                                                              *)
(***************************************************************************)
EXTENDS Translation

CONSTANTS StringsBeforeOthers, \* may a string be the first of three arguments?
          PlaceWithStatements  \* may the place that is assigned to take statements to find?

MCGlobals ==
    [x |-> Variable("int", 1), y |-> Variable("int", -8), s |-> Variable("string", 2),
     a |-> Variable("ints", 3), b |-> Variable("others", 4), l |-> Variable("list", 5)]
    @@ [f |-> [kind |-> "function", label |-> <<8, 1>>, type |-> "int", parameters |-> <<"int">>],
        g |-> [kind |-> "function", label |-> <<8, 2>>, type |-> "int",
               parameters |-> <<"int", "int", "int">>],
        h |-> [kind |-> "function", label |-> <<8, 3>>, type |-> "int",
               parameters |-> <<"string", "int", "int">>],
        p |-> [kind |-> "function", label |-> <<8, 4>>, type |-> "void", parameters |-> <<>>]]

Const(value) == [kind |-> "INTVALUE", value |-> value]
Str(value) == [kind |-> "STRINGVALUE", value |-> value]
Id(name) == [kind |-> "IDENTIFIER", name |-> name]
Op(operation, left, right) ==
    [kind |-> "BINARYOP", operation |-> operation, left |-> left, right |-> right]
Seq2(first, second) == [kind |-> "SEQUENCE", content |-> <<first, second>>]
Nil == [kind |-> "NIL"]
Break == [kind |-> "BREAK"]
Empty == [kind |-> "SEQUENCE", content |-> <<>>]
Index(array, index) == [kind |-> "ARRAYINDEXING", array |-> array, index |-> index]
NewArray(length, value) ==
    [kind |-> "ARRAYINSTANTIATION", type |-> "ints", length |-> length, value |-> value]
If(condition, action) == [kind |-> "IF", condition |-> condition, action |-> action]
IfElse(condition, action, elseaction) ==
    [kind |-> "IFELSE", condition |-> condition, action |-> action, elseaction |-> elseaction]
While(condition, action) == [kind |-> "WHILE", condition |-> condition, action |-> action]
For(start, stop, action, place) ==
    [kind |-> "FOR", variable |-> "i", start |-> start, stop |-> stop, action |-> action, place |-> place]
Let(type, value, action) ==
    [kind |-> "SCOPE", action |-> action,
     declarations |-> <<[name |-> "z", type |-> type, value |-> value, place |-> 6]>>]
Field(record, field) == [kind |-> "RECORDFIELD", record |-> record, field |-> field]
CallOf(function, arguments) ==
    [kind |-> "FUNCTIONCALL", function |-> function, arguments |-> arguments]
NewList(head, tail) ==
    [kind |-> "RECORDINSTANTIATION", type |-> "list",
     fieldvalues |-> <<[field |-> "head", value |-> head], [field |-> "tail", value |-> tail]>>]
Assign(to, from) == Op("assign", to, from)

F(argument) == CallOf("f", <<argument>>)

\* Numbers: plain, read, changed, called for, decided, counted.
Plains == {Const(1), Id("x"), Id("y")}
Parts ==
    Plains \cup
    {F(Id("x")), Index(Id("a"), Id("x")), Field(Id("l"), "head"),
     Seq2(Assign(Id("x"), Const(0)), Id("x")),
     Seq2(Assign(Id("y"), F(Const(2))), Op("plus", Id("y"), Id("x"))),
     Seq2(Assign(Index(Id("a"), Const(1)), Const(0)), Const(0)),
     Op("less", Id("x"), Id("y")), Op("less", Str(0), Id("s")), Op("and", F(Const(3)), Op("equal", Id("x"), Const(1))),
     Op("or", Id("y"), F(Const(4))), IfElse(F(Const(5)), Id("x"), Const(0)),
     Let("none", F(Const(6)), <<Assign(Id("x"), Id("z")), Op("minus", Id("z"), Id("y"))>>)}

\* Three arguments: one part of each kind of code.
ArgumentParts ==
    Plains \cup {F(Id("x")), Index(Id("a"), Id("x")), Field(Id("l"), "head"), Op("less", Id("x"), Id("y")),
                 Seq2(Assign(Id("x"), Const(0)), Id("x")),
                 Seq2(Assign(Id("y"), F(Const(2))), Op("plus", Id("y"), Id("x"))),
                 Seq2(Assign(Index(Id("a"), Const(1)), Const(0)), Const(0))}

IsFoundAtOnce(e) == e.kind \in {"INTVALUE", "STRINGVALUE", "NIL", "IDENTIFIER", "ARRAYINDEXING", "RECORDFIELD"}
MayBePlace(e) == PlaceWithStatements \/ IsFoundAtOnce(e)

Loops(e1, e2) ==
    {While(F(e1), Assign(Id("y"), e2)),
     While(Op("less", Id("y"), e1), Assign(Id("y"), Op("plus", Id("y"), Const(1)))),
     While(Const(1), Seq2(Assign(Id("x"), e1), If(e2, Break))),
     For(e1, Const(2), Assign(Id("y"), Op("plus", Id("i"), e2)), 7),
     For(Const(0), e1, If(Op("equal", e2, Id("i")), Break), -16),
     For(Const(0), Const(2), Seq2(While(F(Id("i")), If(e1, Break)), If(e2, Break)), 7)}

Effects(e1, e2) ==
    {Assign(Id("x"), Op("plus", e1, e2)), Assign(Id("y"), Op("minus", e1, e2)),
     Assign(Field(Id("l"), "head"), Op("mul", e1, e2)),
     Assign(Field(Id("l"), "tail"), NewList(e1, Nil)),
     If(e1, Assign(Id("x"), e2)),
     IfElse(Op("equal", e1, e2), CallOf("p", <<>>), Assign(Id("y"), Const(1)))}

ToElements(e1, e2) ==
    IF MayBePlace(e1) THEN {Assign(Index(Id("a"), e1), e2)} ELSE {}

Numbers(e1, e2) ==
    {Op("plus", e1, e2), Op("div", e1, e2), Op("lessequal", e1, e2), Op("and", e1, e2), Op("or", e1, e2),
     IfElse(e1, e2, Id("y")), Seq2(e1, e2), Index(NewArray(Const(2), e1), e2),
     Let("int", e1, <<Assign(Id("z"), Op("plus", Id("z"), Id("x"))), Op("mul", Id("z"), e2)>>),
     Field(NewList(e1, NewList(e2, Nil)), "head"),
     CallOf("g", <<Id("x"), e1, e2>>), CallOf("g", <<e1, Const(9), e2>>),
     CallOf("h", <<Id("s"), e1, e2>>)}

\* The only argument that stays where it is: a label.
WithString(e1, e2) == IF StringsBeforeOthers THEN {CallOf("h", <<Str(0), e1, e2>>)} ELSE {}

AsPrograms(bodies, result, correct) ==
    {[body |-> body, result |-> result, correct |-> correct] : body \in bodies}

WellTyped ==
    UNION {AsPrograms(Numbers(e1, e2) \cup WithString(e1, e2), "int", TRUE)
           \cup AsPrograms(Effects(e1, e2) \cup ToElements(e1, e2), "program", TRUE)
           \cup AsPrograms(Loops(e1, e2), "void", TRUE)
           : e1 \in Parts, e2 \in Parts}
    \cup AsPrograms({CallOf("g", arguments) : arguments \in [1 .. 3 -> ArgumentParts]}, "int", TRUE)

\* Parts that are no numbers, or no values, or are numbers after all.
Odds == {Const(1), Id("s"), Id("a"), Id("b"), Id("l"), Id("u"), Nil, Str(0), CallOf("p", <<>>), Break,
         F(Id("x")), Field(Id("l"), "tail"), NewArray(Const(1), Const(0)),
         IfElse(Id("x"), CallOf("p", <<>>), Const(1)), IfElse(Id("x"), Nil, Id("l"))}

Mixed(e1, e2) ==
    {Op("plus", e1, e2), Op("equal", e1, e2), Op("less", e1, e2), Op("and", e1, e2),
     IfElse(Id("x"), e1, e2), Seq2(e1, e2), Index(e1, e2), NewArray(e1, e2),
     Seq2(Assign(Id("a"), e1), Op("plus", Index(Id("a"), Const(0)), Const(1))),
     Seq2(Assign(Id("l"), e1), Field(Id("l"), "tail")),
     NewList(e1, e2), CallOf("h", <<e1, Const(1), e2>>), CallOf("f", <<e1, e2>>),
     While(Id("y"), e1), If(Id("x"), e1), If(e1, e2), While(F(Const(0)), If(e1, e2)),
     For(e1, e2, CallOf("p", <<>>), 7), For(Const(0), Const(1), e1, 7),
     For(Const(0), Const(1), Assign(Id("i"), e1), 7),
     Let("list", e1, <<Assign(Id("z"), e2)>>), Let("none", e1, <<Op("equal", Id("z"), e2)>>),
     Let("string", Str(1), <<e1>>), While(F(Const(0)), Let("int", Const(1), <<e1>>)),
     Field(e1, "head"), Field(e1, "none")}
    \cup IF MayBePlace(e1)
         THEN {Assign(Index(e1, Const(0)), e2), Assign(Field(e1, "tail"), e2)} ELSE {}

Untyped ==
    UNION {AsPrograms(Mixed(e1, e2), "program", FALSE) : e1 \in Odds, e2 \in Odds}

MCPrograms == WellTyped \cup Untyped

\* What f and the others return, in order; 0 when there is no more.
MCInputs == {<<>>, <<1>>, <<1, 0, 1>>, <<0, 1, 1>>}
=============================================================================
