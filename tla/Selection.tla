----------------------------- MODULE Selection -----------------------------
(***************************************************************************)
(* Instruction selection (assembler.cpp): a statement or an expression is  *)
(* covered by the template that takes in most nodes of its tree; what the  *)
(* template wants in a register is translated on its own, into a new one.  *)
(* The instructions themselves are those of Templates, with the offset of  *)
(* an address in place of a slot of the frame.  A register that is made    *)
(* for a part has its name from the place of the part, "path".             *)
(***************************************************************************)
EXTENDS IRTrees

\* %rdx is also the third argument register.  The two may be kept apart: the
\* arguments are moved to their registers when all parts have been computed.
RAX == <<30, 0>>
RDX == <<30, 1>>
Arguments == [k \in 1 .. 6 |-> <<31, k>>]
Link == <<30, 2>>
CallerSaved == <<RAX>> \o Arguments \o <<Link, <<30, 3>>>>

T == INSTANCE Templates

\* What is made of a value that is worked out once.
Given(value, Make(_)) == Make(value)

-----------------------------------------------------------------------------
(* The templates: what the parts of a statement or an expression look like. *)

AnyName == <<>>
exp_int == Integer(0)   \* any number
exp_label == LabelAddress(AnyName)
exp_register == Register(AnyName)

memory_exp ==
    <<exp_int, exp_label, exp_register, BinaryOp("plus", exp_register, exp_int),
      BinaryOp("plus", exp_int, exp_register), BinaryOp("minus", exp_register, exp_int)>>

memory_templates == [i \in DOMAIN memory_exp |-> Memory(memory_exp[i])]
ForEachMemory(Pairs(_)) == FlattenSeq([i \in DOMAIN memory_exp |-> Pairs(memory_templates[i])])

make_comparison ==
    <<<<exp_register, exp_int>>, <<exp_register, exp_register>>>>
    \o ForEachMemory(LAMBDA m : <<<<exp_register, m>>, <<exp_int, m>>, <<m, exp_register>>, <<m, exp_int>>>>)

make_arithmetic ==
    make_comparison
    \o ForEachMemory(LAMBDA m : [j \in DOMAIN memory_exp |-> <<m, memory_templates[j]>>])

make_assignment ==
    <<<<exp_register, exp_int>>, <<exp_register, exp_label>>, <<exp_register, exp_register>>>>
    \o FlattenSeq([i \in DOMAIN memory_exp |->
            LET m == memory_templates[i]
            IN  <<<<exp_register, m>>, <<exp_register, memory_exp[i]>>,
                  <<m, exp_register>>, <<m, exp_int>>, <<m, exp_label>>>>])

templates ==
    [INTEGER |-> <<<<exp_int>>>>, LABELADDR |-> <<<<exp_label>>>>, REGISTER |-> <<<<exp_register>>>>,
     MEMORY |-> [i \in DOMAIN memory_exp |-> <<memory_templates[i]>>],
     BINARYOP |-> make_arithmetic, COND_JUMP |-> make_comparison, MOVE |-> make_assignment,
     FUN_CALL |-> <<<<exp_label>>, <<exp_register>>>>, JUMP |-> <<<<exp_label>>, <<exp_register>>>>]

\* The parts that templates are matched against.
PartsOf(node) ==
    CASE node.kind \in {"BINARYOP", "COND_JUMP"} -> <<node.left, node.right>>
      [] node.kind = "MOVE"     -> <<node.to, node.from>>
      [] node.kind = "JUMP"     -> <<node.dest>>
      [] node.kind = "FUN_CALL" -> <<node.function>>
      [] OTHER                  -> <<node>>

-----------------------------------------------------------------------------
(* Matching *)

\* A register stands for whatever is not one and is computed into it.
IsComputed(exp, templ) == templ.kind = "REGISTER" /\ exp.kind # "REGISTER"

RECURSIVE MatchExpression(_, _), nodecount(_, _), Instantiated(_, _, _), Children(_, _, _)

MatchExpression(exp, templ) ==
    \/ IsComputed(exp, templ)
    \/ /\ exp.kind = templ.kind
       /\ CASE exp.kind = "INTEGER"  -> templ.value \in {0, exp.value}
            [] exp.kind = "BINARYOP" -> /\ exp.operation = templ.operation
                                        /\ MatchExpression(exp.left, templ.left)
                                        /\ MatchExpression(exp.right, templ.right)
            [] exp.kind = "MEMORY"   -> MatchExpression(exp.address, templ.address)
            [] OTHER                 -> TRUE

nodecount(exp, templ) ==
    IF IsComputed(exp, templ) THEN 0
    ELSE CASE exp.kind = "BINARYOP" ->
                1 + nodecount(exp.left, templ.left) + nodecount(exp.right, templ.right)
           [] exp.kind = "MEMORY" -> 1 + nodecount(exp.address, templ.address)
           [] OTHER -> 1

\* MatchStatement asks for the same kind of destination.
Matches(node, templ) ==
    LET parts == PartsOf(node)
    IN  /\ node.kind = "MOVE" => parts[1].kind = templ[1].kind
        /\ \A i \in DOMAIN parts : MatchExpression(parts[i], templ[i])

NodesOf(node, templ) ==
    FoldLeftDomain(LAMBDA count, i : count + nodecount(PartsOf(node)[i], templ[i]), 0, templ)

\* FindExpressionTemplate, FindStatementTemplate: of the best the first.
FindTemplate(node) ==
    LET list == templates[node.kind]
        matching == {k \in DOMAIN list : Matches(node, list[k])}
        count == [k \in matching |-> NodesOf(node, list[k])]
    IN  list[CHOOSE k \in matching :
                \A j \in matching : count[j] < count[k] \/ (count[j] = count[k] /\ k <= j)]

\* The register a part is computed into.
Storage(path) == Append(path, 70)

Instantiated(exp, templ, path) ==
    IF IsComputed(exp, templ) THEN Register(Storage(path))
    ELSE CASE exp.kind = "BINARYOP" ->
                BinaryOp(exp.operation, Instantiated(exp.left, templ.left, Append(path, 1)),
                         Instantiated(exp.right, templ.right, Append(path, 2)))
           [] exp.kind = "MEMORY" ->
                Memory(Instantiated(exp.address, templ.address, Append(path, 1)))
           [] OTHER -> exp

Children(exp, templ, path) ==
    IF IsComputed(exp, templ) THEN <<[exp |-> exp, path |-> path]>>
    ELSE CASE exp.kind = "BINARYOP" -> Children(exp.left, templ.left, Append(path, 1))
                                       \o Children(exp.right, templ.right, Append(path, 2))
           [] exp.kind = "MEMORY" -> Children(exp.address, templ.address, Append(path, 1))
           [] OTHER -> <<>>

\* [parts, children]: the parts as the template has them, and what is to
\* be computed into their registers first.
Fitted(node, path) ==
    LET parts == PartsOf(node)
        at(i) == Append(path, i)
    IN  Given(FindTemplate(node), LAMBDA templ :
            [parts |-> [i \in DOMAIN parts |-> Instantiated(parts[i], templ[i], at(i))],
             children |-> FlattenSeq([i \in DOMAIN parts |-> Children(parts[i], templ[i], at(i))])])

-----------------------------------------------------------------------------
(* Instructions *)

\* Jumps, labels and calls.  In code whose jumps are arranged what does not
\* jump falls through to its other label (ArrangeJumps).
Jmp(label) == [op |-> "jmp", dest |-> label]
CondJmp(comparison, label, falls) == [op |-> "jcc", comparison |-> comparison, dest |-> label, falls |-> falls]
LabelLine(label) == [op |-> "label", dest |-> label]
CallTo(label, count) == [op |-> "call", dest |-> label, count |-> count]
Fatal == [op |-> "fatal"]

\* makeOperand, for an address of a register with an offset.
MemoryOperand(address) ==
    CASE address.kind = "REGISTER" -> T!Mem(address.reg)
      [] address.operation = "plus" /\ address.left.kind = "INTEGER" ->
            T!Below(address.right.reg, address.left.value)
      [] address.operation = "plus" /\ address.right.kind = "INTEGER" ->
            T!Below(address.left.reg, address.right.value)
      [] address.operation = "minus" -> T!Below(address.left.reg, - address.right.value)

makeOperand(exp) ==
    CASE exp.kind = "INTEGER"   -> T!Literal(exp.value)
      [] exp.kind = "LABELADDR" -> T!Literal(AddressOf(exp.label))
      [] exp.kind = "REGISTER"  -> T!Reg(exp.reg)
      [] exp.kind = "MEMORY"    -> MemoryOperand(exp.address)

NoStorage == <<>>

BinaryTemplate(operation, operands, value, tmp) ==
    CASE operation = "plus"  -> T!Plus(operands[1], operands[2], value)
      [] operation = "minus" -> T!Minus(operands[1], operands[2], value)
      [] operation = "mul"   -> T!Mul(operands[1], operands[2], value, tmp)
      [] operation = "div"   -> T!Div(operands[1], operands[2], value, tmp)

translateExpressionTemplate(exp, parts, value, path) ==
    CASE exp.kind = "FUN_CALL" ->
            LET registers == [i \in DOMAIN exp.arguments |-> Storage(path \o <<60, i>>)]
            IN  T!placeCallArguments(registers)
                \o <<IF parts[1].kind = "LABELADDR"
                     THEN CallTo(exp.function.label, Len(registers)) ELSE Fatal>>
                \o T!removeCallArguments(registers)
                \o (IF value = NoStorage THEN <<>> ELSE T!Yield(T!Reg(RAX), value))
      [] value = NoStorage -> <<>>
      [] exp.kind = "BINARYOP" ->
            Given([i \in 1 .. 2 |-> makeOperand(parts[i])], LAMBDA operands :
                BinaryTemplate(exp.operation, operands, value, Append(path, 71)))
      [] OTHER -> Given(makeOperand(parts[1]), LAMBDA operand : T!Yield(operand, value))

\* What is added to or taken from a register is its address.
MoveTemplate(to, from) ==
    CASE from.kind = "BINARYOP" /\ to.kind = "REGISTER" ->
            Given(MemoryOperand(from), LAMBDA address : <<T!addInstruction("lea", address, to.reg)>>)
      [] from.kind # "BINARYOP" /\ to.kind = "REGISTER" ->
            Given(makeOperand(from), LAMBDA operand : T!Yield(operand, to.reg))
      [] from.kind \notin {"BINARYOP", "MEMORY"} /\ to.kind = "MEMORY" ->
            Given(<<makeOperand(from), makeOperand(to)>>, LAMBDA operands :
                T!StoreTo(operands[1], operands[2]))
      [] OTHER -> <<Fatal>>

translateStatementTemplate(statm, parts) ==
    CASE statm.kind = "JUMP" ->
            <<IF parts[1].kind = "LABELADDR" THEN Jmp(parts[1].label) ELSE Fatal>>
      [] statm.kind = "COND_JUMP" ->
            Given([i \in 1 .. 2 |-> makeOperand(parts[i])], LAMBDA operands :
                T!CondJump(operands[1], operands[2]))
            \o <<CondJmp(statm.comparison, statm.true_dest, statm.false_dest)>>
      [] statm.kind = "MOVE" -> MoveTemplate(parts[1], parts[2])

RECURSIVE translateExpression(_, _, _), translateStatement(_, _)

\* Every argument of a call is computed into a register, in any case.
AllChildren(node, children, path) ==
    IF node.kind # "FUN_CALL" THEN children
    ELSE [i \in DOMAIN node.arguments |-> [exp |-> node.arguments[i], path |-> path \o <<60, i>>]]
         \o children

ComputeChildren(children) ==
    FlattenSeq([i \in DOMAIN children |->
        translateExpression(children[i].exp, Storage(children[i].path), children[i].path)])

translateExpression(exp, value, path) ==
    IF exp.kind = "STAT_EXP_SEQ"
    THEN translateStatement(exp.stat, Append(path, 1))
         \o translateExpression(exp.exp, value, Append(path, 2))
    ELSE Given(Fitted(exp, path), LAMBDA fitted :
            ComputeChildren(AllChildren(exp, fitted.children, path))
            \o translateExpressionTemplate(exp, fitted.parts, value, path))

translateStatement(statm, path) ==
    CASE statm.kind = "STAT_SEQ" ->
            FlattenSeq([i \in DOMAIN statm.statements |->
                           translateStatement(statm.statements[i], Append(path, i))])
      [] statm.kind = "EXP_IGNORE_RESULT" -> translateExpression(statm.exp, NoStorage, path)
      [] statm.kind = "LABEL" -> <<LabelLine(statm.label)>>
      [] OTHER -> Given(Fitted(statm, path), LAMBDA fitted :
                    ComputeChildren(fitted.children)
                    \o translateStatementTemplate(statm, fitted.parts))
=============================================================================
