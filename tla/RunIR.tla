------------------------------- MODULE RunIR -------------------------------
(***************************************************************************)
(* What intermediate code does when it is run, canonical or not: registers *)
(* and memory, the calls of functions of the program with their arguments, *)
(* what they return taken from a list of inputs.  A jump goes to a label   *)
(* of a sequence it is in.  What a machine does is not under src/.         *)
(***************************************************************************)
EXTENDS IRTrees, TLC

CONSTANTS MaxJumps,   \* jumps a run may take before it counts as endless
          FirstBlock  \* address of the first block of memory that is allocated

NoJump == <<>>
Word == 8

\* "state" says whether the run goes on.
Running(s) == s.state = "running" /\ s.jump = NoJump
Stop(s, why) == [s EXCEPT !.state = why]
Returns(s, value) == [s EXCEPT !.value = value]

\* Towards zero.
Quotient(left, right) ==
    LET size(n) == IF n < 0 THEN - n ELSE n
        quotient == size(left) \div size(right)
    IN  IF (left < 0) = (right < 0) THEN quotient ELSE - quotient

Calculated(operation, left, right) ==
    CASE operation = "plus" -> left + right
      [] operation = "minus" -> left - right
      [] operation = "mul" -> left * right
      [] operation = "div" -> Quotient(left, right)

Holds(comparison, left, right) ==
    CASE comparison = "equal" -> left = right
      [] comparison = "nonequal" -> left # right
      [] comparison = "less" -> left < right
      [] comparison = "lessequal" -> left <= right
      [] comparison = "greater" -> left > right
      [] comparison = "greatequal" -> left >= right

Filled(mem, address, count, value) ==
    [i \in {address + Word * k : k \in 0 .. count - 1} |-> value] @@ mem

\* The runtime library; a function of the program is seen from outside.
Called(label, arguments, s) ==
    CASE label = <<1, 1>> -> [s EXCEPT !.value = s.block, !.block = @ + arguments[1]]
      [] label = <<1, 2>> -> [s EXCEPT !.value = s.block, !.block = @ + Word * arguments[1],
                                       !.mem = Filled(@, s.block, arguments[1], arguments[2])]
      [] label = <<1, 3>> -> Returns(s, arguments[1] - arguments[2])
      [] OTHER -> [s EXCEPT !.trace = Append(@, <<label, arguments>>),
                            !.value = IF s.inputs = <<>> THEN 0 ELSE Head(s.inputs),
                            !.inputs = IF @ = <<>> THEN @ ELSE Tail(@)]

RECURSIVE Evaluated(_, _), EvaluatedAll(_, _, _, _), Executed(_, _), ExecutedFrom(_, _, _)

\* [run, values] after the arguments from the i-th on.
EvaluatedAll(arguments, i, s, values) ==
    IF i > Len(arguments) \/ ~ Running(s) THEN [run |-> s, values |-> values]
    ELSE LET argument == Evaluated(arguments[i], s)
         IN  EvaluatedAll(arguments, i + 1, argument, Append(values, argument.value))

Evaluated(exp, s) ==
    CASE exp.kind = "INTEGER"   -> Returns(s, exp.value)
      [] exp.kind = "LABELADDR" -> Returns(s, AddressOf(exp.label))
      [] exp.kind = "REGISTER"  ->
            IF exp.reg \in DOMAIN s.regs THEN Returns(s, s.regs[exp.reg]) ELSE Stop(s, "unset")
      [] exp.kind = "MEMORY"    ->
            LET address == Evaluated(exp.address, s)
            IN  IF ~ Running(address) THEN address
                ELSE IF address.value \in DOMAIN address.mem
                THEN Returns(address, address.mem[address.value]) ELSE Stop(address, "unset")
      [] exp.kind = "BINARYOP"  ->
            LET left == Evaluated(exp.left, s)
                right == Evaluated(exp.right, left)
            IN  IF ~ Running(left) THEN left ELSE IF ~ Running(right) THEN right
                ELSE IF exp.operation = "div" /\ right.value = 0 THEN Stop(right, "fault")
                ELSE Returns(right, Calculated(exp.operation, left.value, right.value))
      [] exp.kind = "FUN_CALL"  ->
            LET all == EvaluatedAll(exp.arguments, 1, s, <<>>)
            IN  IF Running(all.run) THEN Called(exp.function.label, all.values, all.run) ELSE all.run
      [] exp.kind = "STAT_EXP_SEQ" ->
            LET stat == Executed(exp.stat, s)
            IN  IF Running(stat) THEN Evaluated(exp.exp, stat) ELSE stat
      [] exp.kind = "FAILED"    -> Stop(s, "failed")

Stored(to, s, value) ==
    IF to.kind = "REGISTER" THEN [s EXCEPT !.regs = (to.reg :> value) @@ @] ELSE Stop(s, "failed")

\* A destination in memory is evaluated before the source.
Moved(to, from, s) ==
    IF to.kind = "MEMORY"
    THEN LET address == Evaluated(to.address, s)
             source == Evaluated(from, address)
         IN  IF ~ Running(address) THEN address ELSE IF ~ Running(source) THEN source
             ELSE [source EXCEPT !.mem = (address.value :> source.value) @@ @]
    ELSE LET source == Evaluated(from, s)
         IN  IF Running(source) THEN Stored(to, source, source.value) ELSE source

Executed(statm, s) ==
    CASE statm.kind = "MOVE" -> Moved(statm.to, statm.from, s)
      [] statm.kind = "EXP_IGNORE_RESULT" -> Evaluated(statm.exp, s)
      [] statm.kind = "JUMP" -> [s EXCEPT !.jump = statm.dest.label]
      [] statm.kind = "COND_JUMP" ->
            LET left == Evaluated(statm.left, s)
                right == Evaluated(statm.right, left)
            IN  IF ~ Running(left) THEN left ELSE IF ~ Running(right) THEN right
                ELSE [right EXCEPT !.jump = IF Holds(statm.comparison, left.value, right.value)
                                            THEN statm.true_dest ELSE statm.false_dest]
      [] statm.kind = "STAT_SEQ" -> ExecutedFrom(statm.statements, 1, s)
      [] statm.kind = "LABEL"  -> s
      [] statm.kind = "FAILED" -> Stop(s, "failed")

\* The statements from the i-th on; a jump to a label that is not among
\* them is left to the sequence around.
ExecutedFrom(statements, i, s) ==
    IF i > Len(statements) THEN s
    ELSE LET next == Executed(statements[i], s)
             dest == {k \in DOMAIN statements : statements[k] = Placement(next.jump)}
         IN  IF next.state # "running" THEN next
             ELSE IF next.jump = NoJump THEN ExecutedFrom(statements, i + 1, next)
             ELSE IF dest = {} THEN next
             ELSE IF next.jumps = MaxJumps THEN Stop(next, "endless")
             ELSE ExecutedFrom(statements, CHOOSE k \in dest : TRUE,
                               [next EXCEPT !.jump = NoJump, !.jumps = @ + 1])

\* A run that ends with a jump nobody took has gone astray.
Result(s) == IF s.state = "running" /\ s.jump # NoJump THEN Stop(s, "astray") ELSE s
=============================================================================
