---------------------------- MODULE Translation ----------------------------
(***************************************************************************)
(* The way of a program, or of the body of a function, from the syntax     *)
(* tree over intermediate code to canonical code (translateProgram,        *)
(* processFunctionDeclarationBatch, canonicalizeProgram and                *)
(* canonicalizeFunctions in translator.cpp) and to instructions            *)
(* (translateProgram and translateFunctionBody in assembler.cpp), beside   *)
(* what it means.                                                          *)
(***************************************************************************)
EXTENDS Translate, Canonical

CONSTANTS
    Programs,   \* programs, some known to be correct
    Inputs,     \* lists of what the functions of the program return
    MaxTurns,   \* turns of while loops before a run counts as endless
    Globals     \* variables and functions the programs use

VARIABLES
    program,    \* the body and what it is: the program, or a function with a result
    phase,      \* how far the compiler has come
    code        \* its code so far

vars == <<program, phase, code, unreturned>>

FirstBlock == 1048
MaxJumps == 20 * MaxTurns   \* of the code of a run
IR == INSTANCE RunIR
Asm == INSTANCE Selection
CPU == INSTANCE Machine WITH RAX <- Asm!RAX, RDX <- Asm!RDX,
                             Arguments <- Asm!Arguments, CallerSaved <- Asm!CallerSaved
Source == INSTANCE RunTiger

Init ==
    /\ program \in Programs
    /\ unreturned \in IF program.correct THEN {TRUE} ELSE BOOLEAN
    /\ phase = "parsed" /\ code = Failed

\* A parameter that inner functions use is moved to memory.
MovementPrologue == <<Move(Place(-8), Register(<<0, 9>>))>>

prependPrologue(translated) ==
    CASE translated.kind = "EXPRESSION" ->
            ExpressionCode(StatExp(StatSeq(MovementPrologue), translated.exp))
      [] OTHER -> [translated EXCEPT !.statm = StatSeq(Append(MovementPrologue, @))]

ResultFits(result, type) ==
    CASE result = "program" -> TRUE
      [] result = "void"    -> type = "void"
      [] OTHER              -> CheckAssignmentTypes(result, type)

\* translateProgram, or the second loop over a batch of functions.
TranslateBody ==
    /\ phase = "parsed"
    /\ LET translated == translateExpression(program.body, <<3>>, Globals, NoLoopExit)
       IN  IF IsRejected(translated) \/ ~ ResultFits(program.result, translated.type)
           THEN phase' = "rejected" /\ UNCHANGED code
           ELSE /\ phase' = "translated"
                /\ code' = IF program.result = "program"
                           THEN StatementCode(killCodeToStatement(translated.code))
                           ELSE prependPrologue(translated.code)
    /\ UNCHANGED <<program, unreturned>>

\* Code with jumps to be patched has become an expression.
AsExpression(c) == IF c.kind = "JUMP_WITH_PATCHES" THEN killCodeToExpression(c) ELSE c.exp

Canonicalize ==
    /\ phase = "translated"
    /\ phase' = "canonical"
    /\ code' = CASE code.kind = "STATEMENT" -> StatementCode(canonicalizeStatement(code.statm, <<4>>))
                 [] OTHER -> ExpressionCode(canonicalizeExpression(AsExpression(code), TRUE, <<4>>))
    /\ UNCHANGED <<program, unreturned>>

ResultRegister == <<6>>
Instructions(list) == [kind |-> "INSTRUCTIONS", list |-> list]

\* A function moves its value to where its caller expects it.
AssembleBody ==
    /\ phase = "canonical"
    /\ phase' = "assembled"
    /\ code' = CASE code.kind = "STATEMENT" -> Instructions(Asm!translateStatement(code.statm, <<5>>))
                 [] OTHER -> Instructions(Asm!translateExpression(code.exp, ResultRegister, <<5>>)
                                          \o Asm!T!Yield(Asm!T!Reg(ResultRegister), Asm!RAX))
    /\ UNCHANGED <<program, unreturned>>

Done == phase \in {"rejected", "assembled"} /\ UNCHANGED vars

Next == TranslateBody \/ Canonicalize \/ AssembleBody \/ Done

Spec == Init /\ [][Next]_vars

-----------------------------------------------------------------------------
(* Runs *)

IsVariable(name) == Globals[name].kind = "variable"
Variables == {name \in DOMAIN Globals : IsVariable(name)}

(* What the variables hold: x and y numbers, s a string, a an array of two *)
(* numbers, b one of two strings, l a list of one number.                  *)
Blocks == [a |-> 1000, b |-> 1016, l |-> 1032]
Heap == (1000 :> <<Source!IntValue(5), Source!IntValue(6)>>)
        @@ (1016 :> <<Source!Value("string", 10001), Source!Value("string", 10000)>>)
        @@ (1032 :> <<Source!IntValue(7), Source!Value("nil", 0)>>)

InitialValue ==
    [x |-> Source!IntValue(1), y |-> Source!IntValue(0), s |-> Source!Value("string", 10001),
     a |-> Source!Value("array", Blocks.a), b |-> Source!Value("array", Blocks.b),
     l |-> Source!Value("list", Blocks.l)]

(* Where a program finds what it names, and how its run starts. *)
Environment ==
    [name \in DOMAIN Globals |->
        IF IsVariable(name) THEN <<0, Globals[name].place>> ELSE Globals[name].label]

Beginning(inputs) ==
    [state |-> "running", broke |-> FALSE, value |-> Source!Nothing, trace |-> <<>>,
     inputs |-> inputs, turns |-> 0, block |-> FirstBlock, heap |-> Heap,
     vars |-> [place \in {<<0, Globals[name].place>> : name \in Variables} |->
                  InitialValue[CHOOSE name \in Variables : Globals[name].place = place[2]]]]

Meanings(inputs) ==
    {Source!Run(program.body, <<3>>, environment, beginning) :
        environment \in {Environment}, beginning \in {Beginning(inputs)}}

FrameAddress == 500
InRegister(name) == Globals[name].place > 0

\* The parameter y of a function comes in a register.
Start(inputs) ==
    [state |-> "running", jump |-> IR!NoJump, jumps |-> 0, value |-> 0, trace |-> <<>>,
     inputs |-> inputs, block |-> FirstBlock, flags |-> <<0, 0>>,
     regs |-> (<<0>> :> FrameAddress) @@ (<<0, 9>> :> InitialValue.y.v)
              @@ [reg \in {<<0, Globals[n].place>> : n \in {m \in Variables : InRegister(m)}} |->
                     InitialValue[CHOOSE n \in Variables : Globals[n].place = reg[2]].v],
     mem |-> [address \in {block + VarSize * k : block \in DOMAIN Heap, k \in 0 .. 1} |->
                 LET block == CHOOSE b \in DOMAIN Heap : address - b \in {0, VarSize}
                 IN  Heap[block][1 + (address - block) \div VarSize].v]
             @@ (IF program.result = "program"
                 THEN FrameAddress - 8 :> InitialValue.y.v ELSE <<>>)]

\* What a function returns is in %rax.
Returned(run) ==
    IF Asm!RAX \in DOMAIN run.regs THEN [run EXCEPT !.value = run.regs[Asm!RAX]] ELSE run

InstructionsRuns(inputs) ==
    {Returned(IR!Result(run)) : run \in {CPU!Steps(code.list, start) : start \in {Start(inputs)}}}

TreesRuns(inputs) ==
    {IR!Result(IF code.kind = "STATEMENT" THEN IR!Executed(code.statm, start)
               ELSE IR!Evaluated(AsExpression(code), start)) : start \in {Start(inputs)}}

Plain(values) == [i \in DOMAIN values |-> values[i].v]

\* The code does what the program means: the calls with their arguments, the
\* variables and the heap at the end, and the result of a function.
DoesTheSame(run, meaning) ==
    /\ run.state = "running"
    /\ run.trace = [i \in DOMAIN meaning.trace |-> <<meaning.trace[i][1], Plain(meaning.trace[i][2])>>]
    /\ \A name \in {n \in Variables : InRegister(n)} :
          run.regs[<<0, Globals[name].place>>] = meaning.vars[<<0, Globals[name].place>>].v
    /\ run.mem[FrameAddress - 8] = meaning.vars[<<0, -8>>].v
    /\ \A block \in DOMAIN meaning.heap : \A i \in DOMAIN meaning.heap[block] :
          meaning.heap[block][i].is = "nothing"
          \/ run.mem[block + 8 * (i - 1)] = meaning.heap[block][i].v
    /\ program.result \notin {"program", "void"} => run.value = meaning.value.v

-----------------------------------------------------------------------------
(* Properties *)

\* A function with a result has code with a value, others statements only.
TypeOK ==
    /\ phase \in {"parsed", "translated", "rejected", "canonical", "assembled"}
    /\ unreturned \in BOOLEAN
    /\ phase = "translated" => code.kind \in {"STATEMENT", "EXPRESSION", "JUMP_WITH_PATCHES"}
    /\ phase = "canonical" => code.kind \in {"STATEMENT", "EXPRESSION"}
    /\ phase \in {"translated", "canonical"} =>
          (code.kind = "STATEMENT") = (program.result \in {"program", "void"})

SameOnAllInputs(Runs(_)) ==
    \A inputs \in Inputs : \A meaning \in Meanings(inputs) :
        meaning.state = "running" => \A run \in Runs(inputs) : DoesTheSame(run, meaning)

\* The code the translator makes does what the program means: conditions
\* that are patched into larger code, loops and their exits, values of
\* conditionals, places of elements.
TranslationKeepsMeaning == phase = "translated" => SameOnAllInputs(TreesRuns)

\* Pulling statements out of expressions changes nothing: no statement has
\* been moved past something it changes.
CanonicalizationKeepsMeaning == phase = "canonical" => SameOnAllInputs(TreesRuns)

\* A comparison of a constant with memory is selected with the constant as
\* the operand to compare with, which no machine has.
ComparesToConstant ==
    \E k \in DOMAIN code.list : code.list[k].op = "cmp" /\ code.list[k].to.kind = "const"

\* The instructions do what the program means: whatever tile covers a part,
\* the registers it is told to use are those its parts were computed into,
\* operands come in their order, and %rax and %rdx hold what is expected.
SelectionKeepsMeaning == phase = "assembled" => ComparesToConstant \/ SameOnAllInputs(InstructionsRuns)

\* A correct program is accepted.
CorrectIsAccepted == program.correct => phase # "rejected"

\* An accepted program never uses a value as what it is not, or a value
\* where there is none.
AcceptedNeverStuck ==
    phase = "translated" => \A inputs \in Inputs : \A meaning \in Meanings(inputs) : meaning.state # "stuck"
=============================================================================
