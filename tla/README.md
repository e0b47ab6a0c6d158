# Verification of the Tiger compiler (Appel_tiger)

The repository is a compiler for Tiger, the language of A. Appel's "Modern
Compiler Implementation", written in C++ (`src/*.cpp`), with a port to Java
(`src/java`). It produces x86-64 assembly. This directory holds TLA+ modules that
model the compiler, TLC configurations that check them on small instances, and
proofs that TLAPS checks for every instance.

## 1. Inventory of the system

A compilation is one sequential pass through the components below
(`ProcessTree`, `main.cpp` 75-190); nothing runs concurrently and nothing is
retried, except the loop of `AssignRegisters`. What is hard here is not
concurrency but *long sequences of small legal steps over shared work lists and
graphs* (register allocation), *fixpoints* (liveness), *code that must keep its
meaning while it is taken apart and put together* (canonicalization, jumps,
spilling), and *information that is used before or after the moment it is true*
(escape analysis, patch lists, frame sizes).

| Component | Source | State it keeps | Operations |
|---|---|---|---|
| Parser, syntax tree | `Tiger.lex`, `Tiger.y`, `syntaxtree.*` | the tree | grammar actions |
| Scopes and maps | `layeredmap.*`, `idmap.*` | layers of names; array by identifier | `newLayer`, `add`, `lookup`, `removeLastLayer` |
| Escape analysis | `translate_utils.*` | per variable: the function that owns it, whether an inner one uses it | a walk of the tree ahead of translation |
| Translator | `translator.*`, `types.*`, `declarations.*` | type and variable environments, functions, frames | one method per syntax node |
| Intermediate code | `intermadiate.cpp`, `intermediate.h` | expressions, statements; lists of jumps to patch | `putLabels`, `killCodeTo...` |
| Canonicalization | `ir_transformer.*` (7-409) | the tree under transformation | one method per kind of node |
| Arrangement of jumps | `ir_transformer.*` (411-593) | blocks, trace, new order | `splitToBlocks`, `arrangeBlocksForPrettyJumps`, `arrangeJumps` |
| Instruction selection | `assembler.*`, `x86_64assembler.*` | list of instructions of a function | template matching, emission |
| Frames, call convention | `x86_64_frame.*`, `x86_64assembler.cpp` 378-414, 640-798 | variables and offsets of a frame | `addVariable`, `createCode`, prologue, epilogue, `implementFramePointer` |
| Flow graph, liveness | `flowgraph.*`, `regallocator.cpp` 8-45, 185-318 | edges; `live_after_node` | `FlowGraph`, `findLiveness` |
| Register allocator | `regallocator.cpp` 49-975 | interference graph, seven node lists, five move lists, groups, colours | `buildGraph`, `remove_one_removable`, `coalesce_one`, `freezeOne`, `prespillOne`, `assignColors` |
| Spilling | `regallocator.cpp` 977-1035, `x86_64assembler.cpp` 800-986 | the code, rewritten | `AssignRegisters`, `spillRegister` |
| Code under an allocation | `assembler.cpp` 394-487 | register map | `MapRegister`, `outputCode` |
| Driver | `main.cpp` | names of files | compile, assemble, link |
| Runtime library | `tigerlibrary_x86_64.c` | none | library functions of Tiger |
| Messages and dumps | `errormsg.*`, `debugprint.*` | count of errors | output |
| Java port | `src/java` | as above | as above |

How they interact. The translator calls the escape analysis before it
translates, asks frames for variables while it translates, and leaves a list of
functions with intermediate code. Canonicalization and the arrangement of jumps
rewrite that code in place. Instruction selection turns it into a list of
instructions over virtual registers, some of which are machine registers from
the start (calls, division, prologue). `AssignRegisters` builds flow graph,
liveness and interference graph of the function, tries to colour it and, when
registers are left over, calls back into the assembler (`spillRegister`), which
adds variables to the frame and instructions to the code, and starts again. The
size of the frame is only put into the code after that (`implementFramePointer`).
`outputCode` writes each virtual register as the machine register it is mapped
to.

What makes each component correct:

- scopes: a lookup finds the innermost binding that is still open;
- escape analysis: a variable that an inner function uses is in memory;
- translator: the static link that reaches a callee is the frame of the
  function that declares it; a jump out of a loop goes to the innermost one;
- intermediate code: every jump of a condition is patched once;
- canonicalization: effects happen in the order of the source, no
  statement-expression sequence is left;
- arrangement of jumps: every path of the function remains, every conditional
  jump is followed by its false destination;
- call convention: an argument is still in place when the callee reads it;
- liveness: the least solution of its equations;
- register allocator: no two registers that interfere share a machine
  register, it stops, its asserts hold;
- code under an allocation, spilling: an instruction reads what it would have
  read before.

The hazards that follow from this are listed in PROJECT.json, each at its line.

## 2. Modules

| Module | Models | Checked by | Proved |
|---|---|---|---|
| `Interference` | which registers collide (`buildGraph`, `connect`) | runs of the users | used by the proofs |
| `GraphColoring` | what the allocator promises (abstract) | `regalloc`, as refinement | implemented by `RegAlloc` |
| `RegAlloc` | `PartialRegAllocator` | `regalloc`, `regalloc_freeze_assert` | `RegAllocProofs` |
| `RegAllocInputs`, `MCRegAlloc` | small inputs | | |
| `FlowGraph` | `FlowGraph`, `FlowGraphNode` | through `Liveness` | |
| `Liveness` | `LivenessInfo::findLiveness` | `liveness_small` | `AllocatedCodeProofs` |
| `AllocatedCode` | liveness, colouring, and the coloured code running beside the translated code | `allocated_code` | `AllocatedCodeProofs` |
| `ArrangeJumps` | `splitToBlocks`, `arrangeBlocksForPrettyJumps`, `arrangeJumps`, and the result running beside its source | `arrange_jumps` | `ArrangeJumpsProofs` |
| `ControlFlow`, `MCArrangeJumps` | the code the translator makes of control structures; small programs | inputs of `arrange_jumps` | |
| `Rewriting` | instructions and their operands; how `spillRegister` rewrites one of them | `spill_rewrite`, `call_frames` | |
| `Templates` | the instructions emitted for expressions, statements and calls | `spill_rewrite`, `call_frames`, `translation` | |
| `SpillRewrite`, `MCSpillRewrite` | `spillRegister` over a whole code, and the rewritten code running beside its source | `spill_rewrite`, `spill_prespilled` | `SpillRewriteProofs` |
| `CallFrames`, `MCCallFrames` | a frame, prologue and epilogue, arguments, the frame pointer; the finished function running between a caller and callees | `call_frames` | `CallFramesProofs` |
| `StaticLinks`, `MCNestedFunctions` | the frames passed to callees and the walk to a variable of an outer function | `nested_functions` | `NestedFunctionsProofs` |
| `LayeredMap` | `LayeredMap` as operators on sequences of maps | through its users | |
| `Escape`, `MCNestedFunctions` | `VariablesAccessInfo` beside the names the translator sees | `nested_functions`, `escape_assert` | `NestedFunctionsProofs` |
| `TypeNames`, `MCTypeNames` | `TypesEnvironment`: batches of declarations, references, circles, `resolve` | `type_names` | `TypeNamesProofs` |
| `IRTrees` | intermediate code: trees, kinds of code, patches, conversions | `translation` | |
| `Translate` | `translateExpression` with its checks of types, for every kind of expression | `translation` | |
| `Canonical` | `IR_TreeTransformer`, canonicalization | `translation` | |
| `Selection` | `Assembler` and the templates of `X86_64Assembler`: matching, choice, translation | `translation` | |
| `RunTiger`, `RunIR`, `Machine` | what a program means, what intermediate code does, what instructions do | `translation` | |
| `Translation`, `MCTranslation` | a function from its body to its instructions | `translation` | |
| `Iteration` | nothing of the code: induction over the natural numbers, iterated functions, pieces of a sequence in a row | | used by the proofs |

The composition is that of the compiler. `Translation` composes `Translate`,
`Canonical` and `Selection`, which writes the instructions of `Templates`; `ArrangeJumps`
takes the jumps of canonical code; `CallFrames` composes templates, frames,
rewriting and interference; `AllocatedCode` extends `Liveness` and takes any
colouring of `Interference`, which is what `RegAlloc` is proved to produce
(`ColoringIsComplete`). The type invariants of `StaticLinks`, `Liveness`,
`AllocatedCode`, `RegAlloc` and `TypeNames` are proved; those of the other modules document their states.

### RegAlloc

One attempt to colour a function, `tryColoring` 902-929. Every pass of its loop
is an action (`RemoveOne`, `CoalesceOne` in its four outcomes `CoalesceAgain`,
`CoalesceConstrained`, `CoalesceCombine`, `CoalesceAfraid`; `FreezeOne`;
`PrespillOne`), and so is every pass of the loop of `assignColors`
(`AssignColor`); `Build` is `buildGraph` with `classifyNodes`, `FinishColors`
the end of `assignColors` with `checkColors`. An action contains everything the
handler calls: removing a node lowers degrees (`decrementDegree`), moves nodes
between lists and makes moves coalescable again (`enableMoves`).

- The lists of `NodeMoveManager` are a status per element and a rank, the time
  it was appended; the front of a list is an element of least rank. Elements
  appended while one adjacency list is traversed have the same rank: the order
  of adjacency lists is left open, so the model has every order the code may
  have.
- The chain `coalesced_with` that `getRemaingFromCoalescedGroup` follows is the
  function `group`.
- A failing `assert` is a value of `pc`. `CMakeLists.txt` sets no build type,
  the asserts are compiled in, and the compiler stops there.

`GraphColoring` is the promise: registers receive a colour once, in groups, and
never that of a register they interfere with. `RegAlloc` implements it
(`ImplementsColoring`).

### FlowGraph and Liveness

`FlowGraph` gives `next`, `previous`, `used`, `assigned` of a function as
operators on its code: a function from instruction numbers to records of label,
destinations (a label or the NULL that means the next instruction), inputs and
outputs. The frame pointer is read by instructions but not allocated
(`ignored_register`). `Liveness` is `findLiveness`: the recursion is a set
`visits` of register and instruction pairs still to be looked at, taken in any
order. The equations of liveness are in `FlowGraph` (`LiveThrough`, `Solves`).

### AllocatedCode

`AssignRegisters` from outside. The module extends `Liveness`; when no visit is
left, `Enter` takes any colouring that the interference graph allows, and the
function is run twice in step: with virtual registers (`values`) and with
machine registers (`contents`), as `outputCode` writes it. A move between
registers of one colour is left out, as the code does (`LeftOut`, 420-427). An
instruction computes anything, but the same in both runs, and both go the same
way; that is what two executions do as long as they read the same. So
`ReadsTheSame` says that they never read anything different. When two outputs
of an instruction have one colour either may be what remains.

### ArrangeJumps and ControlFlow

`Split`, `PickBlock`, `Follow`, `EndTrace` are the passes of the loops of
`splitToBlocks` and `arrangeBlocksForPrettyJumps`; `WriteBlock` and `Finish` are
those of `arrangeJumps`, each with the change it makes to the jump written
last. A statement is its kind, its labels and a number; a block is the position
of its first statement. Then both sequences run in step (`Execute`): the source
with both destinations of a conditional jump, the result as
`translateStatementTemplate` writes it (x86_64assembler.cpp 575-579), where a
conditional jump that is not taken falls into whatever comes next.

`ControlFlow` has the code of `if`, `if-else` (also `&` and `|`), `while`, `for`,
`break` and sequences, as `translator.cpp` builds it, with conditions that are
known to be true or false turned into plain jumps. It matters that the
inputs come from there: `arrangeJumps` mends a conditional jump when it
writes the next block, so one in the last block would not be mended if both
its destinations had been placed before. What the translator guarantees is the
assumption `TranslatorAssumption` on the constant `Sources` (`Anchored`): one destination of a
conditional jump comes right behind it, and no trace comes to that block,
or to the end of the loop that begins there, but over this jump. `translateIf`
and `translateIfElse` place the true branch there, whose label nothing else
jumps to; `translateWhile` and `translateFor` place the body there, to which the end
of the loop jumps back. TLC evaluates it for all inputs of the run, and
the proofs rest on nothing else about the inputs.

### Rewriting, Templates and SpillRewrite

An instruction is its operation, two operands that refer to its lists of inputs
and outputs by number, as the notation `&i0`, `&o0` does, and these lists. What
`spillRegister` asks of the text (is the first input in parentheses, does the
notation end in the output) is asked of the operands. `Spill` is one call, over
the whole code; the registers of one round of `AssignRegisters` and of the rounds
after it are chosen freely, which contains what the allocator chooses.
`SpillPrespilled` is the path of a register that has a place in the frame
already; an assert on it always fails (see Findings), so it never rewrites.

Then the rewritten code runs beside its source. The value an instruction
computes is named after the instruction; loads, stores and moves carry values
along. A register that is not live by the lists of inputs and outputs may share
a machine register with one that is assigned: its contents are lost then
(`WithLosses`). This is what a proper colouring guarantees and no more.

### CallFrames

`Init` is a function with its parameters and local variables. The actions
have the names of the code and come in its order: the frame (`addParentFpParamVariable`,
`addParameter`, `addVariable`), the code (`translateFunctionBody`), registers
spilled (`spillRegister`), the rest coloured (`AssignRegisters`), the frame pointer and the size of the
frame put in (`implementFrameSize`). Then the code runs on a machine with a stack. The caller and
the callees are whatever keeps the System V convention and are external: `enter`
puts the arguments in place and fills everything else with values of the
caller, `call` overwrites the registers and the memory a callee may
overwrite. Every register and every word of memory holds a value
that says where it comes from, so a register that has been lost, or a word read
at a wrong offset, is told from the right one.

`remove` is the instruction that removes pushed arguments. It is written without `$`
(`x86_64assembler.cpp` 412), so the operand is a word of memory at a small
address: the run stops in the state `fault`. See section 4.

### StaticLinks

`stack` is the stack of activations, `goal` what the code that runs is looking
for: the frame to pass to a callee, or a variable. `GoOut` is one iteration of the loop of
`X86_64VarLocation::createCode` that goes from a frame to that of its parent,
in the register it arrived in or in memory. `CallReached` and `VariableReached` end the
search, the first with the call itself. Siblings, calls inwards, outwards and of oneself all occur.

### LayeredMap and Escape

`Escape` writes a program element by element, in the order of its text: declares
a variable or a function, opens a scope or a loop, uses a name, closes. Both
walks follow: that of `VariablesAccessInfo`, which runs ahead of the translator
with maps of its own, and that of the translator with its environments. The
question is whether they agree, which is what the assert in `createCode` needs.
They do not always (section 4). All programs are written, and what the walks find is kept apart:
`captured` are the uses by inner functions that the translator finds in expressions, with the
names they were made under, `captured_initially` those in initial values, which the analysis never
sees (`SeenInInitializer`), `var_info` those the analysis finds, and `shared_names` the names that
a loop shares with another declaration. `CapturedInMemory` and `MemoryIsNeeded` say that the two walks
agree on everything else, `FramesAreStored` that the frames agree without exception, and
`RegistersStayInFunction` is the assert itself, which fails.

An initial value is a constant or a name. A whole `let` there, with functions of its own, is left out;
the analysis would not see it either, so it could only add to `captured_initially`.

### TypeNames

`Declare` is one declaration of a batch, the first loop of
`processTypeDeclarationBatch`; `RejectUndefined` is the second, over the references without a
meaning; `StartWalk`, `WalkOn` and `WalkEnds` are the third, which looks for circles; objects of types are numbered in the
order of their creation. `env` beside it is what the names should mean (`Meanings`), written
without objects and references: a name is the first type declared under it in its scope,
also where it is used before, but for a name that is known further out when it is used
(`KnownBefore`). These two rules are what the code does; the samples have others (section 4).

### Translation

The program is a syntax tree; `TranslateBody` is the translation of one body
with all its checks, `Canonicalize` and `AssembleBody` what comes after. Addresses of the
code are names: registers and labels are named by the place in the tree where
they are made, so that two are equal only if the code takes the same
one twice. `RunTiger` is an evaluator of the language without types, in which a value
knows what it is and a wrong use gets stuck; `RunIR` runs trees, canonical or
not. `Machine` runs instructions. All are functions of the values that the called functions return,
and leave a trace of calls with their arguments. `SameOnAllInputs` compares the traces,
the variables, and the result.

A wrong program becomes `Rejected` at once, as what the code does after its first
message does not reach the output. The types and the places of
variables are given (`Globals`); they are the subject of `TypeNames` and
`CallFrames`. Division
rounds towards zero; a run that divides by zero is not compared. The
frame passed to a function is simple and is not canonicalized, so calls have none here.

What the code does and the model repeats, although one might expect otherwise: the
upper bound of a `for` is evaluated before the lower; a `break` in the body
of a `let`, in an initial value or in an argument is rejected even inside a loop; a variable
without a type that is initialized with a loop variable cannot be assigned
either; the body of a `for` may have a value, which is lost; a record may be made with
fields missing; the comparison of values without a type (`void`) leaves
`CheckComparisonTypes` without a return, so either answer is possible
(`unreturned`).

### Selection

A statement or an expression is covered by the template that takes in most nodes, of
several the first (`FindTemplate`). A template is a tree like those of the code, as in
`x86_64assembler.cpp` 135-164: the number 0 stands for any number, a register
for whatever can be computed into one. `MatchExpression` of the code does
three things in one walk, which are three operators here: whether a template fits (`MatchExpression`),
how many nodes it takes in (`nodecount`), and the instance with the parts to be computed first
(`Instantiated`, `Children`). A part that is taken in, for instance memory at a
register with an offset, is read by the instruction of the template, after all
parts that are computed into registers. That this comes out right depends on what
canonicalization has left, so the three phases are checked as one.

The order of blocks is not changed in `Translation`: a conditional jump that is not
taken goes on at its false destination (`falls`), which `FalseDestFollows` of
`ArrangeJumps` says is what comes next. Registers are not yet allocated; calls,
multiplication and division use the machine registers of the code, and `Machine` leaves nothing in those
that a callee may overwrite.

## 3. Runs

| Run | Bounds | Shows |
|---|---|---|
| `regalloc` | 4 registers (none or 2 of them machine registers), every graph, every list of at most 2 moves; and 5 registers with a ring of moves and every graph; 2 colours | the work lists hold exactly what their names say (`WorklistsExact`), degrees never fall below the number of neighbours left (`DegreesBound`), only registers chosen by `prespillOne` end without a colour, the asserts of simplify and coalesce hold, groups never contain registers that interfere (`GroupsSeparated`), the two ends of a coalesced move get one colour, a selected node is not touched any more, `tryColoring` ends, refinement of `GraphColoring` |
| `regalloc_freeze_assert` | the ring without a machine register | the asserts of `freezeMoves` fail (see Findings) |
| `liveness_small` | every function of 5 instructions over one register, one label, with jumps and conditional jumps | `findLiveness` ends with the least solution, which is what the paths say (`LiveIsUsedLater`) |
| `allocated_code` | every function of 4 instructions over a machine register and two others: moves, assignments, an operation on two registers, a call that changes the machine register, a jump back; 2 colours, 2 values | the coloured code reads what the translated code reads |
| `arrange_jumps` | every program of nested control structures, two levels deep: 1184 sequences of statements | blocks are placed once, the result does what the source did whatever the comparisons say, no conditional jump is separated from its false destination |
| `spill_rewrite` | the code of each template with all operands (81 pieces), 3 spilled registers | the rewritten code reads what it read before (`KeepsMeaning`), asserts hold (`RewriteAssertsHold`), temporaries are short-lived |
| `spill_prespilled` | the same, 1 spilled register | the assert on prespilled registers fails (see Findings) |
| `call_frames` | up to 4 parameters, 2 of them in registers; parameters and a local with or without use by inner functions; no link, one in a register, one in memory; two calls; 6 machine registers, 2 of them callee-save; 2 spilled registers, two orders of colours; the body of a program | arguments and links arrive, the stack is aligned at calls, the function returns to its caller with its result and the caller's registers, it writes to its own memory only |
| `nested_functions` | 7 elements, of these 3 functions, 3 names; and 7 functions, four levels, 7 activations | analysis and translator find the same outer variables, names of loops that are shared and initial values excepted, and the same functions whose link must be kept; the frame passed is the latest of the function that declares the callee, a variable is found in the latest frame of its owner, a link that is read has been stored |
| `escape_assert` | the same | the assert on variables in registers fails (see Findings) |
| `type_names` | 3 declarations of 3 names, 2 scopes, batches, wrong ones included | every reference gets a meaning, a batch is rejected exactly when it is wrong, names mean the types they should, declared again or late included, the search for circles ends |
| `translation` | 14220 bodies: every kind of expression with all pairs of parts out of those that read, change, call, jump or have a value; three arguments out of ten parts; 6 turns of a loop | intermediate code means what the program means, before and after canonicalization, and so do the selected instructions; correct programs are accepted, accepted ones never use a value as what it is not |

Why the bounds are enough to be interesting: with 4 registers and 2 colours a
node of significant degree, a coalescing that is refused by each of the tests,
a freeze, a spill and a group with a machine register all happen; a chain of
three merges, which is what the invariants on groups need, takes 5 registers.
In liveness registers do not influence each other, so one is enough, and five
instructions hold a loop with an exit, code before and behind it, and an
unreachable part. Four instructions in `allocated_code` hold a move, a second
assignment of its source, a use of both and a loop. Two levels of
nesting give jumps to the start of a placed block, breaks out of an inner
conditional, empty branches after constants, unreachable blocks, and comparisons both of
whose destinations are one label. Spilling rewrites one instruction at a time, so one template with its
operands set before and used after it is enough; three spilled registers are both
operands and the result, or a temporary of a temporary.

In `call_frames` the six argument registers are two, so that three and four parameters are
those on the stack of the caller; two calls are needed because the
second reads what the first must not have overwritten; two spilled registers are
the link or a saved register together with a parameter, and with one of them the size of the frame
needs padding and without it does not. Seven activations of seven functions hold a recursion through three
levels, with two activations of the owner of a variable. The two halves of `nested_functions` share no state and
are explored one at a time. Seven elements hold a
variable that is hidden, used by an inner function, and used again after the
scope. Three declarations are a circle of three, a circle beside a wrong
name, and two batches. Canonicalization decides about pairs of operands, so all pairs of
parts with and without effects are the decisions it takes; `translation` also has
calls with three arguments, in which an argument is moved twice.

The mutants in PROJECT.json are plausible bugs, one for each property; TLC finds
the property violated in each.

Fairness. `FairSpec` of `RegAlloc` and `Liveness` has weak fairness of `Next`: the code is a
loop, or a recursion, that runs until it is finished and waits for nothing. In
`TypeNames` only the loops at the end of a batch are fair: a program need not
have another declaration. The other modules state safety only: a Tiger program need not end.
`CHECK_DEADLOCK FALSE` is set where a program of full size has no further element
(`nested_functions`, `type_names`).

## 4. Findings

`regalloc_freeze_assert`: `freezeMoves` asserts that the moves of a node are
active and that a partner that loses its last move is on the freezeable list
(`regallocator.cpp` 830, 834). A move that was put aside as active is not looked
at again when other moves bring its two registers into one group. When that
group is frozen or prespilled the move is met with both ends in it, and the
assert fails. `FreezeAssertsHold` is the property that the assertion states.

`spill_prespilled`: the path of `spillRegister` for a register that has a place
in the frame notes the assignment (`x86_64assembler.cpp` 914) before it asserts
that there has been none (917). It fails at the only assignment of the register,
in the prologue, so a function whose inner functions need its parent's frame
cannot be compiled if that register has to be spilled.

`escape_assert`: `createCode` asserts that a variable in a register is used by its own
function only (`x86_64_frame.cpp` 42). `RegistersStayInFunction` states it. It fails in two ways.

- `processDeclaration` never walks the initial value of a variable (`translate_utils.cpp`
  121-127). An outer variable that an inner function names in initial values only, as in
  `let var n := 1 function f(): int = let var m := n in m end in f() end`, is not known to be
  used by the inner function and gets a register; the compiler stops when it translates the initial value. This is an ordinary
  program, not a matter of hidden names.
- The variable of a loop is added to the layer around the loop (234), before the bounds are looked at, and remains
  there behind the loop; the first binding of a layer stays. `translateFor` opens a layer, after it has translated the bounds.
  If another declaration has the same name, another loop included, the two walks may take the name for two different variables.
  In the shortest trace, of four elements, a function inside a loop over `x` has
  a loop over `x` whose bounds name the outer one. Samples use the
  name of a loop again, without an inner function that makes it matter.

### Where the properties have exceptions

These are gaps of the code. Each is stated as an exception of a property, or as
a constant that keeps the case out of a run; without it TLC finds the case.

Spilling (`KeepsMeaning`):

- `replaceRegisterUsage` returns after the first input it has replaced
  (847). An instruction that names the register twice, as the comparison of a
  variable with itself, goes on reading the register that nothing assigns any more.
- `addq`, `subq` (441, 448) read their output without listing it, `idivq` with
  a register or memory as divisor (510) reads `%rdx`, and a call (535) reads the
  argument registers. If the divisor, the base of a memory operand or a pushed argument
  is spilled, its load comes in between and may be given
  their machine register. If the output of `addq` is spilled and its source is in memory,
  also because it has been spilled before, the addition works on a temporary that is not loaded.

Calls (`CallFrames`):

- `remove` (`x86_64assembler.cpp` 412): `add 16, %rsp` where `add $16, %rsp` is
  meant. The program stops after the first call with more than six arguments. No sample makes such a call.
- A pushed argument that has been spilled is loaded relative to a stack pointer that an
  earlier push has moved (793), and may be loaded into an argument register
  that has been set already. `ArgumentsArrive` excludes such functions (`PushesSpilled`).
- An odd number of pushed arguments leaves the stack misaligned; `StackIsAligned` excludes it.
- The body of the program does not save the callee-save registers of its
  caller, the C library (`translateProgram`, `assembler.cpp` 540); `ReturnsToCaller` asks it
  of functions only.

Escape analysis (`Escape`): the two cases of `escape_assert`. `CapturedInMemory` leaves out uses in initial
values, and with `MemoryIsNeeded` the names in `shared_names`; `FramesAreStored` has no exception.

Types (`TypeNames`). Nothing is left out of the run, but what a name means there is what the code makes it mean, against two samples:

- A second declaration of a name in a scope, in another batch, is ignored: `lookup_last_layer` finds the first one, and only
  a reference that waits would be given a meaning (`translator.cpp` 237-244). The name keeps its first
  meaning for everything that follows, whereas `samples/test47.tig` says that the second
  type simply hides the first.
- `getType` looks in all layers before it makes a reference (200). In a batch that declares a local type, its name
  still means a type known further out until the declaration is reached, in the declaration itself too: after
  `type list = int` the inner `type list = {next: list}` has a field of type `int`. `samples/test41.tig` says
  that local types hide global ones; it has no such use.

Canonicalization (`Canonical`, `Translation`):

- `canSwapExps` (`ir_transformer.cpp` 21) tests the second expression twice. The
  comment at 127-135 says that what is further left is trivial and can be moved past, and an assert
  (140) holds it to that; a call with a string, another argument, and then one with statements
  fails it. `StringsBeforeOthers` is FALSE, so the run does not cover such calls.
- `a[i] := v` where finding the place takes statements, as in `a[f()] := v`, leaves
  a destination of a kind the transformer does not expect. `PlaceWithStatements`
  is FALSE.

Instruction selection (`Selection`):

- The template for a comparison of a constant with memory (`x86_64assembler.cpp` 236), as in
  `1 < a[0]`, gives a `cmp` whose constant is the operand to compare with. x86
  has no such instruction; `SelectionKeepsMeaning` excludes it (`ComparesToConstant`).
- `cmp` is written without the size of its operands (578), which matters for memory and a
  constant (240). That is text: the model takes it for the eight bytes that are meant.
- `Selection` keeps `%rdx` of multiplication and division apart from the third argument register, which it is. Nothing
  depends on it: arguments are moved to their registers only after all parts of the call are computed.

Numbers do not overflow in `Translation`. That a `for` ends at the greatest number, which is why
it compares before it adds (`translator.cpp` 1210), is not checked.

Not modelled at all: `IdMap::add` (`idmap.cpp` 17) resizes its array to the
identifier, one less than it writes to.

## 5. Proofs

`Spec`, `AllocSpec` and `LinksSpec` (that of `StaticLinks`) are the specifications of the modules; each theorem holds for
every value of the constants that satisfies the assumptions below.

| Theorem | Statement | Invariant |
|---|---|---|
| `RegAllocProofs!TypeCorrect` | `Spec => []TypeOK` | `TypeInv` |
| `RegAllocProofs!ListsCorrect` | `Spec => []WorklistsExact` | `ListInv` |
| `RegAllocProofs!NoInterferenceLost` | `Spec => []GroupsSeparated` | `GraphInv` |
| `RegAllocProofs!SelectedStaySealed` | `Spec => SelectedSealed`, an action property | `GraphInv` |
| `RegAllocProofs!DegreesNeverTooLow` | `Spec => []DegreesBound` | `DegreeInv` |
| `RegAllocProofs!SpillsAreChosen` | `Spec => []OnlyPrespilledAreSpilled` | `ColorInv` |
| `RegAllocProofs!AssertsNeverFail` | `Spec => []SimplifyAssertsHold` | `ColorInv` |
| `RegAllocProofs!MovesVanish` | `Spec => []CoalescedMovesVanish` | `ColorInv` |
| `RegAllocProofs!AllocatorColorsGraph` | `Spec => ImplementsColoring`, the refinement | `ColorInv` |
| `RegAllocProofs!ColoringIsProper` | `Spec => []Graph!ColoringProper` | `ColorInv` |
| `RegAllocProofs!ColoringIsComplete` | `Spec => [](pc = "done" => ColorsHandedOver)` | `ColorInv` |
| `AllocatedCodeProofs!LivenessCorrect` | `Spec => []LeastSolution` | `LiveInv` |
| `AllocatedCodeProofs!LivenessMeansUse` | `Spec => []LiveIsUsedLater` | `LiveInv` |
| `AllocatedCodeProofs!AllocTypeCorrect` | `AllocSpec => []AllocTypeOK` | `AllocInv` |
| `AllocatedCodeProofs!AllocationKeepsMeaning` | `AllocSpec => []ReadsTheSame` | `AllocInv` |
| `ArrangeJumpsProofs!BlocksPlacedOnce` | `Spec => []PlacedOnce` | `OrderInv` |
| `ArrangeJumpsProofs!FalseDestIsNext` | `Spec => []FalseDestFollows` | `CodeInv` |
| `ArrangeJumpsProofs!ArrangedRunsTheSame` | `Spec => []RunsTheSame` | `RunInv` |
| `NestedFunctionsProofs!LinksCorrect` | `LinksSpec => [](LinksTypeOK /\ LinksAreLatest)` | `LinkInv` |
| `NestedFunctionsProofs!VariablesCorrect` | `LinksSpec => []VariableInLatest` | `LinkInv` |
| `NestedFunctionsProofs!StoredCorrect` | `LinksSpec => []LinkIsStored` | `LinkInv` |
| `NestedFunctionsProofs!CapturedCorrect` | `Spec => []CapturedInMemory` | `EscapeInv` |
| `NestedFunctionsProofs!MemoryCorrect` | `Spec => []MemoryIsNeeded` | `EscapeInv` |
| `NestedFunctionsProofs!FramesCorrect` | `Spec => []FramesAreStored` | `EscapeInv` |
| `TypeNamesProofs!TypeCorrect` | `Spec => []TypeOK` | `TypeInv` |
| `TypeNamesProofs!ReferencesResolve` | `Spec => []EverythingResolves` | `ResolveInv` |
| `TypeNamesProofs!RejectsJustWrongBatches` | `Spec => []RejectsExactly` | `NameInv` |
| `TypeNamesProofs!NamesLeadToTheirTypes` | `Spec => []NamesMeanTheirDeclarations` | `NameInv` |
| `SpillRewriteProofs!RewritingIsPossible` | `Spec => []RewriteAssertsHold` | `SpillInv` |
| `SpillRewriteProofs!TemporariesStayShort` | `Spec => []TemporariesAreShort` | `SpillInv` |
| `CallFramesProofs!StackAlignment` | `Spec => []StackIsAligned` | `IInv` |
| `CallFramesProofs!StackBalance` | `Spec => []StackIsGivenBack` | `IInv` |

### The register allocator

The invariant grows in four layers, each with one lemma per action.

`ListInv`. `WorklistsExact` says that a node is on the list its degree and its
moves call for. A step moves nodes between lists by what it reads from
adjacency lists and lists of moves, so these must be right as well: adjacency is symmetric
(`Symmetric`: who loses a neighbour is told), a move that is left is on the lists
of the groups of its two ends (`MovesListed`) and of no other node in the graph
(`ListsExact`: nothing is kept freezeable by a move it no longer has), a chain of
coalesced nodes has one step (`GroupsFlat`), and a node that `prespillOne` has put on the
list of removable nodes with its high degree is the next one to leave it (`HighFirst`). The
asserts of `decrementDegree`, `possiblyUnfreeze` and `combineNodes` are part of the
invariant.

`GraphInv`. That interfering registers stay in different groups (`GroupsSeparated`) is not
inductive: `combineNodes` looks at the adjacency of two nodes only, and their
groups may hold registers whose neighbours have been coalesced in turn. `Closed`
says that a node in the graph is adjacent to the node that *stands for* each of its
neighbours. `Separated` says of each pair of interfering registers that
their two nodes are adjacent while both are in the graph, and that of two of which
one has been removed the one removed first still sees the other. The removal
order is what `assignColors` uses later, so `Separated` is the bridge from
simplification to colouring.

`DegreeInv`. `node_degrees` may be too high, after `combineNodes`, but never too
low (`DegreesBound`). With it a node that is removed with a low degree has
fewer neighbours among the nodes coloured before it than there are colours
(`FewLater`), which later coalescing cannot change: two neighbours that are
combined become one.

`ColorInv`. Colours given so far are proper between groups (`ProperGroups`), and
nodes are coloured in the opposite order of their removal (`SelectedFirst`). Hence a
node of low degree finds a colour (`LowDegreeFindsColor`) and only a
node `prespillOne` chose can be left without. The refinement follows step by
step: removing, freezing and choosing are stutters of `GraphColoring`,
`AssignColor` colours a group, and `CoalesceCombine` colours registers when it puts them
into the group of a machine register. `ColoringIsComplete` is what
`AllocatedCode` starts from: without spills the result is in `ProperColorings`.

`FreezeAssertsHold` is not among the theorems since it is violated (section 4).
`ColorInv` covers the states after such a failed assert too.

### Liveness and the code under an allocation

`LiveInv`. `LeastSolution` speaks of the end only. The invariant says, of every
moment, that what must be live above a use or a live register is live or
still to be visited (`NothingForgotten`), that what is live or to be visited
is so for a reason (`NothingInvented`), and that every solution contains it
(`BelowSolutions`). When no visit is left the first two are the equations and the
third is minimality.

`LiveIsUsedLater` compares the result with paths. `Reached`, the instructions to which a
value gets, is a recursive function; lemma `ReachedLeast` shows that it is the
smallest set that is closed under taking a step, so that both directions are
inclusions of sets: what paths say solves the equations, and what the least
solution says is found on a path.

`AllocInv`. That the next instruction reads the same is not inductive: the
instruction after it may read something that was lost before. The invariant is
that the runs agree on every register that is live before the next instruction
(`LiveAgrees`), besides `LiveInv`, and that the colouring is proper. The one
delicate step is lemma `Overwritten`: a colour written by an instruction
belongs to a live register only if the instruction is a move from it, and then
the value written is its value. This is the exception that `buildGraph` makes for the
source of a move (549), and the proof shows it is right.

### The arrangement of jumps

`FalseDestFollows` needs the order of blocks. While traces are laid out, the block behind
a conditional jump whose own block is not yet placed is not placed either, nor are the blocks
at whose end a loop goes back to it (`GuardsLeft` in `TraceInv`, from `TranslatorAssumption`). So a trace never ends
at a conditional jump, and `arrangeJumps` has a next block before which to mend it.

`CodeInv` describes the statements written: of every block that has been written there is a copy,
the label first, then the statements that are no jumps, then a way out that leads where the
source leads (`BlockWritten`); labels are placed once (`GoodPart`); the last jump is
unmended until its successor is known (`Writing`).

`RunsTheSame` is a simulation. A position of the source and one of the result
`Corresponds` if they are in the same block at the same statement, or at the end. A run that
has no operation before it moves over labels and jumps until it comes to rest (`Settled`);
the two need a different number of steps, as jumps have been left out and added and comparisons turned
round. `SourceSettles` and `ResultSettles` show that from corresponding
positions they come to rest at corresponding ones, and, if one goes round
for ever through jumps, so does the other: a run that comes back to where it
has been never rests, and one that does not rests within as many steps as there
are statements (`RestsInTime`).

### Static links and escape analysis

`LinkInv`. That one walk reaches the right frame is no invariant by itself: the walk
follows links that were passed by earlier calls. The invariant says of every activation
on the stack, not only the last, that its link is the latest frame below it of its
function's parent, that what is stored is that link, and that the walk so far has come
to the latest frame of a function that still lies inside its goal.

`EscapeInv`. The two walks have maps with different layers: the analysis opens none for a
loop and leaves its variable in the layer around it. Which names a walk may take for two variables depends on the whole
program, so the invariant speaks of the names as they stand: those no loop has (`PlainNames`) and those that one
loop has and nothing else (`LoopOnly`). `SideBySide` says that there is an increasing
map `g` from the layers of the analysis to those of the translator that binds
the first alike (`SameNames`), that every open loop of the second is
known to the analysis at or outside the place where the translator has it
(`SameLoops`), and that its name is bound in one layer only
(`LoopsOnce`). Then such a name, if it is defined, is the same variable for both
(`LookupsAgree`). When a declaration makes a name a shared one, it leaves both lists (`OtherLists`), and what has been
found under it before is excepted from then on.

`FramesAreStored` does not need the maps to agree, and so has no exception. `FunctionsKeepFrames` says that every function on
the way to the current one keeps its parent's frame, whatever it is used for, and `OwnersOpen` that a
variable the translator finds belongs to a function that is open.

### Names of types

`TypeInv` has the types of the objects and of the two maps, and that the state of the
loops refers to references only.

`ResolveInv`. That every reference leads to a type does not follow from every
reference having a meaning: references may go round in a circle, and while the third loop
is looking some of them do. `Back(types, B)` is the set of references that lead to an
object of `B`, the smallest set that holds `B` and is closed under going back over a reference. The
invariant says that all objects lead to a type, to a reference that the third loop
has not come to yet, or to the one it is at (`Begun`). When the walk comes back to where it
has been the reference found is made to mean the type of errors and so leads to a type; when the walk ends,
everything it has been to does. This holds in wrong programs too.

`NameInv` speaks of programs without an error so far. The names of earlier batches lead to
their types (`OldNames`); a name that is used and not declared yet is a reference without a meaning, one for each
such name and no others (`NewNames`, `UnknownNames`); every reference the batch has made leads to a
type or is what one of its names means (`NewReferences`). The delicate part is what a definition refers to, since the same
name may mean one thing before its declaration and another after it. `PartFound` says that a part
named when its name was known further out (`KnownBefore`) leads to that type for good, and that
any other part is what its name still stands for; a declared name leads to the object of its first declaration
in the scope (`Declared`), and a name that stands for another of the batch was declared after it or
leads to it over a reference (`InOrder`). What the third loop has visited leads to the current reference (`WalkInv`), so that coming back
to one of them is a circle of names. `ErrorsInv` relates the flag to what is wrong:
in the first loops it is set if a name is declared twice, and whenever it is set the batch is
wrong. That a batch without errors is right is then read off the other parts: all its names have a meaning and none goes
round in a circle.

### Spilling

`SpillInv`. Both properties are about the code after any number of rounds, in each of which every
instruction may be replaced by several, so the invariant is about the code itself. `Sound`
says that every instruction has what the rewriting asks of it (`Fits`), and that each
register made by spilling is assigned before it is read, with nothing but
inserted instructions in between (`SetBefore`). The proof has three parts.

- One instruction: `Replaces` says what the instructions in its place are like: they fit
  again, what they read is assigned among them or comes from before, what the old one
  assigned they assign, followed by inserted instructions only. `RewrittenReplaces` shows it for each of the ways
  `spillRegister` goes: a load before (`AfterLoad`), a store behind (`BeforeStore`), both (`Between`), the
  operand put into the frame's memory directly (`Alone`).
- The whole code: `FlattenSeq` of the community modules puts the pieces in a row (lemma
  `Flattens` of `Iteration`); `Joins` and `Places` say where in the row an instruction of a piece is.
- `SetBeforeJoined`: what was set before in the old code is set before in the new one, since what
  stood in between was inserted, and so is all that takes its place.

`TemporariesAreShort` follows from `Sound`: a register that is live after an instruction of the source is
read behind it, and its last assignment cannot be further up than that instruction.

### The stack of a function

`IInv`. Where the stack pointer is at a call depends on all the code before it, and this
is made of many pieces: moves of parameters, initial values, calls with the registers and
pushes of their arguments, saved registers. `Goes(c, a, b)` says that there is an annotation of the
code `c` with a progress before each instruction, the calls made and the words pushed, that begins with `a`, ends
with `b` and changes as the instructions say (`Moves`). It composes: pieces that follow one another (`GoesOn`, `GoesAlong`), pieces that do
not touch the stack (`Quiet`). The proof has three parts.

- The layout: frames are made of words (`Frames`), all variables have places (`LaidOut`). So the
  code of the function goes from no call to all of them with nothing left on the stack
  (`FunctionGoes`), one lemma per piece of code: `ArgumentsArePlaced`, `CallGoes`, `CallCodeGoes`, `BodyGoes`,
  `PrologueIsQuiet`, `EpilogueIsQuiet`.
- The code keeps its annotation when registers are spilled (`SpilledGoes`: what
  comes in the place of an instruction does the same to the stack, and loads and
  stores do nothing to it) and when the frame pointer is put in (`PutInGoes`). For the latter a push must
  remain a push and not become `leaq`: what is pushed is never the frame pointer
  (`OnStackOnly`, kept by the spilling).
- The run: before each instruction the stack pointer is below the entry by the size of the
  frame and the words the annotation has (`ReachedBy`).

`getFrameSize` is 8 modulo 16 (`SizeIs`), the entry is too, and so each call with an even
number of words pushed is aligned (`Aligned`). A run that meets `remove` stops there
(section 4), so a call behind one with pushed arguments is not reached in the code as it is; the annotation goes on as
the instruction is meant.

### Induction over data

tlapm cannot use the induction theorems of its library, which take an operator
as a parameter. `Iteration` states what these proofs need with sets in the place of
predicates: a set of natural numbers that is not empty has a least element (from
`WFMin` and the well-foundedness of `<`), so a set that contains 0 and is closed under successor is
`Nat` (`SetInduction`), and a function can be iterated (`Iteration`), which
unfolds the recursive functions of `Liveness` and `ArrangeJumps`; an iteration that grows
inside a finite set stops in time (`GrowthStops`). RECURSIVE operators,
which `Translation` and its parts are made of, remain out of reach.

### Assumptions

`CountsAssumption`, `InputsAssumption` (`RegAlloc`), `InstructionsAssumption`,
`SourcesAssumption` (a label is placed once, a destination is placed), `TranslatorAssumption` (section 2), `CodesAssumption` (what the constructors of the flow graph assert),
`MachineAssumption` (a machine register is its own colour), `NestingAssumption` (functions are
nested, in any number and to any depth), `DepthAssumption`, the `BoundsAssumption` of `Escape` and that of
`TypeNames`, `SourceAssumption` of `SpillRewrite`, and `ConventionAssumption` (registers are numbers, there is one for results) and `SourceAssumption` (what
is passed, assigned and returned are variables there are) of `CallFrames`. TLC evaluates all of them.

`SourceAssumption` of `SpillRewrite` says what the templates of `x86_64assembler.cpp` have in common (`Fits`): the only input of an instruction
is named in its text; what an instruction assigns is its second operand, a machine register, or can
be replaced by a store; what is read twice is not assigned by the same instruction. The code of every template, with all its
operands, is among the `Sources` of the run, so TLC evaluates the assumption for all
instructions the compiler emits. The code that spilling makes need not be assumed to
fit: that is part of the invariant.

### Only model-checked

- Liveness: `Terminates` of `RegAlloc` and `Liveness`, `BatchesEnd` of `TypeNames`. It
  rests on fairness, which is out of the prover's reach.
- The five properties of `Translation`. Its modules run trees with RECURSIVE operators, for which
  the prover loses its arithmetic, and what they say is an induction over trees.
- `KeepsMeaning` of `SpillRewrite`. Its exceptions (`NamedTwice`, `ImpliedIsUndisturbed`) are about the
  code as it is when it runs. A round that disturbs an implied input may be followed by one that no longer
  does, so a round cannot be shown to keep the meaning by itself, and the property is not inductive
  over rounds.
- `ArgumentsArrive`, `ReturnsToCaller` and `WritesOwnMemory` of `CallFrames`. They speak of the contents of
  registers and memory under a colouring of the whole function, before and behind calls: the invariant would be that of
  `AllocatedCode` for this code, with memory and the frames around it. The stack pointer does not
  depend on them, which is why its theorems can be had alone.

## 6. What is left

Possible next steps:

1. That arguments arrive and variables are kept in `CallFrames` for any number of them, and `KeepsMeaning` of
   `SpillRewrite` with the exceptions stated for each round.
2. Declarations of functions in batches, and the types of their parameters.
3. That the rounds of `AssignRegisters` end. `TemporariesStayShort` is the step towards it: what is left is that
   `prespillOne` chooses no temporary.

## 7. Not modelled

The parser and the syntax tree (a grammar for generators; the tree is the input of
`Translate`), messages and dumps, the runtime library (short calls of the C
library), the driver (it calls the phases one after the other, then assembler and linker), the samples. The Java
port repeats the C++ algorithms and is not modelled separately. `IdMap` is taken for the
map it is meant to be.
