------------------------------ MODULE CallFrames ------------------------------
(****************************************************************************)
(* The frame of a function and its part in the convention for calls:        *)
(* X86_64Frame of src/x86_64_frame.cpp, the prologues and epilogues of      *)
(* src/x86_64assembler.cpp, the frame pointer put in when the size of the   *)
(* frame is known, and placeCallArguments.                                  *)
(*                                                                          *)
(* One function is compiled and then run on a machine with a stack.  Its    *)
(* caller and its callees are whatever keeps the convention: a caller puts  *)
(* arguments where a callee expects them, a callee keeps the callee-save    *)
(* registers and the stack above its own part, and overwrites the rest.     *)
(* What a function of this compiler owes to both sides are the properties.  *)
(****************************************************************************)
EXTENDS Templates, Interference

CONSTANTS
  Machine,       \* machine registers for allocation
  RSP,
  CalleeSaved,
  Preferences,   \* orders in which colours are tried
  Sources,       \* the functions considered
  FirstNew,      \* registers from here on are made when registers are spilled
  MaxSpills      \* bound: registers spilled

(* Registers are numbers; there is one for the results of functions. *)
ASSUME ConventionAssumption ==
  /\ Link \in Nat /\ RAX \in Nat /\ RSP \in Nat /\ FirstNew \in Nat
  /\ Arguments \in Seq(Nat) /\ CalleeSaved \in Seq(Nat)
  /\ CallerSaved \in Seq(Nat) /\ CallerSaved # <<>>

(****************************************************************************)
(* A source has parameters and local variables, numbered together, which    *)
(* are TRUE if inner functions use them; a link to the frame of its parent  *)
(* ("none", "register", "memory" if inner functions use it too); calls one  *)
(* after the other, each with the variables it passes, the frame it passes  *)
(* ("none", "own", "parent") and the variable its value goes to (0: none);  *)
(* and the variable it returns.  Variable 0 is one of the parent.           *)
(****************************************************************************)

(* What is passed, assigned and returned are variables there are. *)
ASSUME SourceAssumption ==
  \A s \in Sources :
    /\ s.params \in Seq(BOOLEAN) /\ s.variables \in Seq(BOOLEAN)
    /\ s.result \in 0 .. Len(s.params) + Len(s.variables)
    /\ s.calls \in Seq([arguments : Seq(0 .. Len(s.params) + Len(s.variables)),
                        passed : {"none", "own", "parent"},
                        to : 0 .. Len(s.params) + Len(s.variables)])
    /\ s.link = "none" => \A c \in DOMAIN s.calls : 0 \notin ToSet(s.calls[c].arguments)

VARIABLES
  source,
  frame,           \* frame_size, param_count, param_stack_size
  parameters,      \* where the parameters are when the function is entered
  places,          \* where they and the variables are kept
  movements,       \* parameter_store_prologue
  link,            \* parent_fp_parameter
  code,
  spills,          \* number of registers spilled
  colour,
  pc,              \* "declare", "spill", "implement", "run", "returned", "fault"
  at,              \* the next instruction of the run
  registers,       \* contents of the machine registers but %rsp
  rsp,
  memory,          \* contents of addresses
  calls,           \* number of calls made
  values           \* what the variables should hold

compileVars == <<source, frame, parameters, places, movements, link, code, spills, colour>>
runVars == <<at, registers, rsp, memory, calls, values>>
vars == <<compileVars, pc, runVars>>

------------------------------------------------------------------------------
(* Frames. A place is a register or memory below (or above) the frame pointer. *)

NoPlace == [kind |-> "none"]

Flags == source.params \o source.variables

(* Virtual registers of the variables, the link, the arguments of calls and the saved ones. *)
VariableReg(n) == 10 + n
LinkReg == 20
ArgumentReg(c, k) == 30 + 10 * c + k
ValueReg(c) == 30 + 10 * c
SavedReg(k) == 70 + k
ResultReg == 80

MemoryOf_Above(f) == Below(FP, - ((f.frame_size + 8) \div 8))

MemoryOf(f) == Below(FP, (f.frame_size + 8) \div 8)

Grown_PaddingOnly(f) == [f EXCEPT !.frame_size = @]

Grown(f) == [f EXCEPT !.frame_size = @ + 8]

(* A parameter on the stack; 8 for the return address. *)
StackPlace(f) == Below(FP, - ((8 + f.param_stack_size) \div 8))

getFrameSize_Rounded(f) == f.frame_size + ((16 - (f.frame_size % 16)) % 16)

getFrameSize(f) == f.frame_size + ((24 - (f.frame_size % 16)) % 16)

Init ==
  /\ source \in Sources
  /\ frame = [frame_size |-> 0, param_count |-> 0, param_stack_size |-> 0]
  /\ parameters = <<>>
  /\ places = <<>>
  /\ movements = <<>>
  /\ link = NoPlace
  /\ code = <<>>
  /\ spills = 0
  /\ colour = <<>>
  /\ pc = IF source.link = "none" THEN "declare" ELSE "link"
  /\ at = 1
  /\ registers = <<>>
  /\ rsp = 0
  /\ memory = <<>>
  /\ calls = 0
  /\ values = <<>>

addParentFpParamVariable ==
  /\ pc = "link"
  /\ link' = Reg(LinkReg)
  /\ IF source.link = "memory"
     THEN /\ movements' = <<[parameter |-> Reg(LinkReg), where_store |-> MemoryOf(frame)]>>
          /\ frame' = Grown(frame)
     ELSE UNCHANGED <<movements, frame>>
  /\ pc' = "declare"
  /\ UNCHANGED <<source, parameters, places, code, spills, colour, runVars>>

(* A parameter that comes in a register and is used by inner functions is moved. *)
addParameter ==
  LET n == Len(parameters) + 1
      on_stack == frame.param_count >= Len(Arguments)
      counted == [frame EXCEPT !.param_count = @ + 1,
                               !.param_stack_size = IF on_stack THEN @ + 8 ELSE @]
      parameter == IF on_stack THEN StackPlace(frame) ELSE Reg(VariableReg(n))
      moved == ~ on_stack /\ source.params[n]
  IN /\ pc = "declare"
     /\ n <= Len(source.params)
     /\ parameters' = Append(parameters, parameter)
     /\ places' = Append(places, IF moved THEN MemoryOf(frame) ELSE parameter)
     /\ frame' = IF moved THEN Grown(counted) ELSE counted
     /\ movements' = IF moved
                     THEN Append(movements, [parameter |-> parameter, where_store |-> MemoryOf(frame)])
                     ELSE movements
     /\ UNCHANGED <<source, link, code, spills, colour, pc, runVars>>

addVariable ==
  LET n == Len(places) + 1
  IN /\ pc = "declare"
     /\ Len(parameters) = Len(source.params)
     /\ n <= Len(Flags)
     /\ IF Flags[n]
        THEN places' = Append(places, MemoryOf(frame)) /\ frame' = Grown(frame)
        ELSE places' = Append(places, Reg(VariableReg(n))) /\ UNCHANGED frame
     /\ UNCHANGED <<source, parameters, movements, link, code, spills, colour, pc, runVars>>

------------------------------------------------------------------------------
(* The code of the function. *)

Comment(inputs, outputs) == Instruction("comment", Nothing, Nothing, inputs, outputs, FALSE)

AssignTo(place, e) == IF place.kind = "register" THEN Yield(e, place.reg) ELSE StoreTo(e, place)

Each(n, Code(_)) == FlattenSeq([k \in 1 .. n |-> Code(k)])

functionPrologue ==
  <<Comment(<<>>, CalleeSaved)>>
    \o Each(Len(CalleeSaved), LAMBDA k : Yield(Reg(CalleeSaved[k]), SavedReg(k)))
    \o Each(Min({Len(parameters), Len(Arguments)}),
            LAMBDA k : Yield(Reg(Arguments[k]), parameters[k].reg))
    \o (IF link = NoPlace THEN <<>> ELSE Yield(Reg(Link), link.reg))

functionEpilogue ==
  (IF source.result = 0 THEN <<>> ELSE Yield(Reg(ResultReg), RAX))
    \o Each(Len(CalleeSaved), LAMBDA k : Yield(Reg(SavedReg(k)), CalleeSaved[k]))
    \o <<Comment(CalleeSaved, <<>>)>>

PlaceOf(n) == IF n = 0 THEN Below(link.reg, 1) ELSE places[n]

ParentFp(passed) ==
  CASE passed = "none"   -> NoParent
    [] passed = "own"    -> Reg(FP)
    [] passed = "parent" -> link

(* The arguments are evaluated into registers of their own first. *)
CallCode(c) ==
  LET call == source.calls[c]
      arguments == [k \in DOMAIN call.arguments |-> ArgumentReg(c, k)]
  IN Each(Len(arguments), LAMBDA k : Yield(PlaceOf(call.arguments[k]), arguments[k]))
       \o Call(arguments, ParentFp(call.passed), IF call.to = 0 THEN NoValue ELSE ValueReg(c))
       \o (IF call.to = 0 THEN <<>> ELSE AssignTo(places[call.to], Reg(ValueReg(c))))

Body ==
  Each(Len(movements), LAMBDA k : AssignTo(movements[k].where_store, movements[k].parameter))
    \o Each(Len(source.variables),
            LAMBDA k : LET n == Len(source.params) + k IN AssignTo(places[n], Literal(n)))
    \o Each(Len(source.calls), CallCode)
    \o (IF source.result = 0 THEN <<>> ELSE Yield(places[source.result], ResultReg))

(* The body of the program saves no registers. *)
translateFunctionBody ==
  /\ pc = "declare"
  /\ Len(places) = Len(Flags)
  /\ code' = IF source.program THEN Body ELSE functionPrologue \o Body \o functionEpilogue
  /\ pc' = "spill"
  /\ UNCHANGED <<source, frame, parameters, places, movements, link, spills, colour, runVars>>

VirtualRegisters ==
  UNION {ToSet(code[p].inputs) \cup ToSet(code[p].outputs) : p \in DOMAIN code}
    \ (Machine \cup {FP})

Prespilled == IF source.link = "memory" THEN {LinkReg} ELSE {}

spillRegister(reg) ==
  /\ pc = "spill"
  /\ spills < MaxSpills
  /\ reg \notin Prespilled
  /\ ~ \E p \in DOMAIN code : RewriteAssertFails(code[p], reg)
  /\ code' = FlattenSeq([p \in DOMAIN code |->
               Rewritten(code[p], reg, MemoryOf(frame).slot, FirstNew + 200 * spills + 2 * p)])
  /\ frame' = Grown(frame)
  /\ spills' = spills + 1
  /\ UNCHANGED <<source, parameters, places, movements, link, colour, pc, runVars>>

------------------------------------------------------------------------------
(* Allocation: a proper colouring, one for every order of preference. *)

LiveAfter ==
  LET Above(i, below) == <<(ToSet(i.inputs) \cup (Head(below) \ ToSet(i.outputs))) \ {FP}>> \o below
  IN Tail(FoldRight(Above, code, <<{}>>))

LivenessOf ==
  [move     |-> [p \in DOMAIN code |-> code[p].move],
   used     |-> [p \in DOMAIN code |-> ToSet(code[p].inputs)],
   assigned |-> [p \in DOMAIN code |-> ToSet(code[p].outputs)],
   live     |-> LiveAfter]

Edges ==
  LET l == LivenessOf
  IN UNION {{e \in l.assigned[p] \X l.live[p] : CollidesAt(l, p, e[1], e[2])} : p \in DOMAIN code}

NoColour == 0

Coloured(preference) ==
  LET edges == Edges
      Near(r) == UNION {{e[1], e[2]} : e \in {f \in edges : r \in {f[1], f[2]}}}
      With(r, colours) ==
        LET taken == {colours[m] : m \in Near(r) \cap DOMAIN colours}
            free == SelectSeq(preference, LAMBDA m : m \notin taken)
        IN (r :> IF free = <<>> THEN NoColour ELSE Head(free)) @@ colours
  IN FoldSet(With, [m \in Machine |-> m], VirtualRegisters)

AssignRegisters ==
  /\ pc = "spill"
  /\ \E preference \in Preferences :
       /\ colour' = Coloured(preference)
       /\ \A r \in DOMAIN colour' : colour'[r] # NoColour
  /\ pc' = "implement"
  /\ UNCHANGED <<source, frame, parameters, places, movements, link, code, spills, runVars>>

(* Memory moves up by the size of the frame; a move of the frame pointer becomes leaq. *)
addOffset(o, n, words) == IF o.kind \in {"input", "memory"} /\ o.n = n THEN At(n, o.slot - words) ELSE o

implementFramePointer(i, words) ==
  IF FP \notin ToSet(i.inputs) THEN i
  ELSE LET n == FirstNamed(i, FP)
       IN [i EXCEPT !.inputs[n] = RSP, !.op = IF i.from = In(n) THEN "lea" ELSE @,
                    !.from = addOffset(@, n, words), !.to = addOffset(@, n, words)]

implementFrameSize ==
  LET size == Operand(Literal(getFrameSize(frame)), 1)
      Plain(op) == <<Instruction(op, size, Nothing, <<>>, <<>>, FALSE)>>
  IN /\ pc = "implement"
     /\ code' = Plain("lower")
                  \o [p \in DOMAIN code |-> implementFramePointer(code[p], getFrameSize(frame) \div 8)]
                  \o (IF source.program THEN Yield(Number, RAX) ELSE <<>>)
                  \o Plain("raise") \o Plain("ret")
     /\ pc' = "enter"
     /\ UNCHANGED <<source, frame, parameters, places, movements, link, spills, colour, runVars>>

------------------------------------------------------------------------------
(* The machine. A value is tagged; an address of the stack can be told from others. *)

Entry == 808          \* where the return address is; the callers' frames are above
ParentFrameAt == 904

Garbage == <<"garbage", 0>>
ReturnAddress == <<"return", 0>>
Address(a) == <<"address", a>>

MemoryAt(a) == IF a \in DOMAIN memory THEN memory[a] ELSE Garbage

StackParameter(k) == Entry + 8 * (k - Len(Arguments))

(* What a caller that keeps the convention has prepared. *)
enter ==
  LET n == Len(source.params)
      value(r) == CASE r \in ToSet(CalleeSaved) -> <<"saved", r>>
                    [] r = Link -> Address(ParentFrameAt)
                    [] r \in ToSet(Arguments) -> <<"variable", CHOOSE k \in DOMAIN Arguments : Arguments[k] = r>>
                    [] OTHER -> Garbage
  IN /\ pc = "enter"
     /\ registers' = [r \in Machine |-> value(r)]
     /\ rsp' = Entry
     /\ memory' = [a \in {StackParameter(k) : k \in Len(Arguments) + 1 .. n} |->
                     <<"variable", Len(Arguments) + (a - Entry) \div 8>>]
                  @@ (Entry :> ReturnAddress) @@ (ParentFrameAt - 8 :> <<"variable", 0>>)
     /\ values' = [k \in 0 .. Len(Flags) |->
                     <<IF k > n THEN "constant" ELSE "variable", k>>]
     /\ pc' = "run"
     /\ UNCHANGED <<compileVars, at, calls>>

Current == code[at]

RegisterAt(r) == registers[colour[r]]

Base(r) == IF r = RSP THEN rsp ELSE RegisterAt(r)[2]

AddressOf(i, o) == Base(i.inputs[o.n]) - 8 * o.slot

ValueOf(i, o) ==
  CASE o.kind = "const"  -> <<"constant", o.n>>
    [] o.kind = "input"  -> RegisterAt(i.inputs[o.n])
    [] o.kind = "memory" -> MemoryAt(AddressOf(i, o))

Advance == at' = at + 1 /\ UNCHANGED <<compileVars, pc>>

move ==
  /\ pc = "run"
  /\ Current.op \in {"mov", "lea"}
  /\ LET value == IF Current.op = "lea" THEN Address(AddressOf(Current, Current.from))
                  ELSE ValueOf(Current, Current.from)
     IN IF Current.to.kind = "output"
        THEN /\ registers' = [registers EXCEPT ![colour[Current.outputs[1]]] = value]
             /\ UNCHANGED memory
        ELSE /\ memory' = (AddressOf(Current, Current.to) :> value) @@ memory
             /\ UNCHANGED registers
  /\ Advance
  /\ UNCHANGED <<rsp, calls, values>>

push ==
  /\ pc = "run"
  /\ Current.op = "push"
  /\ rsp' = rsp - 8
  /\ memory' = (rsp - 8 :> ValueOf(Current, Current.from)) @@ memory
  /\ Advance
  /\ UNCHANGED <<registers, calls, values>>

moveStackPointer ==
  /\ pc = "run"
  /\ Current.op \in {"lower", "raise"}
  /\ rsp' = IF Current.op = "lower" THEN rsp - Current.from.n ELSE rsp + Current.from.n
  /\ Advance
  /\ UNCHANGED <<registers, memory, calls, values>>

comment ==
  /\ pc = "run"
  /\ Current.op = "comment"
  /\ Advance
  /\ UNCHANGED <<registers, rsp, memory, calls, values>>

------------------------------------------------------------------------------
(* Calls, as the callee sees them. *)

NextCall == source.calls[calls + 1]
Passed == NextCall.arguments

ArgumentAt(k) ==
  IF k <= Len(Arguments) THEN registers[Arguments[k]]
  ELSE MemoryAt(rsp + 8 * (k - Len(Arguments) - 1))

(* Variables that an inner function changes by the frame it is passed. *)
Escaping == {n \in DOMAIN places : Flags[n] /\ NextCall.passed = "own"}

Changed(n) == <<"changed", 10 * calls + n>>

Result == <<"result", calls>>

(* A callee overwrites what it may, its arguments on the stack included. *)
call ==
  LET own == {a \in DOMAIN memory : a < rsp + 8 * OnStack(Passed)}
      written == [a \in {registers[Link][2] - 8 * places[n].slot : n \in Escaping} |->
                    Changed(CHOOSE n \in Escaping : a = registers[Link][2] - 8 * places[n].slot)]
  IN /\ pc = "run"
     /\ Current.op = "call"
     /\ registers' = [r \in Machine |->
                        IF r = RAX THEN Result
                        ELSE IF r \in ToSet(CalleeSaved) THEN registers[r] ELSE Garbage]
     /\ memory' = written @@ Restrict(memory, DOMAIN memory \ own)
     /\ values' = [n \in DOMAIN values |->
                     IF n = NextCall.to /\ n # 0 THEN Result
                     ELSE IF n \in Escaping THEN Changed(n) ELSE values[n]]
     /\ calls' = calls + 1
     /\ Advance
     /\ UNCHANGED rsp

(* The addition to %rsp reads an address that no program has. *)
remove ==
  /\ pc = "run"
  /\ Current.op = "remove"
  /\ pc' = "fault"
  /\ UNCHANGED <<compileVars, runVars>>

ret ==
  /\ pc = "run"
  /\ Current.op = "ret"
  /\ pc' = "returned"
  /\ UNCHANGED <<compileVars, runVars>>

Stopped ==
  /\ pc \in {"returned", "fault"} \/ (pc = "spill" /\ spills = MaxSpills)
  /\ UNCHANGED vars

Next ==
  \/ addParentFpParamVariable \/ addParameter \/ addVariable \/ translateFunctionBody
  \/ \E reg \in VirtualRegisters : spillRegister(reg)
  \/ AssignRegisters \/ implementFrameSize
  \/ enter \/ move \/ push \/ moveStackPointer \/ comment \/ call \/ remove \/ ret
  \/ Stopped

Spec == Init /\ [][Next]_vars

------------------------------------------------------------------------------
TypeOK ==
  /\ source \in Sources
  /\ frame \in [frame_size : {8 * n : n \in 0 .. 10}, param_count : 0 .. 10, param_stack_size : {8 * n : n \in 0 .. 10}]
  /\ code \in Seq(InstructionType)
  /\ spills \in 0 .. MaxSpills
  /\ pc \in {"link", "declare", "spill", "implement", "enter", "run", "returned", "fault"}
  /\ pc = "run" => at \in DOMAIN code
  /\ calls \in 0 .. Len(source.calls)
  /\ \A r \in DOMAIN colour : colour[r] \in Machine
  /\ rsp \in 0 .. Entry

(* A register that is pushed as an argument has been spilled. *)
PushesSpilled == \E p \in DOMAIN code : code[p].op = "push" /\ code[p].inputs[1] >= FirstNew

(****************************************************************************)
(* placeCallArguments, and everything before it: whatever is spilled and    *)
(* wherever the variables are, a callee finds the values of the variables   *)
(* passed where the convention puts them, and the frame it is to find in    *)
(* %r10.  Not so when a pushed register has been spilled: it is loaded      *)
(* relative to a stack pointer that an earlier push has moved, and may be   *)
(* loaded into an argument register.                                        *)
(****************************************************************************)
ArgumentsArrive ==
  pc = "run" /\ Current.op = "call" /\ ~ PushesSpilled =>
    /\ \A k \in DOMAIN Passed : ArgumentAt(k) = values[Passed[k]]
    /\ NextCall.passed = "own" => registers[Link] = Address(Entry)
    /\ NextCall.passed = "parent" => registers[Link] = Address(ParentFrameAt)

(****************************************************************************)
(* getFrameSize: at a call the stack is aligned to 16 bytes, as the C       *)
(* functions of the library need it, unless an odd number of arguments has  *)
(* been pushed.                                                             *)
(****************************************************************************)
StackIsAligned ==
  pc = "run" /\ Current.op = "call" /\ OnStack(Passed) % 2 = 0 => rsp % 16 = 0

(****************************************************************************)
(* functionEpilogue and frameEpilogue: at its end a function is about to    *)
(* return to its caller, with its result in %rax and with the callee-save   *)
(* registers the caller had.  The program itself saves none.                *)
(****************************************************************************)
ReturnsToCaller ==
  pc = "returned" =>
    /\ rsp = Entry
    /\ MemoryAt(rsp) = ReturnAddress
    /\ IF source.program THEN registers[RAX] = <<"constant", 0>>
       ELSE \A k \in DOMAIN CalleeSaved : registers[CalleeSaved[k]] = <<"saved", CalleeSaved[k]>>
    /\ source.result # 0 => registers[RAX] = values[source.result]

(****************************************************************************)
(* X86_64Frame and the spilling: a function writes to its frame, between    *)
(* the stack pointer and the return address, and to the places the caller   *)
(* has made for its parameters, and nowhere else.                           *)
(****************************************************************************)
WritesOwnMemory ==
  [][\A a \in DOMAIN memory' :
       move /\ memory'[a] # MemoryAt(a) =>
         \/ a \in rsp .. Entry - 1
         \/ \E k \in Len(Arguments) + 1 .. Len(source.params) : a = StackParameter(k)]_vars
==============================================================================
