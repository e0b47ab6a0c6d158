---------------------------- MODULE StaticLinks ----------------------------
(***************************************************************************)
(* Calls between nested functions, as the code for them is chosen by       *)
(* makeCallCode (translator.cpp) and X86_64VarLocation::createCode         *)
(* (x86_64_frame.cpp).  A function receives the frame of the function that *)
(* declares it; the caller finds that frame by going outwards from its     *)
(* own.  stack is the run-time stack: one record per activation.           *)
(***************************************************************************)
EXTENDS Integers, Sequences

CONSTANTS
    Functions,   \* the functions of the program, its body included
    Program,     \* the body of the program (the frame .global)
    Parent,      \* the function whose body contains the declaration of a function
    Inside,      \* pairs <<f, g>>: f is declared in g, at any depth
    MaxDepth     \* bound on the number of activations

ASSUME NestingAssumption ==
    /\ Program \in Functions
    /\ Parent \in [Functions \ {Program} -> Functions]
    /\ Inside \subseteq Functions \X Functions
    /\ \A f \in Functions : <<f, f>> \notin Inside
    /\ \A f, g, h \in Functions :
          <<f, g>> \in Inside /\ <<g, h>> \in Inside => <<f, h>> \in Inside
    /\ \A f \in Functions \ {Program} : <<f, Parent[f]>> \in Inside
    /\ \A f, g \in Functions : <<f, g>> \in Inside =>
          f # Program /\ (g = Parent[f] \/ <<Parent[f], g>> \in Inside)

ASSUME DepthAssumption == MaxDepth \in Nat \ {0}

NoFrame == 0

ExportsParentFp_Never(f) == FALSE

\* Functions whose frame keeps the parent's frame in memory for inner
\* functions: func_exports_parent_fp_to_children of the access analysis.
ExportsParentFp(f) == \E g \in Functions \ {Program} : Parent[g] = f

VARIABLES
    stack,    \* activations: function, parent frame in its register, the copy in memory
    goal,     \* what is being looked for from the top frame
    sibling,  \* the function whose frame has been reached
    at        \* that frame: its position on the stack

linkVars == <<stack, goal, sibling, at>>

NoGoal == [kind |-> "none", func |-> Program]
Goals == [kind : {"none", "call", "variable"}, func : Functions]

Activations == [func : Functions, parent_fp : Nat, stored : Nat]

TopFrame == Len(stack)
Current == stack[TopFrame].func

LinksTypeOK ==
    /\ stack \in Seq(Activations)
    /\ goal \in Goals
    /\ sibling \in Functions
    /\ at \in Nat

Activation(f, fp) ==
    [func |-> f, parent_fp |-> fp,
     stored |-> IF f # Program /\ ExportsParentFp(f) THEN fp ELSE NoFrame]

LinksInit ==
    /\ stack = <<Activation(Program, NoFrame)>>
    /\ goal = NoGoal
    /\ sibling = Program
    /\ at = 1

\* The callee starts: prependPrologue copies its parent frame to memory if
\* inner functions need it.
Enter(g, fp) ==
    /\ stack' = Append(stack, Activation(g, fp))
    /\ goal' = NoGoal
    /\ sibling' = g
    /\ at' = TopFrame + 1

Ready == goal = NoGoal /\ TopFrame < MaxDepth

\* The callee is declared in the function that calls it.
CallChild(g) ==
    /\ Ready
    /\ g # Program /\ Parent[g] = Current
    /\ Enter(g, TopFrame)

CallSibling_OwnFrame(g) ==
    /\ Ready
    /\ g # Program /\ Current # Program /\ Parent[g] = Parent[Current]
    /\ Enter(g, TopFrame)

\* Caller and callee are declared in the same function.
CallSibling(g) ==
    /\ Ready
    /\ g # Program /\ Current # Program /\ Parent[g] = Parent[Current]
    /\ Enter(g, stack[TopFrame].parent_fp)

Look(kind, f) ==
    /\ goal' = [kind |-> kind, func |-> f]
    /\ sibling' = Current
    /\ at' = TopFrame
    /\ UNCHANGED stack

\* The callee is declared further out: the loop over the parents begins.
CallOuter(g) ==
    /\ Ready
    /\ g # Program /\ Current # Program /\ <<Parent[Current], Parent[g]>> \in Inside
    /\ Look("call", g)

\* A variable of an enclosing function is read or written.
UseVariable(f) ==
    /\ goal = NoGoal
    /\ <<Current, f>> \in Inside
    /\ Look("variable", f)

Reached ==
    \/ goal.kind = "call" /\ Parent[sibling] = Parent[goal.func]
    \/ goal.kind = "variable" /\ sibling = goal.func

\* The parent frame as code in the frame of the caller finds it: its own
\* in a register, that of an outer function in the memory of its frame.
ParentFpOf(i) == IF i = TopFrame THEN stack[i].parent_fp ELSE stack[i].stored

GoOut_FromCaller ==
    /\ goal # NoGoal /\ ~ Reached
    /\ at' = ParentFpOf(TopFrame)
    /\ sibling' = Parent[sibling]
    /\ UNCHANGED <<stack, goal>>

GoOut ==
    /\ goal # NoGoal /\ ~ Reached
    /\ at' = ParentFpOf(at)
    /\ sibling' = Parent[sibling]
    /\ UNCHANGED <<stack, goal>>

CallReached ==
    /\ goal.kind = "call" /\ Reached
    /\ Enter(goal.func, ParentFpOf(at))

VariableReached ==
    /\ goal.kind = "variable" /\ Reached
    /\ goal' = NoGoal
    /\ UNCHANGED <<stack, sibling, at>>

Return ==
    /\ goal = NoGoal /\ TopFrame > 1
    /\ stack' = SubSeq(stack, 1, TopFrame - 1)
    /\ sibling' = stack[TopFrame - 1].func
    /\ at' = TopFrame - 1
    /\ UNCHANGED goal

LinksNext ==
    \/ \E g \in Functions : CallChild(g) \/ CallSibling(g) \/ CallOuter(g) \/ UseVariable(g)
    \/ GoOut \/ CallReached \/ VariableReached \/ Return

LinksSpec == LinksInit /\ [][LinksNext]_linkVars

-----------------------------------------------------------------------------
(* Properties *)

\* Position i holds the last activation of f among the first n.
IsLatest(i, f, n) ==
    /\ i \in 1 .. n
    /\ stack[i].func = f
    /\ \A k \in i + 1 .. n : stack[k].func # f

\* Functions are not values in Tiger, so the frame of the declaring function
\* is the latest one of that function below the callee, whatever was called
\* in between: makeCallCode must hand over exactly that frame.
LinksAreLatest ==
    \A i \in 2 .. TopFrame : IsLatest(stack[i].parent_fp, Parent[stack[i].func], i - 1)

\* A variable of an enclosing function is looked up in the frame of that
\* function's latest activation (createCode).
VariableInLatest ==
    goal.kind = "variable" /\ Reached => IsLatest(at, goal.func, TopFrame)

\* No code reads the parent frame from a frame that has not stored it
\* (assert(var_location != NULL) in createCode).
LinkIsStored == goal # NoGoal /\ ~ Reached => ParentFpOf(at) # NoFrame
============================================================================
