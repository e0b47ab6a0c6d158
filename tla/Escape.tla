------------------------------- MODULE Escape -------------------------------
(***************************************************************************)
(* Which variables must be in memory: VariablesAccessInfo                  *)
(* (translate_utils.cpp) walks the program ahead of the translator and     *)
(* looks names up on its own.  Whether a variable gets a register depends  *)
(* on its answer (isAccessedByAddress), what the variable is used for on   *)
(* the names the translator has open; createCode asserts that the two      *)
(* agree.  A program is written one element at a time, in the order of the *)
(* source, and both walks follow it.                                       *)
(***************************************************************************)
EXTENDS LayeredMap, FiniteSets

CONSTANTS
    Names,        \* names of variables, parameters and variables of loops
    MaxElements,  \* bound on the elements of a program
    MaxFunctions  \* bound on the functions of a program

NoName == "no name"

ASSUME BoundsAssumption ==
    /\ MaxElements \in Nat /\ MaxFunctions \in Nat
    /\ NoName \notin Names

Main == 0
NoVariable == [variable |-> 0, owner |-> Main]

VARIABLES
    elements,        \* number of elements written; an element names what it declares
    declared_names,  \* names that have been declared
    loop_names,      \* names that have been given to the variable of a loop
    shared_names,    \* names of a loop's variable that something else has too
    open,            \* constructs that are not closed; of a scope, which part
    func_stack,      \* functions that are not closed, the body of the program first
    variable_names,  \* the names as the analysis sees them
    var_info,        \* variables, with their names, the analysis knows inner functions to use
    exports,         \* func_exports_parent_fp_to_children
    func_and_var_names, \* the names as the translator sees them
    captured,        \* variables the translator uses from another function than theirs
    captured_initially, \* the same, for uses in the initial value of a variable
    stored_fps       \* functions whose copy of the parent frame is read by inner ones

analysis == <<variable_names, var_info, exports>>
declared == <<declared_names, loop_names, shared_names>>
translation == <<func_and_var_names, captured, captured_initially, stored_fps>>
vars == <<elements, declared, open, func_stack, analysis, translation>>

Depth == Len(func_stack)
current_function == func_stack[Depth]

Init ==
    /\ elements = 0
    /\ declared_names = {} /\ loop_names = {} /\ shared_names = {}
    /\ open = <<>> /\ func_stack = <<Main>>
    /\ variable_names = EmptyMap /\ var_info = {} /\ exports = {}
    /\ func_and_var_names = EmptyMap /\ stored_fps = {}
    /\ captured = {} /\ captured_initially = {}

Own(v) == [variable |-> v, owner |-> current_function]

FunctionsUpTo(owner) ==
    LET at == CHOOSE i \in 1 .. Depth : func_stack[i] = owner
    IN  {func_stack[i] : i \in at + 1 .. Depth}

Nothing == [variables |-> {}, functions |-> {}]

\* A use of a variable from the current function: the variable, by its name,
\* and the functions that lead to it, the current one excepted.
Use(name, variable) ==
    [variables |-> {[variable |-> variable.variable, name |-> name]},
     functions |-> FunctionsUpTo(variable.owner) \ {current_function}]

Analysed_ParentOnly(names, use) ==
    LET variable == lookup(names, use, NoVariable)
    IN  IF variable = NoVariable \/ Depth = 1 \/ variable.owner # func_stack[Depth - 1]
        THEN Nothing ELSE Use(use, variable)

Analysed_OwnToo(names, use) ==
    LET variable == lookup(names, use, NoVariable)
    IN  IF variable = NoVariable THEN Nothing ELSE Use(use, variable)

\* IDENTIFIER in processExpression.
Analysed(names, use) ==
    LET variable == lookup(names, use, NoVariable)
    IN  IF variable = NoVariable \/ variable.owner = current_function
        THEN Nothing ELSE Use(use, variable)

\* createCode for a name in the function being translated: a path over the
\* frames between it and the owner.
Accessed(names, use) ==
    LET variable == lookup(names, use, NoVariable)
    IN  IF variable = NoVariable \/ variable.owner = current_function
        THEN Nothing ELSE Use(use, variable)

Note(seen, found) ==
    /\ var_info' = var_info \cup seen.variables
    /\ exports' = exports \cup seen.functions
    /\ stored_fps' = stored_fps \cup found.functions

\* An undefined name is an error: no code is made of such a program.
Defined(use) ==
    use = NoName \/ lookup(func_and_var_names, use, NoVariable) # NoVariable

Write ==
    /\ elements < MaxElements
    /\ elements' = elements + 1

\* Which names loops share with others (the code does not keep these lists).
Declared(name, loop) ==
    /\ declared_names' = declared_names \cup {name}
    /\ loop_names' = IF loop THEN loop_names \cup {name} ELSE loop_names
    /\ shared_names' = IF name \in declared_names /\ (loop \/ name \in loop_names)
                       THEN shared_names \cup {name} ELSE shared_names

Top == open[Len(open)]
InDeclarations == open # <<>> /\ Top = "declarations"

\* An expression ends the declarations of the scope it is in.
ExpressionWritten ==
    IF InDeclarations THEN [open EXCEPT ![Len(open)] = "body"] ELSE open

\* processDeclaration leaves the initial value of a variable alone;
\* processVariableDeclaration translates it before it adds the variable.
SeenInInitializer(use) == Nothing

VariableDeclaration(name, use) ==
    /\ InDeclarations
    /\ Defined(use) /\ Write /\ Declared(name, FALSE)
    /\ LET found == Accessed(func_and_var_names, use) IN
       /\ Note(SeenInInitializer(use), found)
       /\ captured_initially' = captured_initially \cup found.variables
    /\ variable_names' = add(variable_names, name, Own(elements'))
    /\ func_and_var_names' = add(func_and_var_names, name, Own(elements'))
    /\ UNCHANGED <<open, func_stack, captured>>

FunctionExports_Never == {}
\* A function in which another is declared keeps its parent's frame for it.
FunctionExports == IF current_function = Main THEN {} ELSE {current_function}

FunctionBegin(param) ==
    /\ InDeclarations
    /\ Cardinality({i \in 1 .. Len(open) : open[i] = "function"}) < MaxFunctions
    /\ Write /\ Declared(param, FALSE)
    /\ exports' = exports \cup FunctionExports
    /\ func_stack' = Append(func_stack, elements')
    /\ open' = Append(open, "function")
    /\ LET parameter == [variable |-> elements', owner |-> elements'] IN
       /\ variable_names' = add(newLayer(variable_names), param, parameter)
       /\ func_and_var_names' = add(newLayer(func_and_var_names), param, parameter)
    /\ UNCHANGED <<var_info, captured, captured_initially, stored_fps>>

FunctionEnd ==
    /\ open # <<>> /\ Top = "function"
    /\ open' = SubSeq(open, 1, Len(open) - 1)
    /\ func_stack' = SubSeq(func_stack, 1, Depth - 1)
    /\ variable_names' = removeLastLayer(variable_names)
    /\ func_and_var_names' = removeLastLayer(func_and_var_names)
    /\ UNCHANGED <<elements, declared, var_info, exports, captured, captured_initially, stored_fps>>

ScopeBegin ==
    /\ Write
    /\ open' = Append(ExpressionWritten, "declarations")
    /\ variable_names' = newLayer(variable_names)
    /\ func_and_var_names' = newLayer(func_and_var_names)
    /\ UNCHANGED <<declared, func_stack, var_info, exports, captured, captured_initially, stored_fps>>

ScopeEnd ==
    /\ open # <<>> /\ Top \in {"declarations", "body"}
    /\ open' = SubSeq(open, 1, Len(open) - 1)
    /\ variable_names' = removeLastLayer(variable_names)
    /\ func_and_var_names' = removeLastLayer(func_and_var_names)
    /\ UNCHANGED <<elements, declared, func_stack, var_info, exports, captured, captured_initially, stored_fps>>

\* A loop whose bounds use a name: the analysis has added the variable
\* before it looks at the bounds, and opens no layer for it; translateFor
\* translates the bounds first.
ForBegin(name, use) ==
    /\ Defined(use) /\ Write /\ Declared(name, TRUE)
    /\ open' = Append(ExpressionWritten, "for")
    /\ variable_names' = add(variable_names, name, Own(elements'))
    /\ LET found == Accessed(func_and_var_names, use) IN
       /\ Note(Analysed(variable_names', use), found)
       /\ captured' = captured \cup found.variables
    /\ func_and_var_names' = add(newLayer(func_and_var_names), name, Own(elements'))
    /\ UNCHANGED <<func_stack, captured_initially>>

ForEnd ==
    /\ open # <<>> /\ Top = "for"
    /\ open' = SubSeq(open, 1, Len(open) - 1)
    /\ func_and_var_names' = removeLastLayer(func_and_var_names)
    /\ UNCHANGED <<elements, declared, func_stack, analysis, captured, captured_initially, stored_fps>>

\* A variable is read or assigned.
Identifier(use) ==
    /\ Defined(use) /\ Write
    /\ LET found == Accessed(func_and_var_names, use) IN
       /\ Note(Analysed(variable_names, use), found)
       /\ captured' = captured \cup found.variables
    /\ open' = ExpressionWritten
    /\ UNCHANGED <<declared, func_stack, variable_names, func_and_var_names, captured_initially>>

\* A call of a function declared in func_stack[i], further out than the
\* parent of the caller: its frame is found over the frames in between.
FunctionCall(i) ==
    /\ i \in 1 .. Depth - 2
    /\ Write
    /\ stored_fps' = stored_fps \cup {func_stack[k] : k \in i + 1 .. Depth - 1}
    /\ open' = ExpressionWritten
    /\ UNCHANGED <<declared, func_stack, analysis, func_and_var_names, captured, captured_initially>>

Next ==
    \/ \E name \in Names, use \in Names \cup {NoName} :
          VariableDeclaration(name, use) \/ ForBegin(name, use)
    \/ \E name \in Names : Identifier(name) \/ FunctionBegin(name)
    \/ FunctionEnd \/ ScopeBegin \/ ScopeEnd \/ ForEnd
    \/ \E i \in 1 .. Depth : FunctionCall(i)

Spec == Init /\ [][Next]_vars

-----------------------------------------------------------------------------
(* Properties *)

Uses == [variable : 1 .. MaxElements, name : Names]

TypeOK ==
    /\ elements \in 0 .. MaxElements
    /\ declared_names \subseteq Names /\ shared_names \subseteq loop_names
    /\ loop_names \subseteq declared_names
    /\ open \in Seq({"declarations", "body", "function", "for"})
    /\ func_stack \in Seq(0 .. MaxElements)
    /\ Depth = 1 + Cardinality({i \in 1 .. Len(open) : open[i] = "function"})
    /\ Len(func_and_var_names) = 1 + Len(open)
    /\ Len(variable_names) = 1 + Cardinality({i \in 1 .. Len(open) : open[i] # "for"})
    /\ var_info \cup captured \cup captured_initially \subseteq Uses
    /\ exports \cup stored_fps \subseteq 1 .. MaxElements

\* createCode asserts that a variable in a register is used by its own
\* function only (assert(calling_frame == owner_frame)).  The analysis finds
\* every use of an outer variable the translator finds, except for names that
\* a loop shares with another declaration, to which it may give another
\* variable, and for uses in initial values, which it does not look at.
CapturedInMemory ==
    \A use \in captured : use \in var_info \/ use.name \in shared_names

\* Variables are not forced into memory without need: what the analysis finds
\* the translator uses from an inner function, the same names excepted.
MemoryIsNeeded ==
    \A use \in var_info : use \in captured \/ use.name \in shared_names

\* An inner function that goes over a frame finds the parent's frame stored
\* in it (assert(var_location != NULL)): in every program, the excepted uses
\* included.
FramesAreStored == stored_fps \subseteq exports

\* The assert of createCode (x86_64_frame.cpp:42) for all programs: a variable
\* that another function uses is never in a register.  It fails: the name of a
\* loop's variable may mean two variables to the two walks, and a variable may
\* be used in an initial value only.
RegistersStayInFunction == captured \cup captured_initially \subseteq var_info
=============================================================================
