----------------------------- MODULE MCCallFrames -----------------------------
(****************************************************************************)
(* Functions with up to four parameters, two of them in registers, that     *)
(* call twice: first with the parameters, then with the value of the first  *)
(* call.                                                                    *)
(****************************************************************************)
EXTENDS CallFrames

MCRAX == 1
MCRDX == 2
MCArguments == <<2, 3>>
MCLink == 4
MCCallerSaved == <<1, 2, 3, 4>>
MCCalleeSaved == <<5, 6>>
MCMachine == 1 .. 6
MCPreferences == {<<1, 2, 3, 4, 5, 6>>, <<6, 5, 4, 3, 2, 1>>}

Source(program, params, link_kind, variables, c, result_of) ==
  [program |-> program, params |-> params, link |-> link_kind, variables |-> variables,
   calls |-> c, result |-> result_of]

CallOf(arguments, passed, to) == [arguments |-> arguments, passed |-> passed, to |-> to]

(* A variable, and one that inner functions use. *)
Locals == <<FALSE, TRUE>>

Passes(link_kind) == IF link_kind = "none" THEN {"none", "own"} ELSE {"own", "parent"}

Parameters == {<<>>, <<FALSE>>, <<TRUE, FALSE>>, <<FALSE, TRUE, FALSE>>, <<FALSE, FALSE, TRUE, TRUE>>}

(* passed: the first n parameters; to: one of the locals; the last parameter or to is returned. *)
Function(params, link_kind, n, passed, to, last) ==
  Source(FALSE, params, link_kind, Locals,
         <<CallOf(Reverse([k \in 1 .. n |-> k]), passed, Len(params) + to),
           CallOf(<<Len(params) + 2, IF link_kind = "none" THEN Len(params) + 1 ELSE 0>>, "own", 0)>>,
         IF last /\ params # <<>> THEN Len(params) ELSE Len(params) + to)

Functions ==
  UNION {UNION {
    {Function(params, link_kind, n, passed, to, last) :
       n \in {Len(params), Min({2, Len(params)})}, passed \in Passes(link_kind), to \in {1, 2},
       last \in BOOLEAN} : link_kind \in {"none", "register", "memory"}} : params \in Parameters}

Program ==
  Source(TRUE, <<>>, "none", Locals, <<CallOf(<<1, 2>>, "own", 1), CallOf(<<2, 1>>, "none", 0)>>, 0)

MCSources == Functions \cup {Program}
==============================================================================
