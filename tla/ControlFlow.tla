----------------------------- MODULE ControlFlow -----------------------------
(****************************************************************************)
(* The statements the translator makes of the control structures of Tiger   *)
(* (src/translator.cpp), after canonicalization has put them into one       *)
(* sequence.  A structure is a record with its kind and its parts.  What a  *)
(* condition is made of is left out but for constants.                      *)
(****************************************************************************)
EXTENDS ArrangeJumps

Conditions == {"test", "always", "never"}

(* The jump by a condition (killCodeToCondJump); constants jump at once. *)
JumpBy(condition, operation, true_label, false_label) ==
  CASE condition = "test"   -> Statement("cond", operation, true_label, false_label)
    [] condition = "always" -> JumpTo(true_label)
    [] condition = "never"  -> JumpTo(false_label)

Operation(n) == Statement("other", n, NoLabel, NoLabel)

(****************************************************************************)
(* Labels and operations are numbered from n; next is the first number that *)
(* is left.  loop_exit is where a break goes.                               *)
(****************************************************************************)
RECURSIVE Translated(_, _, _)

translateIf(t, n, loop_exit) ==
  LET action == Translated(t.action, n + 3, loop_exit)
  IN [code |-> <<JumpBy(t.condition, n, n + 1, n + 2), Placement(n + 1)>>
                 \o action.code \o <<Placement(n + 2)>>,
      next |-> action.next]

(* Also & and |, with constants and conditions for actions. *)
translateIfElse(t, n, loop_exit) ==
  LET action == Translated(t.action, n + 4, loop_exit)
      elseaction == Translated(t.elseaction, action.next, loop_exit)
  IN [code |-> <<JumpBy(t.condition, n, n + 1, n + 2), Placement(n + 1)>>
                 \o action.code \o <<JumpTo(n + 3), Placement(n + 2)>>
                 \o elseaction.code \o <<Placement(n + 3)>>,
      next |-> elseaction.next]

(* The condition is turned round: the loop body is what follows it. *)
translateWhile(t, n) ==
  LET exit == n + 3
      action == Translated(t.action, n + 4, exit)
      jump == JumpBy(t.condition, n, n + 2, exit)
  IN [code |-> <<Placement(n + 1), IF jump.kind = "cond" THEN FlipComparison(jump) ELSE jump,
                 Placement(n + 2)>>
                 \o action.code \o <<JumpTo(n + 1), Placement(exit)>>,
      next |-> action.next]

(* The bound and the first value are set, both compared; after the body compared and increased. *)
translateFor(t, n) ==
  LET exit == n + 7
      action == Translated(t.action, n + 8, exit)
  IN [code |-> <<Operation(n), Operation(n + 1), Statement("cond", n + 2, n + 5, exit),
                 Placement(n + 5)>>
                 \o action.code
                 \o <<Statement("cond", n + 3, n + 6, exit), Placement(n + 6),
                      Operation(n + 4), JumpTo(n + 5), Placement(exit)>>,
      next |-> action.next]

translateSequence(t, n, loop_exit) ==
  LET first == Translated(t.action, n, loop_exit)
      second == Translated(t.elseaction, first.next, loop_exit)
  IN [code |-> first.code \o second.code, next |-> second.next]

(* A comparison whose value is not used (killCodeToStatement). *)
Comparison(n) ==
  [code |-> <<Statement("cond", n, n + 1, n + 1), Placement(n + 1)>>, next |-> n + 2]

Translated(t, n, loop_exit) ==
  CASE t.kind = "operation"  -> [code |-> <<Operation(n)>>, next |-> n + 1]
    [] t.kind = "comparison" -> Comparison(n)
    [] t.kind = "break"      -> [code |-> <<JumpTo(loop_exit)>>, next |-> n]
    [] t.kind = "if"         -> translateIf(t, n, loop_exit)
    [] t.kind = "ifelse"     -> translateIfElse(t, n, loop_exit)
    [] t.kind = "while"      -> translateWhile(t, n)
    [] t.kind = "for"        -> translateFor(t, n)
    [] t.kind = "sequence"   -> translateSequence(t, n, loop_exit)
==============================================================================
