----------------------------- MODULE ArrangeJumps -----------------------------
(****************************************************************************)
(* IRTransformer::arrangeJumps of src/ir_transformer.cpp.  The statements   *)
(* of a function are split into basic blocks, the blocks are put in a new   *)
(* order by following jumps, and the jumps are adapted to that order.       *)
(*                                                                          *)
(* Afterwards the function is run, in step with the statements it was made  *)
(* from.  A conditional jump of the result goes to its true destination or  *)
(* to whatever statement comes next: the instruction the assembler emits    *)
(* for it has no false destination (src/x86_64assembler.cpp 575-579).       *)
(****************************************************************************)
EXTENDS Integers, SequencesExt

CONSTANTS
  Operations,   \* numbers of the statements that are not jumps, and of comparisons
  FirstNew,     \* labels from here on are made by addLabel
  Sources       \* the sequences of statements considered

NoLabel == 0
NoOperation == 0

Kinds == {"other", "label", "jump", "cond"}

(****************************************************************************)
(* label is the label placed, the destination of a jump, or the true        *)
(* destination of a conditional jump, which is taken when the comparison    *)
(* number operation turns out as holds.                                     *)
(****************************************************************************)
StatementType ==
  [kind : Kinds, operation : Operations \cup {NoOperation},
   label : Nat, false_dest : Nat, holds : BOOLEAN]

Statement(kind, operation, label, false_dest) ==
  [kind |-> kind, operation |-> operation, label |-> label, false_dest |-> false_dest,
   holds |-> TRUE]

Placement(label) == Statement("label", NoOperation, label, NoLabel)

JumpTo(label) == Statement("jump", NoOperation, label, NoLabel)

Targets(s) ==
  {s[p].label : p \in {q \in DOMAIN s : s[q].kind \in {"jump", "cond"}}}
  \cup {s[p].false_dest : p \in {q \in DOMAIN s : s[q].kind = "cond"}}

(* Every label is placed once, and every destination is placed. *)
WellFormed(s) ==
  /\ s \in Seq(StatementType)
  /\ \A p, q \in DOMAIN s :
       s[p].kind = "label" /\ s[q].kind = "label" /\ s[p].label = s[q].label => p = q
  /\ \A p \in DOMAIN s : s[p].kind = "label" => s[p].label \in 1 .. FirstNew - 1
  /\ \A l \in Targets(s) : \E p \in DOMAIN s : s[p].kind = "label" /\ s[p].label = l

ASSUME SourcesAssumption ==
  /\ FirstNew \in Nat \ {0}
  /\ \A s \in Sources : WellFormed(s)

VARIABLES
  source,     \* sequence->statements at the beginning
  pc,         \* the loop arrangeJumps is in, then the run
  remaining,  \* remaining_blocks; a block is the position of its first statement
  current,    \* current_block
  new_order,
  emitted,    \* number of blocks of new_order written to statements
  statements, \* sequence->statements, written anew
  at,         \* in the run: position in source
  run_at      \* and in statements

vars == <<source, pc, remaining, current, new_order, emitted, statements, at, run_at>>

------------------------------------------------------------------------------
(* splitToBlocks. *)

IsJump(statement) == statement.kind \in {"jump", "cond"}

BlockStarts(s) == {p \in DOMAIN s : p = 1 \/ s[p].kind = "label" \/ IsJump(s[p - 1])}

(* The position behind the last statement of block b. *)
EndOf(s, b) ==
  CHOOSE e \in b + 1 .. Len(s) + 1 :
    /\ e \in BlockStarts(s) \cup {Len(s) + 1}
    /\ \A p \in BlockStarts(s) : p > b => p >= e

(* addLabel: the label a block is given that has none, also the one behind the end. *)
NewLabel(p) == FirstNew + p

StartLabel(s, p) == IF p \in DOMAIN s /\ s[p].kind = "label" THEN s[p].label ELSE NewLabel(p)

FinishLabel(s) == NewLabel(Len(s) + 1)

HasFinishLabel(s) == s # <<>> /\ ~ IsJump(s[Len(s)])

Exit(s, b) ==
  LET last == s[EndOf(s, b) - 1]
  IN IF IsJump(last) THEN last ELSE JumpTo(StartLabel(s, EndOf(s, b)))

(* What is between the label a block begins with and the jump it ends with. *)
Body(s, b) ==
  SubSeq(s, IF s[b].kind = "label" THEN b + 1 ELSE b,
            IF IsJump(s[EndOf(s, b) - 1]) THEN EndOf(s, b) - 2 ELSE EndOf(s, b) - 1)

(* Where a trace goes on: a jump's destination, the false one of a conditional jump. *)
Ahead(exit) == IF exit.kind = "jump" THEN exit.label ELSE exit.false_dest

(* The block behind the conditional jump at p, and the blocks that end with a jump back to it. *)
Guarded(s, p) ==
  {b \in BlockStarts(s) : b > p /\ (b = p + 1 \/ Ahead(Exit(s, b)) = s[p + 1].label)}

(****************************************************************************)
(* What the translator does whenever it makes a conditional jump: it places *)
(* one of the two destinations right behind it, and no trace comes there,   *)
(* or to the end of the loop that begins there, but over this jump.         *)
(****************************************************************************)
Anchored(s) ==
  \A p \in DOMAIN s :
    s[p].kind = "cond" =>
      /\ p + 1 \in DOMAIN s
      /\ s[p + 1].kind = "label"
      /\ s[p + 1].label \in {s[p].label, s[p].false_dest}
      /\ \A b \in BlockStarts(s), g \in Guarded(s, p) :
           Ahead(Exit(s, b)) = StartLabel(s, g) => b \in Guarded(s, p) \/ EndOf(s, b) = p + 1

ASSUME TranslatorAssumption == \A s \in Sources : Anchored(s)

------------------------------------------------------------------------------
Init ==
  /\ source \in Sources
  /\ pc = "split"
  /\ remaining = {}
  /\ current = 0
  /\ new_order = <<>>
  /\ emitted = 0
  /\ statements = <<>>
  /\ at = 1
  /\ run_at = 1

Split ==
  /\ pc = "split"
  /\ pc' = "pick"
  /\ remaining' = BlockStarts(source)
  /\ UNCHANGED <<source, current, new_order, emitted, statements, at, run_at>>

Place(b) ==
  /\ remaining' = remaining \ {b}
  /\ new_order' = Append(new_order, b)
  /\ current' = b
  /\ UNCHANGED <<source, emitted, statements, at, run_at>>

(* arrangeBlocksForPrettyJumps: a trace begins with the first block that is left. *)
PickBlock ==
  /\ pc = "pick"
  /\ \E b \in remaining : (\A c \in remaining : b <= c) /\ Place(b)
  /\ pc' = "follow"

BlocksAt(label) == {b \in BlockStarts(source) : StartLabel(source, b) = label}

NextBlocks_Again == BlocksAt(Ahead(Exit(source, current)))

(* The block there, unless it has been used in a trace. *)
NextBlocks == BlocksAt(Ahead(Exit(source, current))) \cap remaining

Follow ==
  /\ pc = "follow"
  /\ \E b \in NextBlocks : Place(b)
  /\ UNCHANGED pc

EndTrace ==
  /\ pc = "follow"
  /\ NextBlocks = {}
  /\ pc' = "pick"
  /\ UNCHANGED <<source, remaining, current, new_order, emitted, statements, at, run_at>>

------------------------------------------------------------------------------
(* arrangeJumps: what is written before the block that begins with label. *)

FlipComparison_LabelsOnly(jump) ==
  [jump EXCEPT !.label = jump.false_dest, !.false_dest = jump.label]

FlipComparison(jump) ==
  [jump EXCEPT !.label = jump.false_dest, !.false_dest = jump.label, !.holds = ~ @]

WithoutLastJump(written, label) ==
  IF written # <<>> /\ Last(written).kind = "jump" /\ Last(written).label = label
  THEN Front(written)
  ELSE written

ImmediateFalse(written) == FirstNew + Len(source) + 2 + Len(written)

Adapted_NoDetour(written, label) ==
  IF written = <<>> \/ Last(written).kind # "cond" THEN WithoutLastJump(written, label)
  ELSE IF Last(written).label = label THEN Append(Front(written), FlipComparison(Last(written)))
  ELSE written

Adapted(written, label) ==
  IF written = <<>> \/ Last(written).kind # "cond" THEN WithoutLastJump(written, label)
  ELSE LET jump == Last(written)
       IN IF jump.false_dest = label THEN written
          ELSE IF jump.label = label THEN Append(Front(written), FlipComparison(jump))
          ELSE Front(written)
                 \o <<[jump EXCEPT !.false_dest = ImmediateFalse(written)],
                      Placement(ImmediateFalse(written)), JumpTo(jump.false_dest)>>

StartWriting ==
  /\ pc = "pick"
  /\ remaining = {}
  /\ pc' = "write"
  /\ UNCHANGED <<source, remaining, current, new_order, emitted, statements, at, run_at>>

WriteBlock ==
  /\ pc = "write"
  /\ emitted < Len(new_order)
  /\ LET b == new_order[emitted + 1]
         label == StartLabel(source, b)
     IN statements' = Append(Append(Adapted(statements, label), Placement(label))
                               \o Body(source, b), Exit(source, b))
  /\ emitted' = emitted + 1
  /\ UNCHANGED <<source, pc, remaining, current, new_order, at, run_at>>

Finish ==
  /\ pc = "write"
  /\ emitted = Len(new_order)
  /\ statements' =
       IF HasFinishLabel(source)
       THEN Append(WithoutLastJump(statements, FinishLabel(source)),
                   Placement(FinishLabel(source)))
       ELSE statements
  /\ pc' = "run"
  /\ UNCHANGED <<source, remaining, current, new_order, emitted, at, run_at>>

------------------------------------------------------------------------------
(* The two runs, from one operation or comparison to the next. *)

Position(s, label) == CHOOSE p \in DOMAIN s : s[p].kind = "label" /\ s[p].label = label

IsOperation(s, p) == p \in DOMAIN s /\ s[p].kind \in {"other", "cond"}

Step(s, p) == IF s[p].kind = "jump" THEN Position(s, s[p].label) ELSE p + 1

(****************************************************************************)
(* The first operation from p on, the end, or 0 for jumps that go round for *)
(* ever.                                                                    *)
(****************************************************************************)
Settled(s, p) ==
  LET reach[k \in Nat] ==
        IF k = 0 THEN p
        ELSE LET q == reach[k - 1]
             IN IF q \notin DOMAIN s \/ IsOperation(s, q) THEN q ELSE Step(s, q)
      q == reach[Len(s)]
  IN IF q \in DOMAIN s /\ ~ IsOperation(s, q) THEN 0 ELSE q

GoesRound == -1

Runs(s, p) ==
  LET q == Settled(s, p)
  IN IF q = 0 THEN GoesRound ELSE IF IsOperation(s, q) THEN s[q].operation ELSE NoOperation

(* Both destinations of the source are followed; the result falls through. *)
SourceGoes(p, outcome) ==
  IF source[p].kind = "other" THEN p + 1
  ELSE Position(source, IF outcome = source[p].holds THEN source[p].label
                        ELSE source[p].false_dest)

ResultGoes(p, outcome) ==
  IF statements[p].kind = "cond" /\ outcome = statements[p].holds
  THEN Position(statements, statements[p].label)
  ELSE p + 1

Execute ==
  /\ pc = "run"
  /\ LET p == Settled(source, at)
         q == Settled(statements, run_at)
     IN /\ IsOperation(source, p)
        /\ IsOperation(statements, q)
        /\ \E outcome \in BOOLEAN :
             /\ at' = SourceGoes(p, outcome)
             /\ run_at' = ResultGoes(q, outcome)
  /\ UNCHANGED <<source, pc, remaining, current, new_order, emitted, statements>>

Stopped ==
  /\ pc = "run"
  /\ \/ ~ IsOperation(source, Settled(source, at))
     \/ ~ IsOperation(statements, Settled(statements, run_at))
  /\ UNCHANGED vars

Next ==
  \/ Split \/ PickBlock \/ Follow \/ EndTrace
  \/ StartWriting \/ WriteBlock \/ Finish
  \/ Execute \/ Stopped

Spec == Init /\ [][Next]_vars

------------------------------------------------------------------------------
TypeOK ==
  /\ source \in Seq(StatementType)
  /\ pc \in {"split", "pick", "follow", "write", "run"}
  /\ remaining \subseteq BlockStarts(source)
  /\ current \in BlockStarts(source) \cup {0}
  /\ new_order \in Seq(BlockStarts(source))
  /\ emitted \in 0 .. Len(new_order)
  /\ statements \in Seq(StatementType)
  /\ at \in Nat
  /\ run_at \in Nat

(****************************************************************************)
(* However the traces run into each other, every block is placed once: a    *)
(* block is either left or placed, never both, never twice.                 *)
(****************************************************************************)
PlacedOnce ==
  pc # "split" =>
    /\ remaining \cap ToSet(new_order) = {}
    /\ remaining \cup ToSet(new_order) = BlockStarts(source)
    /\ \A i, j \in DOMAIN new_order : new_order[i] = new_order[j] => i = j

(****************************************************************************)
(* The function still does what it did: after the same outcomes of the      *)
(* comparisons both runs come to the same operation, comparison or end.     *)
(* No path falls into a block it does not belong to.                        *)
(****************************************************************************)
RunsTheSame == pc = "run" => Runs(source, at) = Runs(statements, run_at)

(****************************************************************************)
(* No conditional jump is left without its false destination right behind   *)
(* it, which the assembler relies on.                                       *)
(****************************************************************************)
FalseDestFollows ==
  pc = "run" =>
    \A p \in DOMAIN statements :
      statements[p].kind = "cond" =>
        /\ p < Len(statements)
        /\ statements[p + 1] = Placement(statements[p].false_dest)
==============================================================================
