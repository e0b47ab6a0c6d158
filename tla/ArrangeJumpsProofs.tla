-------------------------- MODULE ArrangeJumpsProofs --------------------------
(****************************************************************************)
(* The arrangement of jumps, for every function: every block is placed      *)
(* once, a conditional jump is followed by its false destination, and the   *)
(* arranged statements do what the original ones did.                       *)
(****************************************************************************)
EXTENDS ArrangeJumps, Iteration

OrderInv ==
  /\ remaining \subseteq BlockStarts(source)
  /\ new_order \in Seq(BlockStarts(source))
  /\ pc = "split" => new_order = <<>>
  /\ PlacedOnce

(* Placing a block that is left. *)
LEMMA PlaceKeeps ==
  ASSUME OrderInv, pc # "split", NEW b \in remaining, Place(b), pc' # "split"
  PROVE  OrderInv'
  <1>1. /\ source' = source
        /\ remaining' = remaining \ {b}
        /\ new_order' = Append(new_order, b)
    BY DEF Place
  <1>2. BlockStarts(source') = BlockStarts(source)
    BY <1>1
  <1>3. new_order \in Seq(BlockStarts(source)) /\ b \in BlockStarts(source)
    BY DEF OrderInv
  <1>4. /\ DOMAIN new_order = 1 .. Len(new_order)
        /\ DOMAIN new_order' = 1 .. Len(new_order) + 1
        /\ Len(new_order) \in Nat
        /\ \A i \in 1 .. Len(new_order) : new_order'[i] = new_order[i]
        /\ new_order'[Len(new_order) + 1] = b
    BY <1>1, <1>3
  <1>5. new_order' \in Seq(BlockStarts(source))
    BY <1>1, <1>3
  <1>6. ToSet(new_order') = ToSet(new_order) \cup {b}
    BY <1>4 DEF ToSet
  <1>7. b \notin ToSet(new_order)
    BY DEF OrderInv, PlacedOnce
  <1>8. \A i, j \in DOMAIN new_order' : new_order'[i] = new_order'[j] => i = j
    BY <1>4, <1>7 DEF OrderInv, PlacedOnce, ToSet
  <1>9. PlacedOnce'
    <2>1. remaining' \cap ToSet(new_order') = {}
      BY <1>1, <1>6 DEF OrderInv, PlacedOnce
    <2>2. remaining' \cup ToSet(new_order') = BlockStarts(source')
      BY <1>1, <1>2, <1>6 DEF OrderInv, PlacedOnce
    <2> QED
      BY <1>8, <2>1, <2>2 DEF PlacedOnce
  <1> QED
    BY <1>1, <1>2, <1>5, <1>9 DEF OrderInv

LEMMA OrderNext == OrderInv /\ [Next]_vars => OrderInv'
  <1> SUFFICES ASSUME OrderInv, [Next]_vars PROVE OrderInv'
    OBVIOUS
  <1>1. CASE Split
    <2>1. /\ source' = source /\ new_order' = <<>> /\ remaining' = BlockStarts(source)
          /\ pc' = "pick"
      BY <1>1 DEF Split, OrderInv
    <2>2. ToSet(new_order') = {} /\ DOMAIN new_order' = {}
      BY <2>1 DEF ToSet
    <2> QED
      BY <2>1, <2>2 DEF OrderInv, PlacedOnce
  <1>2. CASE PickBlock
    <2>1. PICK b \in remaining : Place(b)
      BY <1>2 DEF PickBlock
    <2> QED
      BY <1>2, <2>1, PlaceKeeps DEF PickBlock
  <1>3. CASE Follow
    <2>1. PICK b \in remaining : Place(b)
      BY <1>3 DEF Follow, NextBlocks
    <2> QED
      BY <1>3, <2>1, PlaceKeeps DEF Follow
  <1>4. ASSUME source' = source, remaining' = remaining, new_order' = new_order,
               pc # "split", pc' # "split"
        PROVE  OrderInv'
    BY <1>4 DEF OrderInv, PlacedOnce
  <1>5. CASE EndTrace \/ StartWriting \/ WriteBlock \/ Finish \/ Execute
    BY <1>4, <1>5 DEF EndTrace, StartWriting, WriteBlock, Finish, Execute
  <1>6. CASE UNCHANGED vars
    BY <1>6 DEF vars, OrderInv, PlacedOnce
  <1> QED
    BY <1>1, <1>2, <1>3, <1>5, <1>6 DEF Next, Stopped

(****************************************************************************)
(* In every function every block is placed exactly once: the assert on      *)
(* used_in_trace holds and no code is lost or doubled.                      *)
(****************************************************************************)
THEOREM BlocksPlacedOnce == Spec => []PlacedOnce
  <1>1. Init => OrderInv
    BY DEF Init, OrderInv, PlacedOnce
  <1>2. OrderInv => PlacedOnce
    BY DEF OrderInv
  <1> QED
    BY <1>1, <1>2, OrderNext, PTL DEF Spec
------------------------------------------------------------------------------
(* Blocks. *)

LEMMA BlockBounds ==
  ASSUME NEW s \in Seq(StatementType), NEW b \in BlockStarts(s)
  PROVE  /\ b \in DOMAIN s /\ b \in 1 .. Len(s)
         /\ EndOf(s, b) \in b + 1 .. Len(s) + 1
         /\ EndOf(s, b) \in BlockStarts(s) \cup {Len(s) + 1}
         /\ \A p \in BlockStarts(s) : p > b => p >= EndOf(s, b)
  <1>1. b \in 1 .. Len(s) /\ DOMAIN s = 1 .. Len(s) /\ BlockStarts(s) \subseteq 1 .. Len(s) /\ Len(s) \in Nat
    BY DEF BlockStarts
  <1> DEFINE T == {e \in b + 1 .. Len(s) + 1 : e \in BlockStarts(s) \cup {Len(s) + 1}}
  <1>2. PICK e \in T : \A m \in T : e <= m
    <2>1. T \in SUBSET Nat
      BY <1>1
    <2>2. Len(s) + 1 \in T
      BY <1>1
    <2> HIDE DEF T
    <2> QED
      BY <2>1, <2>2, LeastNatural
  <1>3. \A p \in BlockStarts(s) : p > b => p >= e
    <2> SUFFICES ASSUME NEW p \in BlockStarts(s), p > b PROVE p >= e
      OBVIOUS
    <2>1. p \in T
      BY <1>1
    <2> QED
      BY <1>1, <1>2, <2>1
  <1>4. \E x \in b + 1 .. Len(s) + 1 :
          /\ x \in BlockStarts(s) \cup {Len(s) + 1}
          /\ \A p \in BlockStarts(s) : p > b => p >= x
    BY <1>2, <1>3
  <1> QED
    BY <1>1, <1>4 DEF EndOf

(* Labels are placed only where a block begins, and only its last statement jumps. *)
LEMMA InsideBlock ==
  ASSUME NEW s \in Seq(StatementType), NEW b \in BlockStarts(s),
         NEW q \in b + 1 .. EndOf(s, b) - 1
  PROVE  q \in DOMAIN s /\ s[q].kind # "label" /\ ~ IsJump(s[q - 1])
  <1>1. /\ b \in 1 .. Len(s)
        /\ EndOf(s, b) \in b + 1 .. Len(s) + 1
        /\ \A p \in BlockStarts(s) : p > b => p >= EndOf(s, b)
    BY BlockBounds
  <1>2. q \in 1 .. Len(s) /\ q > b /\ q < EndOf(s, b) /\ DOMAIN s = 1 .. Len(s)
    BY <1>1
  <1>3. q \notin BlockStarts(s)
    BY <1>1, <1>2
  <1> QED
    BY <1>2, <1>3 DEF BlockStarts

LEMMA BlockOfEnd ==
  ASSUME NEW s \in Seq(StatementType), NEW b \in BlockStarts(s), NEW c \in BlockStarts(s),
         EndOf(s, b) = EndOf(s, c)
  PROVE  b = c
  <1>1. b \in 1 .. Len(s) /\ c \in 1 .. Len(s) /\ Len(s) \in Nat
    BY BlockBounds
  <1>2. /\ EndOf(s, b) \in b + 1 .. Len(s) + 1
        /\ EndOf(s, c) \in c + 1 .. Len(s) + 1
    BY BlockBounds
  <1>3. (c > b => c >= EndOf(s, b)) /\ (b > c => b >= EndOf(s, c))
    BY BlockBounds
  <1> QED
    BY <1>1, <1>2, <1>3

(* The position of the jump a block ends with. *)
ExitAt(s, b) == EndOf(s, b) - 1

LEMMA ExitKind ==
  ASSUME NEW s \in Seq(StatementType), NEW b \in BlockStarts(s)
  PROVE  /\ ExitAt(s, b) \in b .. Len(s) /\ ExitAt(s, b) \in DOMAIN s
         /\ IsJump(s[ExitAt(s, b)]) => Exit(s, b) = s[ExitAt(s, b)]
         /\ ~ IsJump(s[ExitAt(s, b)]) => Exit(s, b) = JumpTo(StartLabel(s, EndOf(s, b)))
         /\ Exit(s, b).kind \in {"jump", "cond"}
         /\ Exit(s, b).kind = "cond" => s[ExitAt(s, b)].kind = "cond" /\ IsJump(s[ExitAt(s, b)])
  <1>1. b \in 1 .. Len(s) /\ EndOf(s, b) \in b + 1 .. Len(s) + 1
    BY BlockBounds
  <1>2. JumpTo(StartLabel(s, EndOf(s, b))).kind = "jump"
    BY DEF JumpTo, Statement
  <1> QED
    BY <1>1, <1>2 DEF ExitAt, Exit, IsJump
------------------------------------------------------------------------------
(* The last block that is placed does not end with a conditional jump. *)

CondExit(b) == source[ExitAt(source, b)].kind = "cond"

GuardsLeft ==
  \A b \in remaining : CondExit(b) => Guarded(source, ExitAt(source, b)) \subseteq remaining

LastPlaced ==
  new_order # <<>> =>
    /\ current = new_order[Len(new_order)]
    /\ current \in BlockStarts(source) \ remaining
    /\ CondExit(current) => ExitAt(source, current) + 1 \in remaining

TraceInv ==
  /\ OrderInv
  /\ source \in Sources
  /\ pc \in {"split", "pick", "follow", "write", "run"}
  /\ pc = "follow" => new_order # <<>>
  /\ pc \in {"pick", "follow"} => GuardsLeft /\ LastPlaced
  /\ pc \in {"write", "run"} =>
       remaining = {} /\ (new_order # <<>> => ~ CondExit(new_order[Len(new_order)]))

(* The block behind a conditional jump. *)
LEMMA GuardBehind ==
  ASSUME source \in Sources, NEW b \in BlockStarts(source), CondExit(b)
  PROVE  /\ ExitAt(source, b) + 1 \in Guarded(source, ExitAt(source, b))
         /\ EndOf(source, b) = ExitAt(source, b) + 1
  <1>1. source \in Seq(StatementType) /\ Anchored(source)
    BY SourcesAssumption, TranslatorAssumption DEF WellFormed
  <1>2. ExitAt(source, b) \in DOMAIN source /\ ExitAt(source, b) \in Nat
    BY <1>1, ExitKind, BlockBounds
  <1>3. /\ ExitAt(source, b) + 1 \in DOMAIN source
        /\ source[ExitAt(source, b) + 1].kind = "label"
    BY <1>1, <1>2 DEF Anchored, CondExit
  <1>4. EndOf(source, b) \in Nat
    BY <1>1, BlockBounds
  <1> QED
    BY <1>2, <1>3, <1>4 DEF Guarded, BlockStarts, ExitAt

LEMMA PlaceGuarded ==
  ASSUME TraceInv, pc \in {"pick", "follow"}, NEW b \in remaining, Place(b), pc' = "follow",
         \/ \A c \in remaining : b <= c
         \/ new_order # <<>> /\ b \in NextBlocks
  PROVE  TraceInv'
  <1>1. /\ source' = source
        /\ remaining' = remaining \ {b}
        /\ new_order' = Append(new_order, b)
        /\ current' = b
    BY DEF Place
  <1>2. source \in Seq(StatementType) /\ Anchored(source)
    BY SourcesAssumption, TranslatorAssumption DEF WellFormed, TraceInv
  <1>3. remaining \subseteq BlockStarts(source) /\ new_order \in Seq(BlockStarts(source))
    BY DEF TraceInv, OrderInv
  <1>4. OrderInv'
    BY PlaceKeeps DEF TraceInv
  <1>5. new_order' # <<>> /\ new_order'[Len(new_order')] = b
    BY <1>1, <1>3
  <1>6. CondExit(b) => ExitAt(source, b) + 1 \in remaining \ {b}
    <2> SUFFICES ASSUME CondExit(b) PROVE ExitAt(source, b) + 1 \in remaining \ {b}
      OBVIOUS
    <2>1. ExitAt(source, b) + 1 \in remaining
      BY <1>3, GuardBehind DEF TraceInv, GuardsLeft
    <2>2. ExitAt(source, b) \in b .. Len(source) /\ b \in 1 .. Len(source)
      BY <1>2, <1>3, ExitKind, BlockBounds
    <2> QED
      BY <2>1, <2>2
  <1>7. ASSUME NEW c \in remaining \ {b}, CondExit(c)
        PROVE  b \notin Guarded(source, ExitAt(source, c))
    <2> SUFFICES ASSUME b \in Guarded(source, ExitAt(source, c)) PROVE FALSE
      OBVIOUS
    <2>1. CASE \A d \in remaining : b <= d
      <3>1. ExitAt(source, c) \in c .. Len(source) /\ c \in 1 .. Len(source) /\ b \in 1 .. Len(source)
        BY <1>2, <1>3, <1>7, ExitKind, BlockBounds
      <3>2. b > ExitAt(source, c)
        BY DEF Guarded
      <3>3. b <= c
        BY <1>7, <2>1
      <3> QED
        BY <3>1, <3>2, <3>3
    <2>2. CASE new_order # <<>> /\ b \in NextBlocks
      <3>1. StartLabel(source, b) = Ahead(Exit(source, current))
        BY <2>2 DEF NextBlocks, BlocksAt
      <3>2. current \in BlockStarts(source) /\ current \notin remaining
        BY <2>2 DEF TraceInv, LastPlaced
      <3>3. c \in BlockStarts(source) /\ ExitAt(source, c) \in DOMAIN source
        BY <1>2, <1>3, <1>7, ExitKind
      <3>4. \/ current \in Guarded(source, ExitAt(source, c))
            \/ EndOf(source, current) = ExitAt(source, c) + 1
        BY <1>2, <1>7, <3>1, <3>2, <3>3 DEF Anchored, CondExit
      <3>5. current \notin Guarded(source, ExitAt(source, c))
        BY <1>7, <3>2 DEF TraceInv, GuardsLeft
      <3>6. EndOf(source, current) = EndOf(source, c)
        BY <1>7, <3>3, <3>4, <3>5, GuardBehind DEF TraceInv
      <3>7. current = c
        BY <1>2, <3>2, <3>3, <3>6, BlockOfEnd
      <3> QED
        BY <1>7, <3>2, <3>7
    <2> QED
      BY <2>1, <2>2
  <1>8. GuardsLeft'
    BY <1>1, <1>7 DEF GuardsLeft, TraceInv, CondExit
  <1>9. LastPlaced'
    BY <1>1, <1>3, <1>5, <1>6 DEF LastPlaced, CondExit
  <1> QED
    BY <1>1, <1>4, <1>5, <1>8, <1>9 DEF TraceInv

LEMMA TraceNext == TraceInv /\ [Next]_vars => TraceInv'
  <1> SUFFICES ASSUME TraceInv, [Next]_vars PROVE TraceInv'
    OBVIOUS
  <1>0. OrderInv' /\ source \in Seq(StatementType)
    BY OrderNext, SourcesAssumption DEF TraceInv, WellFormed
  <1>1. CASE Split
    <2>1. /\ source' = source /\ new_order' = new_order /\ remaining' = BlockStarts(source)
          /\ pc' = "pick" /\ pc = "split"
      BY <1>1 DEF Split
    <2>2. new_order' = <<>>
      BY <2>1 DEF TraceInv, OrderInv
    <2>3. \A p : Guarded(source, p) \subseteq BlockStarts(source)
      BY DEF Guarded
    <2> QED
      BY <1>0, <2>1, <2>2, <2>3 DEF TraceInv, GuardsLeft, LastPlaced, CondExit
  <1>2. CASE PickBlock
    <2>1. PICK b \in remaining : (\A c \in remaining : b <= c) /\ Place(b)
      BY <1>2 DEF PickBlock
    <2> QED
      BY <1>2, <2>1, PlaceGuarded DEF PickBlock
  <1>3. CASE Follow
    <2>1. PICK b \in NextBlocks : Place(b)
      BY <1>3 DEF Follow
    <2>2. b \in remaining /\ new_order # <<>> /\ pc = "follow" /\ pc' = "follow"
      BY <1>3, <2>1 DEF NextBlocks, Follow, TraceInv
    <2> QED
      BY <2>1, <2>2, PlaceGuarded
  <1>4. CASE EndTrace
    BY <1>0, <1>4 DEF EndTrace, TraceInv, GuardsLeft, LastPlaced, CondExit
  <1>5. CASE StartWriting
    BY <1>0, <1>5 DEF StartWriting, TraceInv, LastPlaced, CondExit
  <1>6. CASE WriteBlock \/ Finish \/ Execute
    <2>1. /\ source' = source /\ remaining' = remaining /\ new_order' = new_order
          /\ pc \in {"write", "run"} /\ pc' \in {"write", "run"}
      BY <1>6 DEF WriteBlock, Finish, Execute
    <2> QED
      BY <1>0, <2>1 DEF TraceInv, CondExit
  <1>7. CASE UNCHANGED vars
    BY <1>0, <1>7 DEF vars, TraceInv, GuardsLeft, LastPlaced, CondExit
  <1> QED
    BY <1>1, <1>2, <1>3, <1>4, <1>5, <1>6, <1>7 DEF Next, Stopped
------------------------------------------------------------------------------
(* What has been written. *)

Extends(z, y) == Len(z) <= Len(y) /\ \A i \in 1 .. Len(z) : y[i] = z[i]

ImmediateLabels(z) ==
  FirstNew + Len(source) + 2 .. FirstNew + Len(source) + 2 + Len(z)

(* Statements that are not written over any more; L are the labels of the blocks begun. *)
GoodPart(z, L) ==
  /\ z \in Seq(StatementType)
  /\ \A p, q \in DOMAIN z :
       z[p].kind = "label" /\ z[q].kind = "label" /\ z[p].label = z[q].label => p = q
  /\ \A p \in DOMAIN z : z[p].kind = "label" => z[p].label \in L \cup ImmediateLabels(z)
  /\ \A p \in DOMAIN z :
       z[p].kind = "cond" => p < Len(z) /\ z[p + 1] = Placement(z[p].false_dest)

(* The exit of a block as it is left at m. *)
JumpWritten(z, exit, m) ==
  /\ exit.kind = "jump"
  /\ z[m] = exit \/ (z[m].kind = "label" /\ z[m].label = exit.label)

CondKept(z, exit, m) ==
  /\ z[m].holds = exit.holds
  /\ z[m].label = exit.label
  /\ \/ z[m].false_dest = exit.false_dest
     \/ m + 2 \in DOMAIN z /\ z[m + 2] = JumpTo(exit.false_dest)

CondFlipped(z, exit, m) ==
  /\ z[m].holds = ~ exit.holds
  /\ z[m].label = exit.false_dest
  /\ z[m].false_dest = exit.label

CondWritten(z, exit, m) ==
  /\ exit.kind = "cond"
  /\ m + 1 \in DOMAIN z
  /\ z[m].kind = "cond"
  /\ z[m].operation = exit.operation
  /\ z[m + 1] = Placement(z[m].false_dest)
  /\ CondKept(z, exit, m) \/ CondFlipped(z, exit, m)

ExitWritten(z, exit, m) ==
  m \in DOMAIN z /\ (JumpWritten(z, exit, m) \/ CondWritten(z, exit, m))

LEMMA ExitStays ==
  ASSUME NEW z, NEW y, Len(z) \in Nat, Len(y) \in Nat,
         DOMAIN z = 1 .. Len(z), DOMAIN y = 1 .. Len(y), Extends(z, y),
         NEW exit, NEW m \in Nat, ExitWritten(z, exit, m)
  PROVE  ExitWritten(y, exit, m)
  <1>1. m \in DOMAIN y /\ y[m] = z[m]
    BY DEF ExitWritten, Extends
  <1>2. CASE JumpWritten(z, exit, m)
    BY <1>1, <1>2 DEF JumpWritten, ExitWritten
  <1>3. CASE CondWritten(z, exit, m)
    <2>1. m + 1 \in DOMAIN y /\ y[m + 1] = z[m + 1]
      BY <1>3 DEF CondWritten, Extends
    <2>2. m + 2 \in DOMAIN z => m + 2 \in DOMAIN y /\ y[m + 2] = z[m + 2]
      BY DEF Extends
    <2> QED
      BY <1>1, <1>3, <2>1, <2>2 DEF CondWritten, CondKept, CondFlipped, ExitWritten
  <1> QED
    BY <1>2, <1>3 DEF ExitWritten

LEMMA PlacementType ==
  ASSUME NEW l \in Nat
  PROVE  /\ Placement(l) \in StatementType /\ JumpTo(l) \in StatementType
         /\ Placement(l).kind = "label" /\ Placement(l).label = l
         /\ JumpTo(l).kind = "jump" /\ JumpTo(l).label = l
  BY DEF Placement, JumpTo, Statement, StatementType, Kinds, NoLabel

(* What stands before the label of the next block, and that label. *)
Joined(written, label) == Append(Adapted(written, label), Placement(label))

(* A statement that is no conditional jump added to what is written. *)
LEMMA AddLabel ==
  ASSUME NEW z, NEW L, GoodPart(z, L), NEW l \in Nat, Len(source) \in Nat,
         FirstNew \in Nat, L \subseteq 1 .. FirstNew + Len(source) + 1,
         l \in 1 .. FirstNew + Len(source) + 1, l \notin L
  PROVE  GoodPart(Append(z, Placement(l)), L \cup {l})
  <1> DEFINE y == Append(z, Placement(l))
  <1>1. z \in Seq(StatementType) /\ Len(z) \in Nat /\ DOMAIN z = 1 .. Len(z)
    BY DEF GoodPart
  <1>2. /\ y \in Seq(StatementType) /\ Len(y) = Len(z) + 1 /\ DOMAIN y = 1 .. Len(z) + 1
        /\ \A i \in 1 .. Len(z) : y[i] = z[i]
        /\ y[Len(z) + 1] = Placement(l)
    BY <1>1, PlacementType
  <1>3. Placement(l).kind = "label" /\ Placement(l).label = l
    BY PlacementType
  <1> HIDE DEF y
  <1>4. \A p \in 1 .. Len(z) : z[p].kind = "label" => z[p].label # l
    BY <1>1 DEF GoodPart, ImmediateLabels
  <1>5. \A p, q \in DOMAIN y :
          y[p].kind = "label" /\ y[q].kind = "label" /\ y[p].label = y[q].label => p = q
    <2>1. \A p \in DOMAIN y : p \in DOMAIN z \/ p = Len(z) + 1
      BY <1>1, <1>2
    <2> QED
      BY <1>1, <1>2, <1>3, <1>4, <2>1 DEF GoodPart
  <1>6. \A p \in DOMAIN y : y[p].kind = "label" => y[p].label \in (L \cup {l}) \cup ImmediateLabels(y)
    BY <1>1, <1>2, <1>3 DEF GoodPart, ImmediateLabels
  <1>7. \A p \in DOMAIN y :
          y[p].kind = "cond" => p < Len(y) /\ y[p + 1] = Placement(y[p].false_dest)
    BY <1>1, <1>2, <1>3 DEF GoodPart
  <1>8. GoodPart(y, L \cup {l})
    BY <1>2, <1>5, <1>6, <1>7 DEF GoodPart
  <1> QED
    BY <1>8 DEF y

LEMMA AddStatement ==
  ASSUME NEW z, NEW L, GoodPart(z, L), NEW x \in StatementType, x.kind \notin {"label", "cond"},
         Len(source) \in Nat, FirstNew \in Nat
  PROVE  GoodPart(Append(z, x), L)
  <1> DEFINE y == Append(z, x)
  <1>1. z \in Seq(StatementType) /\ Len(z) \in Nat /\ DOMAIN z = 1 .. Len(z)
    BY DEF GoodPart
  <1>2. /\ y \in Seq(StatementType) /\ Len(y) = Len(z) + 1 /\ DOMAIN y = 1 .. Len(z) + 1
        /\ \A i \in 1 .. Len(z) : y[i] = z[i]
        /\ y[Len(z) + 1] = x
    BY <1>1
  <1> HIDE DEF y
  <1>3. \A p \in DOMAIN y : p \in DOMAIN z \/ p = Len(z) + 1
    BY <1>1, <1>2
  <1>4. \A p, q \in DOMAIN y :
          y[p].kind = "label" /\ y[q].kind = "label" /\ y[p].label = y[q].label => p = q
    BY <1>1, <1>2, <1>3 DEF GoodPart
  <1>5. \A p \in DOMAIN y : y[p].kind = "label" => y[p].label \in L \cup ImmediateLabels(y)
    BY <1>1, <1>2, <1>3 DEF GoodPart, ImmediateLabels
  <1>6. \A p \in DOMAIN y :
          y[p].kind = "cond" => p < Len(y) /\ y[p + 1] = Placement(y[p].false_dest)
    BY <1>1, <1>2, <1>3 DEF GoodPart
  <1>7. GoodPart(y, L)
    BY <1>2, <1>4, <1>5, <1>6 DEF GoodPart
  <1> QED
    BY <1>7 DEF y

(* A conditional jump and its false destination. *)
LEMMA AddCond ==
  ASSUME NEW z, NEW L, GoodPart(z, L), NEW c \in StatementType, c.kind = "cond",
         NEW M, L \subseteq M, c.false_dest \in M \cup ImmediateLabels(Append(z, c)),
         \A p \in DOMAIN z : z[p].kind = "label" => z[p].label # c.false_dest,
         Len(source) \in Nat, FirstNew \in Nat
  PROVE  GoodPart(Append(Append(z, c), Placement(c.false_dest)), M)
  <1> DEFINE y == Append(Append(z, c), Placement(c.false_dest))
  <1>1. z \in Seq(StatementType) /\ Len(z) \in Nat /\ DOMAIN z = 1 .. Len(z)
    BY DEF GoodPart
  <1>2. c.false_dest \in Nat
    BY DEF StatementType
  <1>3. /\ y \in Seq(StatementType) /\ Len(y) = Len(z) + 2 /\ DOMAIN y = 1 .. Len(z) + 2
        /\ \A i \in 1 .. Len(z) : y[i] = z[i]
        /\ y[Len(z) + 1] = c
        /\ y[Len(z) + 2] = Placement(c.false_dest)
    BY <1>1, <1>2, PlacementType
  <1>4. Placement(c.false_dest).kind = "label" /\ Placement(c.false_dest).label = c.false_dest
    BY <1>2, PlacementType
  <1>5. c.false_dest \in M \cup ImmediateLabels(y)
    BY <1>1, <1>3 DEF ImmediateLabels
  <1> HIDE DEF y
  <1>6. \A p \in DOMAIN y : p \in DOMAIN z \/ p = Len(z) + 1 \/ p = Len(z) + 2
    BY <1>1, <1>3
  <1>7. \A p, q \in DOMAIN y :
          y[p].kind = "label" /\ y[q].kind = "label" /\ y[p].label = y[q].label => p = q
    BY <1>1, <1>3, <1>4, <1>6 DEF GoodPart
  <1>8. \A p \in DOMAIN y : y[p].kind = "label" => y[p].label \in M \cup ImmediateLabels(y)
    BY <1>1, <1>3, <1>4, <1>5, <1>6 DEF GoodPart, ImmediateLabels
  <1>9. \A p \in DOMAIN y :
          y[p].kind = "cond" => p < Len(y) /\ y[p + 1] = Placement(y[p].false_dest)
    BY <1>1, <1>3, <1>4, <1>6 DEF GoodPart
  <1>10. GoodPart(y, M)
    BY <1>3, <1>7, <1>8, <1>9 DEF GoodPart
  <1> QED
    BY <1>10 DEF y

JoinedWell(z, L, exit, label, y) ==
  /\ GoodPart(y, L \cup {label})
  /\ Extends(z, y)
  /\ Len(y) > Len(z)
  /\ y[Len(y)] = Placement(label)
  /\ ExitWritten(y, exit, Len(z) + 1)

LEMMA JoinJump ==
  ASSUME NEW z, NEW L, GoodPart(z, L), NEW l \in Nat, Len(source) \in Nat,
         FirstNew \in Nat, L \subseteq 1 .. FirstNew + Len(source) + 1,
         l \in 1 .. FirstNew + Len(source) + 1, l \notin L,
         NEW exit \in StatementType, exit.kind = "jump"
  PROVE  /\ Joined(Append(z, exit), l) = Append(WithoutLastJump(Append(z, exit), l), Placement(l))
         /\ JoinedWell(z, L, exit, l, Joined(Append(z, exit), l))
  <1> DEFINE w == Append(z, exit)
  <1>1. z \in Seq(StatementType) /\ Len(z) \in Nat /\ DOMAIN z = 1 .. Len(z)
    BY DEF GoodPart
  <1>2. /\ w \in Seq(StatementType) /\ Len(w) = Len(z) + 1 /\ DOMAIN w = 1 .. Len(z) + 1
        /\ \A i \in 1 .. Len(z) : w[i] = z[i]
        /\ w[Len(z) + 1] = exit
    BY <1>1
  <1>3. w # <<>> /\ Last(w) = exit
    BY <1>1, <1>2 DEF Last
  <1>4. Front(w) = z
    BY <1>1, <1>2 DEF Front
  <1> HIDE DEF w
  <1>5. Joined(w, l) = Append(WithoutLastJump(w, l), Placement(l))
    BY <1>3 DEF Joined, Adapted
  <1>6. CASE exit.label = l
    <2> DEFINE y == Append(z, Placement(l))
    <2>1. Joined(w, l) = y
      BY <1>3, <1>4, <1>5, <1>6 DEF WithoutLastJump
    <2>2. GoodPart(y, L \cup {l})
      BY AddLabel
    <2>3. /\ Len(y) = Len(z) + 1 /\ \A i \in 1 .. Len(z) : y[i] = z[i]
          /\ y[Len(z) + 1] = Placement(l) /\ Len(z) + 1 \in DOMAIN y
      BY <1>1, PlacementType
    <2> HIDE DEF y
    <2>4. ExitWritten(y, exit, Len(z) + 1)
      BY <1>6, <2>3, PlacementType DEF ExitWritten, JumpWritten
    <2> QED
      BY <1>1, <1>5, <2>1, <2>2, <2>3, <2>4 DEF JoinedWell, Extends, w
  <1>7. CASE exit.label # l
    <2> DEFINE y == Append(w, Placement(l))
    <2>1. Joined(w, l) = y
      BY <1>3, <1>4, <1>5, <1>7 DEF WithoutLastJump
    <2>2. GoodPart(w, L)
      BY AddStatement DEF w
    <2>3. GoodPart(y, L \cup {l})
      BY <2>2, AddLabel
    <2>4. /\ Len(y) = Len(z) + 2 /\ \A i \in 1 .. Len(z) + 1 : y[i] = w[i]
          /\ y[Len(z) + 2] = Placement(l) /\ Len(z) + 1 \in DOMAIN y
      BY <1>1, <1>2, PlacementType
    <2> HIDE DEF y
    <2>5. ExitWritten(y, exit, Len(z) + 1)
      BY <1>1, <1>2, <2>4 DEF ExitWritten, JumpWritten
    <2> QED
      BY <1>1, <1>2, <1>5, <2>1, <2>3, <2>4, <2>5 DEF JoinedWell, Extends, w
  <1> QED
    BY <1>6, <1>7

LEMMA JoinCond ==
  ASSUME NEW z, NEW L, GoodPart(z, L), NEW l \in Nat, Len(source) \in Nat,
         FirstNew \in Nat, L \subseteq 1 .. FirstNew + Len(source) + 1,
         l \in 1 .. FirstNew + Len(source) + 1, l \notin L,
         NEW exit \in StatementType, exit.kind = "cond"
  PROVE  JoinedWell(z, L, exit, l, Joined(Append(z, exit), l))
  <1> DEFINE w == Append(z, exit)
  <1>1. z \in Seq(StatementType) /\ Len(z) \in Nat /\ DOMAIN z = 1 .. Len(z)
    BY DEF GoodPart
  <1>2. /\ w \in Seq(StatementType) /\ Len(w) = Len(z) + 1 /\ DOMAIN w = 1 .. Len(z) + 1
        /\ \A i \in 1 .. Len(z) : w[i] = z[i]
        /\ w[Len(z) + 1] = exit
    BY <1>1
  <1>3. w # <<>> /\ Last(w) = exit
    BY <1>1, <1>2 DEF Last
  <1>4. Front(w) = z
    BY <1>1, <1>2 DEF Front
  <1>5. \A p \in DOMAIN z : z[p].kind = "label" => z[p].label # l
    BY <1>1 DEF GoodPart, ImmediateLabels
  <1>6. exit.label \in Nat /\ exit.false_dest \in Nat /\ exit.holds \in BOOLEAN
    BY DEF StatementType
  <1> HIDE DEF w
  <1>7. CASE exit.false_dest = l
    <2> DEFINE y == Append(w, Placement(l))
    <2>1. Joined(w, l) = y
      BY <1>3, <1>7 DEF Joined, Adapted
    <2>2. GoodPart(y, L \cup {l})
      BY <1>5, <1>7, AddCond DEF w
    <2>3. /\ Len(y) = Len(z) + 2 /\ \A i \in 1 .. Len(z) + 1 : y[i] = w[i]
          /\ y[Len(z) + 2] = Placement(l) /\ DOMAIN y = 1 .. Len(z) + 2
      BY <1>1, <1>2, PlacementType
    <2> HIDE DEF y
    <2>4. ExitWritten(y, exit, Len(z) + 1)
      BY <1>1, <1>2, <1>7, <2>3 DEF ExitWritten, CondWritten, CondKept
    <2> QED
      BY <1>1, <1>2, <2>1, <2>2, <2>3, <2>4 DEF JoinedWell, Extends, w
  <1>8. CASE exit.false_dest # l /\ exit.label = l
    <2> DEFINE flipped == FlipComparison(exit)
               y == Append(Append(z, flipped), Placement(l))
    <2>1. Joined(w, l) = y
      BY <1>3, <1>4, <1>8 DEF Joined, Adapted
    <2>2. /\ flipped \in StatementType /\ flipped.kind = "cond"
          /\ flipped.false_dest = l /\ flipped.label = exit.false_dest
          /\ flipped.operation = exit.operation /\ flipped.holds = ~ exit.holds
      BY <1>6, <1>8 DEF FlipComparison, StatementType
    <2> HIDE DEF flipped
    <2>3. GoodPart(y, L \cup {l})
      <3>1. \A p \in DOMAIN z : z[p].kind = "label" => z[p].label # flipped.false_dest
        BY <1>5, <2>2
      <3>2. flipped.false_dest \in (L \cup {l}) \cup ImmediateLabels(Append(z, flipped))
        BY <2>2
      <3>3. GoodPart(Append(Append(z, flipped), Placement(flipped.false_dest)), L \cup {l})
        <4>1. flipped \in StatementType /\ flipped.kind = "cond" /\ L \subseteq L \cup {l}
          BY <2>2
        <4> DEFINE M == L \cup {l}
        <4> HIDE DEF M
        <4> QED
          BY <3>1, <3>2, <4>1, AddCond, Zenon DEF M
      <3> QED
        BY <2>2, <3>3
    <2>4. /\ Len(y) = Len(z) + 2 /\ \A i \in 1 .. Len(z) : y[i] = z[i]
          /\ y[Len(z) + 1] = flipped
          /\ y[Len(z) + 2] = Placement(l) /\ DOMAIN y = 1 .. Len(z) + 2
      BY <1>1, <2>2, PlacementType
    <2> HIDE DEF y
    <2>5. ExitWritten(y, exit, Len(z) + 1)
      BY <1>1, <1>8, <2>2, <2>4, Zenon, SMT DEF ExitWritten, CondWritten, CondFlipped
    <2> QED
      BY <1>1, <1>2, <2>1, <2>3, <2>4, <2>5 DEF JoinedWell, Extends, w
  <1>9. CASE exit.false_dest # l /\ exit.label # l
    <2> DEFINE f == ImmediateFalse(w)
               c == [exit EXCEPT !.false_dest = f]
               u == Append(Append(z, c), Placement(f))
               x == Append(u, JumpTo(exit.false_dest))
               y == Append(x, Placement(l))
    <2>1. f = FirstNew + Len(source) + 2 + (Len(z) + 1) /\ f \in Nat
      BY <1>1, <1>2 DEF ImmediateFalse
    <2> HIDE DEF f
    <2>2. /\ c \in StatementType /\ c.kind = "cond" /\ c.false_dest = f /\ c.label = exit.label
          /\ c.operation = exit.operation /\ c.holds = exit.holds
      BY <1>6, <1>9, <2>1 DEF StatementType
    <2>3. Joined(w, l) = y
      <3>1. Adapted(w, l) = z \o <<c, Placement(f), JumpTo(exit.false_dest)>>
        BY <1>3, <1>4, <1>9 DEF Adapted, f
      <3>2. Placement(f) \in StatementType /\ JumpTo(exit.false_dest) \in StatementType
        BY <1>6, <2>1, PlacementType
      <3> HIDE DEF c
      <3>3. z \o <<c, Placement(f), JumpTo(exit.false_dest)>> = x
        BY <1>1, <2>2, <3>2
      <3> QED
        BY <3>1, <3>3 DEF Joined
    <2> HIDE DEF c
    <2>4. GoodPart(u, L)
      <3>1. f \in ImmediateLabels(Append(z, c))
        BY <1>1, <2>1, <2>2 DEF ImmediateLabels
      <3>2. \A p \in DOMAIN z : z[p].kind = "label" => z[p].label # f
        BY <1>1, <2>1 DEF GoodPart, ImmediateLabels
      <3> QED
        BY <2>2, <3>1, <3>2, AddCond
    <2>5. /\ Len(u) = Len(z) + 2 /\ \A i \in 1 .. Len(z) : u[i] = z[i]
          /\ u[Len(z) + 1] = c /\ u[Len(z) + 2] = Placement(f)
          /\ u \in Seq(StatementType)
      BY <1>1, <2>1, <2>2, PlacementType
    <2> HIDE DEF u
    <2>6. GoodPart(x, L)
      BY <1>6, <2>4, AddStatement, PlacementType
    <2>7. /\ Len(x) = Len(z) + 3 /\ \A i \in 1 .. Len(z) + 2 : x[i] = u[i]
          /\ x[Len(z) + 3] = JumpTo(exit.false_dest)
          /\ x \in Seq(StatementType)
      BY <1>1, <1>6, <2>5, PlacementType
    <2> HIDE DEF x
    <2>8. GoodPart(y, L \cup {l})
      BY <2>6, AddLabel
    <2>9. /\ Len(y) = Len(z) + 4 /\ \A i \in 1 .. Len(z) + 3 : y[i] = x[i]
          /\ y[Len(z) + 4] = Placement(l) /\ DOMAIN y = 1 .. Len(z) + 4
      BY <1>1, <2>7, PlacementType
    <2> HIDE DEF y
    <2>10. /\ y[Len(z) + 1] = c /\ y[Len(z) + 2] = Placement(f)
           /\ y[Len(z) + 3] = JumpTo(exit.false_dest)
           /\ \A i \in 1 .. Len(z) : y[i] = z[i]
      <3>1. Len(z) \in Nat
        BY <1>1
      <3>2. /\ 1 .. Len(z) \subseteq 1 .. Len(z) + 2 /\ 1 .. Len(z) + 2 \subseteq 1 .. Len(z) + 3
            /\ Len(z) + 1 \in 1 .. Len(z) + 2 /\ Len(z) + 2 \in 1 .. Len(z) + 2
            /\ Len(z) + 3 \in 1 .. Len(z) + 3
        BY <3>1
      <3>3. \A i \in 1 .. Len(z) + 2 : y[i] = u[i]
        BY <2>7, <2>9, <3>2, Zenon
      <3>4. y[Len(z) + 1] = c /\ y[Len(z) + 2] = Placement(f)
        BY <2>5, <3>2, <3>3, Zenon
      <3>5. y[Len(z) + 3] = JumpTo(exit.false_dest)
        BY <2>7, <2>9, <3>2, Zenon
      <3>6. \A i \in 1 .. Len(z) : y[i] = z[i]
        BY <2>5, <3>2, <3>3, Zenon
      <3> QED
        BY <3>4, <3>5, <3>6
    <2>11. ExitWritten(y, exit, Len(z) + 1)
      <3>1. CondKept(y, exit, Len(z) + 1)
        BY <1>1, <2>2, <2>9, <2>10 DEF CondKept
      <3>2. CondWritten(y, exit, Len(z) + 1)
        BY <1>1, <2>2, <2>9, <2>10, <3>1 DEF CondWritten
      <3> QED
        BY <1>1, <2>9, <3>2 DEF ExitWritten
    <2> QED
      BY <1>1, <2>3, <2>8, <2>9, <2>10, <2>11 DEF JoinedWell, Extends, w
  <1> QED
    BY <1>7, <1>8, <1>9

(* Where the copy of a block has the statement that is at p, if its label is at k. *)
Skip(b) == IF source[b].kind = "label" THEN 0 ELSE 1

Here(b, k, p) == k + (p - b) + Skip(b)

(* Where the body of a block has ended. *)
Leaves(b) == IF IsJump(source[ExitAt(source, b)]) THEN ExitAt(source, b) ELSE EndOf(source, b)

BlockAt(z, b, k) ==
  /\ k \in DOMAIN z
  /\ z[k] = Placement(StartLabel(source, b))
  /\ \A p \in b + 1 - Skip(b) .. Leaves(b) - 1 :
       Here(b, k, p) \in DOMAIN z /\ z[Here(b, k, p)] = source[p]

BlockWritten(z, b, k) ==
  BlockAt(z, b, k) /\ ExitWritten(z, Exit(source, b), Here(b, k, Leaves(b)))

LEMMA BodyIsPlain ==
  ASSUME source \in Seq(StatementType), NEW b \in BlockStarts(source)
  PROVE  /\ b \in Nat /\ Skip(b) \in {0, 1}
         /\ Leaves(b) \in b + 1 - Skip(b) .. Len(source) + 1
         /\ Leaves(b) \in {EndOf(source, b), EndOf(source, b) - 1}
         /\ \A p \in b + 1 - Skip(b) .. Leaves(b) - 1 :
              p \in DOMAIN source /\ p \in 1 .. Len(source) /\ source[p].kind = "other"
         /\ Body(source, b) = SubSeq(source, b + 1 - Skip(b), Leaves(b) - 1)
  <1>1. /\ b \in 1 .. Len(source) /\ DOMAIN source = 1 .. Len(source) /\ Len(source) \in Nat
        /\ EndOf(source, b) \in b + 1 .. Len(source) + 1
    BY BlockBounds
  <1>2. Skip(b) \in {0, 1} /\ ExitAt(source, b) = EndOf(source, b) - 1
    BY DEF Skip, ExitAt
  <1>3. \A q \in b + 1 .. EndOf(source, b) - 1 : source[q].kind # "label" /\ ~ IsJump(source[q - 1])
    BY InsideBlock
  <1>4. IsJump(source[ExitAt(source, b)]) /\ Skip(b) = 0 => ExitAt(source, b) # b
    BY DEF Skip, IsJump
  <1>5. /\ Leaves(b) \in b + 1 - Skip(b) .. Len(source) + 1
        /\ Leaves(b) \in {EndOf(source, b), EndOf(source, b) - 1}
    BY <1>1, <1>2, <1>4 DEF Leaves
  <1>6. ASSUME NEW p \in b + 1 - Skip(b) .. Leaves(b) - 1
        PROVE  p \in DOMAIN source /\ p \in 1 .. Len(source) /\ source[p].kind = "other"
    <2>1. p \in b .. EndOf(source, b) - 1 /\ p \in 1 .. Len(source)
      BY <1>1, <1>2, <1>5
    <2>2. source[p].kind # "label"
      <3>1. CASE p = b
        <4>1. Skip(b) = 1
          BY <1>1, <1>2, <3>1
        <4> QED
          BY <3>1, <4>1 DEF Skip
      <3>2. CASE p # b
        BY <1>1, <1>3, <2>1, <3>2
      <3> QED
        BY <3>1, <3>2
    <2>3. ~ IsJump(source[p])
      <3>1. CASE p = ExitAt(source, b)
        BY <1>1, <1>2, <3>1 DEF Leaves
      <3>2. CASE p # ExitAt(source, b)
        <4>1. p + 1 \in b + 1 .. EndOf(source, b) - 1 /\ (p + 1) - 1 = p
          BY <1>1, <1>2, <2>1, <3>2
        <4> QED
          BY <1>3, <4>1
      <3> QED
        BY <3>1, <3>2
    <2>4. source[p].kind \in Kinds
      <3>1. source[p] \in StatementType
        BY <2>1
      <3> QED
        BY <3>1 DEF StatementType
    <2> QED
      BY <1>1, <2>1, <2>2, <2>3, <2>4 DEF IsJump, Kinds
  <1>7. Body(source, b) = SubSeq(source, b + 1 - Skip(b), Leaves(b) - 1)
    <2>1. (IF source[b].kind = "label" THEN b + 1 ELSE b) = b + 1 - Skip(b)
      BY <1>1 DEF Skip
    <2>2. (IF IsJump(source[EndOf(source, b) - 1]) THEN EndOf(source, b) - 2
                                                  ELSE EndOf(source, b) - 1) = Leaves(b) - 1
      BY <1>1 DEF Leaves, ExitAt
    <2> QED
      BY <2>1, <2>2 DEF Body
  <1> QED
    BY <1>1, <1>2, <1>5, <1>6, <1>7

LEMMA AddPlain ==
  ASSUME NEW y, NEW L, GoodPart(y, L), NEW body \in Seq(StatementType),
         \A i \in 1 .. Len(body) : body[i].kind = "other",
         Len(source) \in Nat, FirstNew \in Nat
  PROVE  /\ GoodPart(y \o body, L)
         /\ Extends(y, y \o body)
         /\ y \o body \in Seq(StatementType)
         /\ Len(y \o body) = Len(y) + Len(body)
         /\ Len(y) \in Nat
         /\ DOMAIN (y \o body) = 1 .. Len(y) + Len(body)
         /\ \A i \in 1 .. Len(body) : (y \o body)[Len(y) + i] = body[i]
  <1> DEFINE z == y \o body
  <1>1. y \in Seq(StatementType) /\ Len(y) \in Nat /\ DOMAIN y = 1 .. Len(y) /\ Len(body) \in Nat
    BY DEF GoodPart
  <1>2. /\ z \in Seq(StatementType) /\ Len(z) = Len(y) + Len(body)
        /\ DOMAIN z = 1 .. Len(y) + Len(body)
        /\ \A i \in 1 .. Len(y) : z[i] = y[i]
        /\ \A i \in 1 .. Len(body) : z[Len(y) + i] = body[i]
    BY <1>1
  <1> HIDE DEF z
  <1>3. \A p \in DOMAIN z : z[p].kind # "other" => p \in DOMAIN y /\ z[p] = y[p]
    <2> SUFFICES ASSUME NEW p \in DOMAIN z, z[p].kind # "other"
                 PROVE  p \in DOMAIN y /\ z[p] = y[p]
      OBVIOUS
    <2>1. CASE p > Len(y)
      <3>1. p - Len(y) \in 1 .. Len(body) /\ p = Len(y) + (p - Len(y))
        BY <1>1, <1>2, <2>1
      <3> QED
        BY <1>2, <3>1
    <2>2. CASE ~ (p > Len(y))
      BY <1>1, <1>2, <2>2
    <2> QED
      BY <2>1, <2>2
  <1>4. GoodPart(z, L)
    <2>1. \A p, q \in DOMAIN z :
            z[p].kind = "label" /\ z[q].kind = "label" /\ z[p].label = z[q].label => p = q
      BY <1>3 DEF GoodPart
    <2>2. \A p \in DOMAIN z : z[p].kind = "label" => z[p].label \in L \cup ImmediateLabels(z)
      <3>1. \A x \in ImmediateLabels(y) : x \in ImmediateLabels(z)
        BY <1>1, <1>2 DEF ImmediateLabels
      <3> QED
        BY <1>3, <3>1 DEF GoodPart
    <2>3. \A p \in DOMAIN z :
            z[p].kind = "cond" => p < Len(z) /\ z[p + 1] = Placement(z[p].false_dest)
      <3> SUFFICES ASSUME NEW p \in DOMAIN z, z[p].kind = "cond"
                   PROVE  p < Len(z) /\ z[p + 1] = Placement(z[p].false_dest)
        OBVIOUS
      <3>1. p \in DOMAIN y /\ z[p] = y[p]
        BY <1>3
      <3>2. p < Len(y) /\ y[p + 1] = Placement(y[p].false_dest)
        BY <3>1 DEF GoodPart
      <3> QED
        BY <1>1, <1>2, <3>1, <3>2
    <2> QED
      BY <1>2, <2>1, <2>2, <2>3 DEF GoodPart
  <1>5. Extends(y, z)
    BY <1>1, <1>2 DEF Extends
  <1> QED
    BY <1>1, <1>2, <1>4, <1>5 DEF z

LEMMA BodyCopied ==
  ASSUME source \in Seq(StatementType), NEW b \in BlockStarts(source)
  PROVE  /\ Body(source, b) \in Seq(StatementType)
         /\ Len(Body(source, b)) = Leaves(b) - (b + 1 - Skip(b))
         /\ \A i \in 1 .. Len(Body(source, b)) :
              Body(source, b)[i] = source[b - Skip(b) + i] /\ Body(source, b)[i].kind = "other"
  <1>1. b \in 1 .. Len(source) /\ Len(source) \in Nat
    BY BlockBounds
  <1>2. /\ b \in Nat /\ Skip(b) \in {0, 1}
        /\ Leaves(b) \in b + 1 - Skip(b) .. Len(source) + 1
        /\ \A p \in b + 1 - Skip(b) .. Leaves(b) - 1 : source[p].kind = "other"
        /\ Body(source, b) = SubSeq(source, b + 1 - Skip(b), Leaves(b) - 1)
    BY BodyIsPlain
  <1>3. \A first \in 1 .. Len(source) + 1, leaves \in 0 .. Len(source) + 1 :
          leaves >= first =>
            /\ SubSeq(source, first, leaves - 1) \in Seq(StatementType)
            /\ Len(SubSeq(source, first, leaves - 1)) = leaves - first
            /\ \A i \in 1 .. leaves - first :
                 SubSeq(source, first, leaves - 1)[i] = source[first + i - 1]
    BY <1>1
  <1>4. /\ b + 1 - Skip(b) \in 1 .. Len(source) + 1 /\ Leaves(b) \in 0 .. Len(source) + 1
        /\ Leaves(b) >= b + 1 - Skip(b)
    BY <1>1, <1>2
  <1>5. /\ Body(source, b) \in Seq(StatementType)
        /\ Len(Body(source, b)) = Leaves(b) - (b + 1 - Skip(b))
        /\ \A i \in 1 .. Leaves(b) - (b + 1 - Skip(b)) :
             Body(source, b)[i] = source[(b + 1 - Skip(b)) + i - 1]
    BY <1>2, <1>3, <1>4
  <1>6. ASSUME NEW i \in 1 .. Leaves(b) - (b + 1 - Skip(b))
        PROVE  /\ (b + 1 - Skip(b)) + i - 1 = b - Skip(b) + i
               /\ b - Skip(b) + i \in b + 1 - Skip(b) .. Leaves(b) - 1
    <2>1. b \in Int /\ Skip(b) \in Int /\ Leaves(b) \in Int
      BY <1>1, <1>2, <1>4
    <2>2. i \in Int /\ 1 <= i /\ i <= Leaves(b) - (b + 1 - Skip(b))
      BY <2>1
    <2> QED
      BY <2>1, <2>2
  <1>7. ASSUME NEW i \in 1 .. Leaves(b) - (b + 1 - Skip(b))
        PROVE  /\ Body(source, b)[i] = source[b - Skip(b) + i]
               /\ Body(source, b)[i].kind = "other"
    <2>1. Body(source, b)[i] = source[b - Skip(b) + i]
      BY <1>5, <1>6
    <2>2. source[b - Skip(b) + i].kind = "other"
      BY <1>2, <1>6
    <2> QED
      BY <2>1, <2>2
  <1>8. \A i \in 1 .. Len(Body(source, b)) :
          Body(source, b)[i] = source[b - Skip(b) + i] /\ Body(source, b)[i].kind = "other"
    BY <1>5, <1>7, Zenon
  <1> QED
    BY <1>5, <1>8

LEMMA AddBody ==
  ASSUME source \in Seq(StatementType), NEW b \in BlockStarts(source), FirstNew \in Nat,
         NEW y, NEW L, GoodPart(y, L), Len(y) > 0,
         y[Len(y)] = Placement(StartLabel(source, b))
  PROVE  /\ GoodPart(y \o Body(source, b), L)
         /\ Extends(y, y \o Body(source, b))
         /\ BlockAt(y \o Body(source, b), b, Len(y))
         /\ Here(b, Len(y), Leaves(b)) = Len(y \o Body(source, b)) + 1
  <1> DEFINE z == y \o Body(source, b)
  <1>1. b \in 1 .. Len(source) /\ Len(source) \in Nat
    BY BlockBounds
  <1>2. Skip(b) \in {0, 1} /\ Leaves(b) \in b + 1 - Skip(b) .. Len(source) + 1
    BY BodyIsPlain
  <1>3. /\ Body(source, b) \in Seq(StatementType)
        /\ Len(Body(source, b)) = Leaves(b) - (b + 1 - Skip(b))
        /\ \A i \in 1 .. Len(Body(source, b)) :
             Body(source, b)[i] = source[b - Skip(b) + i] /\ Body(source, b)[i].kind = "other"
    BY BodyCopied
  <1>4. /\ GoodPart(z, L) /\ Extends(y, z)
        /\ Len(z) = Len(y) + Len(Body(source, b))
        /\ Len(y) \in Nat
        /\ DOMAIN z = 1 .. Len(y) + Len(Body(source, b))
        /\ \A i \in 1 .. Len(Body(source, b)) : z[Len(y) + i] = Body(source, b)[i]
    BY <1>1, <1>3, AddPlain
  <1> HIDE DEF z
  <1>5. Here(b, Len(y), Leaves(b)) = Len(z) + 1
    BY <1>1, <1>2, <1>3, <1>4 DEF Here
  <1>6. ASSUME NEW p \in b + 1 - Skip(b) .. Leaves(b) - 1
        PROVE  Here(b, Len(y), p) \in DOMAIN z /\ z[Here(b, Len(y), p)] = source[p]
    <2>1. /\ p - b + Skip(b) \in 1 .. Len(Body(source, b))
          /\ b - Skip(b) + (p - b + Skip(b)) = p
          /\ Here(b, Len(y), p) = Len(y) + (p - b + Skip(b))
      <3>1. b \in Int /\ Skip(b) \in Int /\ Leaves(b) \in Int /\ Len(y) \in Int
        BY <1>1, <1>2, <1>4
      <3>2. p \in Int /\ b + 1 - Skip(b) <= p /\ p <= Leaves(b) - 1
        BY <3>1
      <3> QED
        BY <1>3, <3>1, <3>2 DEF Here
    <2>2. Len(y) + (p - b + Skip(b)) \in DOMAIN z
      BY <1>3, <1>4, <2>1
    <2>3. z[Len(y) + (p - b + Skip(b))] = Body(source, b)[p - b + Skip(b)]
      BY <1>4, <2>1, Zenon
    <2>4. Body(source, b)[p - b + Skip(b)] = source[b - Skip(b) + (p - b + Skip(b))]
      BY <1>3, <2>1, Zenon
    <2> QED
      BY <2>1, <2>2, <2>3, <2>4, Zenon
  <1>7. BlockAt(z, b, Len(y))
    <2>1. Len(y) \in DOMAIN z /\ z[Len(y)] = y[Len(y)]
      BY <1>3, <1>4 DEF Extends
    <2> QED
      BY <1>6, <2>1 DEF BlockAt
  <1> QED
    BY <1>4, <1>5, <1>7 DEF z

LEMMA BlockStays ==
  ASSUME source \in Seq(StatementType), NEW b \in BlockStarts(source),
         NEW z \in Seq(StatementType), NEW y \in Seq(StatementType), Extends(z, y), NEW k
  PROVE  /\ BlockAt(z, b, k) => BlockAt(y, b, k)
         /\ BlockWritten(z, b, k) => BlockWritten(y, b, k)
  <1>1. DOMAIN z = 1 .. Len(z) /\ DOMAIN y = 1 .. Len(y) /\ Len(z) \in Nat /\ Len(y) \in Nat
    OBVIOUS
  <1>2. BlockAt(z, b, k) => BlockAt(y, b, k)
    BY <1>1 DEF BlockAt, Extends
  <1>3. ASSUME ExitWritten(z, Exit(source, b), Here(b, k, Leaves(b)))
        PROVE  ExitWritten(y, Exit(source, b), Here(b, k, Leaves(b)))
    <2>1. Here(b, k, Leaves(b)) \in Nat
      BY <1>1, <1>3 DEF ExitWritten
    <2> QED
      BY <1>1, <1>3, <2>1, ExitStays
  <1> QED
    BY <1>2, <1>3 DEF BlockWritten

(* Every block has a label of its own, the end too. *)
LEMMA StartLabels ==
  ASSUME source \in Sources
  PROVE  /\ FirstNew \in Nat /\ Len(source) \in Nat
         /\ \A b \in BlockStarts(source) : StartLabel(source, b) \in 1 .. FirstNew + Len(source)
         /\ \A b, c \in BlockStarts(source) :
              StartLabel(source, b) = StartLabel(source, c) => b = c
         /\ FinishLabel(source) = FirstNew + Len(source) + 1
         /\ StartLabel(source, Len(source) + 1) = FinishLabel(source)
         /\ \A b \in BlockStarts(source) : StartLabel(source, b) # FinishLabel(source)
  <1>1. /\ source \in Seq(StatementType) /\ Len(source) \in Nat /\ DOMAIN source = 1 .. Len(source)
        /\ FirstNew \in Nat \ {0}
        /\ \A p \in DOMAIN source : source[p].kind = "label" => source[p].label \in 1 .. FirstNew - 1
        /\ \A p, q \in DOMAIN source :
             source[p].kind = "label" /\ source[q].kind = "label"
               /\ source[p].label = source[q].label => p = q
    BY SourcesAssumption DEF WellFormed
  <1>2. \A b \in BlockStarts(source) : b \in 1 .. Len(source)
    BY <1>1 DEF BlockStarts
  <1>3. \A b \in BlockStarts(source) :
          IF source[b].kind = "label"
          THEN StartLabel(source, b) = source[b].label /\ source[b].label \in 1 .. FirstNew - 1
          ELSE StartLabel(source, b) = FirstNew + b
    BY <1>1, <1>2 DEF StartLabel, NewLabel
  <1>4. /\ FinishLabel(source) = FirstNew + Len(source) + 1
        /\ StartLabel(source, Len(source) + 1) = FinishLabel(source)
    BY <1>1 DEF StartLabel, NewLabel, FinishLabel
  <1>5. \A b \in BlockStarts(source) : StartLabel(source, b) \in 1 .. FirstNew + Len(source)
    BY <1>1, <1>2, <1>3
  <1>6. \A b, c \in BlockStarts(source) : StartLabel(source, b) = StartLabel(source, c) => b = c
    BY <1>1, <1>2, <1>3
  <1> QED
    BY <1>1, <1>4, <1>5, <1>6
------------------------------------------------------------------------------
(* The blocks are written one after the other. *)

Begun(n) == {StartLabel(source, new_order[i]) : i \in 1 .. n}

Writing(written, n, z) ==
  /\ written = Append(z, Exit(source, new_order[n]))
  /\ GoodPart(z, Begun(n))
  /\ \A i \in 1 .. n - 1 : \E k : BlockWritten(z, new_order[i], k) /\ (i = 1 => k = 1)
  /\ \E k : /\ BlockAt(z, new_order[n], k)
            /\ Here(new_order[n], k, Leaves(new_order[n])) = Len(z) + 1
            /\ n = 1 => k = 1

(* The result: every block is there once, and every way out of it. *)
Complete(s) ==
  /\ \E L : GoodPart(s, L)
  /\ \A b \in BlockStarts(source) : \E k : BlockWritten(s, b, k) /\ (b = 1 => k = 1)
  /\ HasFinishLabel(source) => Len(s) > 0 /\ s[Len(s)] = Placement(FinishLabel(source))
  /\ source = <<>> => s = <<>>

CodeInv ==
  /\ TraceInv
  /\ new_order # <<>> => new_order[1] = 1
  /\ emitted \in 0 .. Len(new_order)
  /\ pc \in {"split", "pick", "follow"} => emitted = 0
  /\ pc # "run" /\ emitted = 0 => statements = <<>>
  /\ pc = "write" /\ emitted > 0 => \E z : Writing(statements, emitted, z)
  /\ pc = "run" => Complete(statements)

LEMMA ExitType ==
  ASSUME source \in Sources, NEW b \in BlockStarts(source)
  PROVE  Exit(source, b) \in StatementType
  <1>1. source \in Seq(StatementType)
    BY SourcesAssumption DEF WellFormed
  <1>2. CASE IsJump(source[ExitAt(source, b)])
    BY <1>1, <1>2, ExitKind
  <1>3. CASE ~ IsJump(source[ExitAt(source, b)])
    <2>1. EndOf(source, b) \in BlockStarts(source) \cup {Len(source) + 1}
      BY <1>1, BlockBounds
    <2>2. StartLabel(source, EndOf(source, b)) \in Nat
      BY <2>1, StartLabels
    <2> QED
      BY <1>1, <1>3, <2>2, ExitKind, PlacementType
  <1> QED
    BY <1>2, <1>3

LEMMA SameOrder ==
  ASSUME source' = source, new_order' = new_order
  PROVE  /\ (\E z : Writing(statements, emitted, z))'
              <=> \E z : Writing(statements', emitted', z)
         /\ Complete(statements)' <=> Complete(statements')
  BY DEF Writing, Complete, Begun, GoodPart, BlockAt, BlockWritten, Here, Leaves, Skip,
         ImmediateLabels

LEMMA NextBlock ==
  ASSUME source \in Seq(StatementType), FirstNew \in Nat, new_order \in Seq(BlockStarts(source)),
         NEW n \in 0 .. Len(new_order) - 1,
         NEW y, GoodPart(y, Begun(n + 1)), Len(y) > 0,
         y[Len(y)] = Placement(StartLabel(source, new_order[n + 1])),
         \A i \in 1 .. n : \E k : BlockWritten(y, new_order[i], k) /\ (i = 1 => k = 1),
         n = 0 => Len(y) = 1
  PROVE  Writing(Append(y \o Body(source, new_order[n + 1]), Exit(source, new_order[n + 1])),
                 n + 1, y \o Body(source, new_order[n + 1]))
  <1> PICK b \in BlockStarts(source) : b = new_order[n + 1]
    OBVIOUS
  <1> DEFINE z == y \o Body(source, b)
  <1>3. /\ GoodPart(z, Begun(n + 1)) /\ Extends(y, z) /\ BlockAt(z, b, Len(y))
        /\ Here(b, Len(y), Leaves(b)) = Len(z) + 1
    BY AddBody
  <1>4. y \in Seq(StatementType) /\ z \in Seq(StatementType)
    BY <1>3 DEF GoodPart
  <1>5. \A i \in 1 .. n : \E k : BlockWritten(z, new_order[i], k) /\ (i = 1 => k = 1)
    <2> SUFFICES ASSUME NEW i \in 1 .. n
                 PROVE  \E k : BlockWritten(z, new_order[i], k) /\ (i = 1 => k = 1)
      OBVIOUS
    <2>1. PICK k : BlockWritten(y, new_order[i], k) /\ (i = 1 => k = 1)
      OBVIOUS
    <2>2. new_order[i] \in BlockStarts(source)
      OBVIOUS
    <2> HIDE DEF z
    <2>3. BlockWritten(z, new_order[i], k)
      BY <1>3, <1>4, <2>1, <2>2, BlockStays
    <2> QED
      BY <2>1, <2>3
  <1> HIDE DEF z
  <1>6. n + 1 = 1 => Len(y) = 1
    OBVIOUS
  <1>7. (n + 1) - 1 = n
    OBVIOUS
  <1>8. Writing(Append(z, Exit(source, b)), n + 1, z)
    BY <1>3, <1>5, <1>6, <1>7 DEF Writing
  <1> QED
    BY <1>8 DEF z

LEMMA WriteBlockKeeps ==
  ASSUME CodeInv, WriteBlock
  PROVE  \E z : Writing(statements', emitted', z)
  <1>1. /\ source \in Seq(StatementType) /\ FirstNew \in Nat /\ Len(source) \in Nat
        /\ source \in Sources
        /\ new_order \in Seq(BlockStarts(source)) /\ emitted \in Nat /\ emitted < Len(new_order)
        /\ pc = "write" /\ emitted' = emitted + 1
    BY SourcesAssumption DEF CodeInv, TraceInv, OrderInv, WellFormed, WriteBlock
  <1> PICK n \in 0 .. Len(new_order) - 1 : n = emitted
    BY <1>1
  <1> PICK b \in BlockStarts(source) : b = new_order[n + 1]
    BY <1>1
  <1> PICK l : l = StartLabel(source, b)
    OBVIOUS
  <1>2. statements' = Append(Joined(statements, l) \o Body(source, b), Exit(source, b))
    BY DEF WriteBlock, Joined
  <1>3. /\ l \in Nat /\ l \in 1 .. FirstNew + Len(source) + 1 /\ l \notin Begun(n)
        /\ Begun(n) \subseteq 1 .. FirstNew + Len(source) + 1
        /\ Begun(n + 1) = Begun(n) \cup {l}
    <2>1. \A c \in BlockStarts(source) :
            /\ StartLabel(source, c) \in 1 .. FirstNew + Len(source) + 1
            /\ StartLabel(source, c) = l => c = b
      BY <1>1, StartLabels
    <2>2. \A i \in 1 .. n : new_order[i] # b
      BY <1>1 DEF CodeInv, TraceInv, OrderInv, PlacedOnce
    <2>3. \A i \in 1 .. n : new_order[i] \in BlockStarts(source)
      BY <1>1
    <2>4. 1 .. n + 1 = (1 .. n) \cup {n + 1}
      OBVIOUS
    <2> QED
      BY <2>1, <2>2, <2>3, <2>4 DEF Begun
  <1>4. ASSUME NEW y, y = Joined(statements, l), GoodPart(y, Begun(n + 1)), Len(y) > 0,
               y[Len(y)] = Placement(l),
               \A i \in 1 .. n : \E k : BlockWritten(y, new_order[i], k) /\ (i = 1 => k = 1),
               n = 0 => Len(y) = 1
        PROVE  \E z : Writing(statements', emitted', z)
    <2>1. Writing(Append(y \o Body(source, new_order[n + 1]), Exit(source, new_order[n + 1])),
                  n + 1, y \o Body(source, new_order[n + 1]))
      BY <1>1, <1>4, NextBlock
    <2> QED
      BY <1>1, <1>2, <1>4, <2>1
  <1>5. CASE n = 0
    <2>1. statements = <<>>
      BY <1>1, <1>5 DEF CodeInv
    <2>2. Joined(statements, l) = Append(<<>>, Placement(l))
      BY <2>1 DEF Joined, Adapted, WithoutLastJump
    <2>3. GoodPart(<<>>, Begun(n))
      BY DEF GoodPart
    <2>4. GoodPart(Append(<<>>, Placement(l)), Begun(n + 1))
      <3>1. GoodPart(Append(<<>>, Placement(l)), Begun(n) \cup {l})
        BY <1>1, <1>3, <2>3, AddLabel, Zenon
      <3> QED
        BY <1>3, <3>1
    <2>5. /\ Len(Append(<<>>, Placement(l))) = 1
          /\ Append(<<>>, Placement(l))[1] = Placement(l)
      OBVIOUS
    <2> QED
      BY <1>4, <1>5, <2>2, <2>4, <2>5
  <1>6. CASE n > 0
    <2>1. PICK z : Writing(statements, n, z)
      BY <1>1, <1>6 DEF CodeInv
    <2> PICK c \in BlockStarts(source) : c = new_order[n]
      BY <1>1, <1>6
    <2> DEFINE exit == Exit(source, c)
               y == Joined(statements, l)
    <2>2. statements = Append(z, exit) /\ GoodPart(z, Begun(n))
      BY <2>1 DEF Writing
    <2>3. exit \in StatementType /\ exit.kind \in {"jump", "cond"}
      BY <1>1, ExitType, ExitKind
    <2>4. JoinedWell(z, Begun(n), exit, l, y)
      <3> HIDE DEF exit
      <3>1. JoinedWell(z, Begun(n), exit, l, Joined(Append(z, exit), l))
        BY <1>1, <1>3, <2>2, <2>3, JoinJump, JoinCond
      <3> QED
        BY <2>2, <3>1
    <2> HIDE DEF y
    <2>5. GoodPart(y, Begun(n + 1)) /\ Extends(z, y) /\ Len(y) > Len(z) /\ y[Len(y)] = Placement(l)
          /\ ExitWritten(y, exit, Len(z) + 1)
      BY <1>3, <2>4 DEF JoinedWell
    <2>6. z \in Seq(StatementType) /\ y \in Seq(StatementType)
      BY <2>2, <2>5 DEF GoodPart
    <2>7. ASSUME NEW i \in 1 .. n
          PROVE  \E k : BlockWritten(y, new_order[i], k) /\ (i = 1 => k = 1)
      <3>1. CASE i < n
        <4>1. PICK k : BlockWritten(z, new_order[i], k) /\ (i = 1 => k = 1)
          BY <2>1, <3>1 DEF Writing
        <4>2. new_order[i] \in BlockStarts(source)
          BY <1>1
        <4>3. BlockWritten(y, new_order[i], k)
          BY <1>1, <2>5, <2>6, <4>1, <4>2, BlockStays
        <4> QED
          BY <4>1, <4>3
      <3>2. CASE i = n
        <4>1. PICK k : /\ BlockAt(z, c, k) /\ Here(c, k, Leaves(c)) = Len(z) + 1
                       /\ n = 1 => k = 1
          BY <2>1 DEF Writing
        <4>2. BlockAt(y, c, k)
          BY <1>1, <2>5, <2>6, <4>1, BlockStays
        <4> QED
          BY <2>5, <3>2, <4>1, <4>2 DEF BlockWritten
      <3> QED
        BY <3>1, <3>2
    <2> QED
      BY <1>4, <1>6, <2>5, <2>6, <2>7 DEF y
  <1> QED
    BY <1>5, <1>6

LEMMA FinishCompletes ==
  ASSUME CodeInv, Finish
  PROVE  Complete(statements')
  <1>1. /\ source \in Seq(StatementType) /\ FirstNew \in Nat /\ Len(source) \in Nat
        /\ DOMAIN source = 1 .. Len(source)
        /\ source \in Sources
        /\ new_order \in Seq(BlockStarts(source)) /\ emitted = Len(new_order)
        /\ pc = "write" /\ remaining = {}
    BY SourcesAssumption DEF CodeInv, TraceInv, OrderInv, WellFormed, Finish
  <1>2. \A b \in BlockStarts(source) : \E i \in 1 .. Len(new_order) : new_order[i] = b
    <2>1. ToSet(new_order) = BlockStarts(source)
      BY <1>1 DEF CodeInv, TraceInv, OrderInv, PlacedOnce
    <2> QED
      BY <1>1, <2>1 DEF ToSet
  <1>3. CASE emitted = 0
    <2>1. statements = <<>> /\ BlockStarts(source) = {}
      BY <1>1, <1>2, <1>3 DEF CodeInv
    <2>2. source = <<>>
      <3>1. 1 \notin DOMAIN source
        BY <2>1 DEF BlockStarts
      <3> QED
        BY <1>1, <3>1
    <2>3. ~ HasFinishLabel(source) /\ statements' = <<>>
      BY <2>1, <2>2 DEF HasFinishLabel, Finish
    <2>4. GoodPart(<<>>, {})
      BY DEF GoodPart
    <2> QED
      BY <2>1, <2>3, <2>4 DEF Complete
  <1>4. CASE emitted > 0
    <2> PICK n \in 1 .. Len(new_order) : n = emitted
      BY <1>1, <1>4
    <2>0. n = Len(new_order) /\ new_order # <<>> /\ source # <<>> /\ Len(source) >= 1
      <3>1. n = Len(new_order) /\ new_order # <<>> /\ new_order[1] \in BlockStarts(source)
        BY <1>1, <1>4
      <3> QED
        BY <1>1, <3>1 DEF BlockStarts
    <2>1. PICK z : Writing(statements, n, z)
      BY <1>1, <1>4 DEF CodeInv
    <2> PICK c \in BlockStarts(source) : c = new_order[n]
      BY <1>1
    <2> DEFINE exit == Exit(source, c)
    <2>2. statements = Append(z, exit) /\ GoodPart(z, Begun(n))
      BY <2>1 DEF Writing
    <2>3. exit \in StatementType /\ exit.kind = "jump"
      <3>1. source[ExitAt(source, c)].kind # "cond"
        BY <1>1, <2>0 DEF CodeInv, TraceInv, CondExit
      <3> QED
        BY <1>1, <3>1, ExitType, ExitKind
    <2>4. z \in Seq(StatementType) /\ Len(z) \in Nat
      BY <2>2 DEF GoodPart
    <2> HIDE DEF exit
    <2>5. ASSUME NEW y, NEW L, y = statements', GoodPart(y, L), Extends(z, y),
                 ExitWritten(y, exit, Len(z) + 1),
                 HasFinishLabel(source) => Len(y) > 0 /\ y[Len(y)] = Placement(FinishLabel(source))
          PROVE  Complete(statements')
      <3>1. y \in Seq(StatementType)
        BY <2>5 DEF GoodPart
      <3>2. ASSUME NEW i \in 1 .. n
            PROVE  \E k : BlockWritten(y, new_order[i], k) /\ (i = 1 => k = 1)
        <4>1. CASE i < n
          <5>1. PICK k : BlockWritten(z, new_order[i], k) /\ (i = 1 => k = 1)
            BY <2>1, <4>1 DEF Writing
          <5>2. new_order[i] \in BlockStarts(source)
            BY <1>1
          <5>3. BlockWritten(y, new_order[i], k)
            BY <1>1, <2>4, <2>5, <3>1, <5>1, <5>2, BlockStays
          <5> QED
            BY <5>1, <5>3
        <4>2. CASE i = n
          <5>1. PICK k : /\ BlockAt(z, c, k) /\ Here(c, k, Leaves(c)) = Len(z) + 1
                         /\ n = 1 => k = 1
            BY <2>1 DEF Writing
          <5>2. BlockAt(y, c, k)
            BY <1>1, <2>4, <2>5, <3>1, <5>1, BlockStays
          <5> QED
            BY <2>5, <4>2, <5>1, <5>2 DEF BlockWritten, exit
        <4> QED
          BY <4>1, <4>2
      <3>3. ASSUME NEW b \in BlockStarts(source)
            PROVE  \E k : BlockWritten(y, b, k) /\ (b = 1 => k = 1)
        <4>1. PICK i \in 1 .. Len(new_order) : new_order[i] = b
          BY <1>2
        <4>2. b = 1 => i = 1
          BY <1>1, <2>0, <4>1 DEF CodeInv, TraceInv, OrderInv, PlacedOnce
        <4> QED
          BY <2>0, <3>2, <4>1, <4>2
      <3> QED
        BY <2>0, <2>5, <3>3 DEF Complete
    <2>6. CASE HasFinishLabel(source)
      <3> PICK l : l = FinishLabel(source)
        OBVIOUS
      <3>1. /\ l \in Nat /\ l \in 1 .. FirstNew + Len(source) + 1 /\ l \notin Begun(n)
            /\ Begun(n) \subseteq 1 .. FirstNew + Len(source) + 1
        <4>1. \A i \in 1 .. n : new_order[i] \in BlockStarts(source)
          BY <1>1
        <4>2. \A b \in BlockStarts(source) :
                 /\ StartLabel(source, b) \in 1 .. FirstNew + Len(source) + 1
                 /\ StartLabel(source, b) # l
          BY <1>1, StartLabels
        <4>3. l = FirstNew + Len(source) + 1
          BY <1>1, StartLabels
        <4> QED
          BY <1>1, <4>1, <4>2, <4>3 DEF Begun
      <3>2. statements' = Joined(statements, l) /\ JoinedWell(z, Begun(n), exit, l, statements')
        <4>1. /\ Joined(Append(z, exit), l)
                   = Append(WithoutLastJump(Append(z, exit), l), Placement(l))
              /\ JoinedWell(z, Begun(n), exit, l, Joined(Append(z, exit), l))
          BY <1>1, <2>2, <2>3, <3>1, JoinJump
        <4>2. statements' = Append(WithoutLastJump(statements, l), Placement(l))
          BY <2>6 DEF Finish
        <4> QED
          BY <2>2, <4>1, <4>2
      <3> PICK y : y = statements'
        OBVIOUS
      <3>3. GoodPart(y, Begun(n) \cup {l}) /\ Extends(z, y) /\ Len(y) > Len(z)
            /\ y[Len(y)] = Placement(l) /\ ExitWritten(y, exit, Len(z) + 1)
        BY <3>2 DEF JoinedWell
      <3>4. Len(y) > 0
        <4>1. Len(y) \in Nat
          BY <3>3 DEF GoodPart
        <4> QED
          BY <2>4, <3>3, <4>1
      <3> QED
        BY <2>5, <3>3, <3>4
    <2>7. CASE ~ HasFinishLabel(source)
      <3> PICK y : y = Append(z, exit)
        OBVIOUS
      <3>1. statements' = y
        BY <2>2, <2>7 DEF Finish
      <3>2. GoodPart(y, Begun(n))
        BY <1>1, <2>2, <2>3, AddStatement
      <3>3. /\ Extends(z, y) /\ Len(z) + 1 \in DOMAIN y /\ y[Len(z) + 1] = exit
        BY <2>3, <2>4 DEF Extends
      <3>4. ExitWritten(y, exit, Len(z) + 1)
        BY <2>3, <3>3 DEF ExitWritten, JumpWritten
      <3> QED
        BY <2>5, <2>7, <3>1, <3>2, <3>3, <3>4
    <2> QED
      BY <2>6, <2>7
  <1> QED
    BY <1>1, <1>3, <1>4 DEF CodeInv

LEMMA CodeNext == CodeInv /\ [Next]_vars => CodeInv'
  <1> SUFFICES ASSUME CodeInv, [Next]_vars PROVE CodeInv'
    OBVIOUS
  <1>0. TraceInv'
    BY TraceNext DEF CodeInv
  <1>1. CASE Split
    <2>1. new_order' = new_order /\ emitted' = emitted /\ statements' = statements
          /\ pc = "split" /\ pc' = "pick"
      BY <1>1 DEF Split
    <2> QED
      BY <1>0, <2>1 DEF CodeInv
  <1>2. ASSUME NEW b, Place(b), pc \in {"pick", "follow"}, pc' = "follow",
               new_order = <<>> => b = 1
        PROVE  CodeInv'
    <2>1. /\ new_order' = Append(new_order, b) /\ emitted' = emitted /\ statements' = statements
      BY <1>2 DEF Place
    <2>2. new_order \in Seq(BlockStarts(source))
      BY DEF CodeInv, TraceInv, OrderInv
    <2>3. emitted = 0 /\ statements = <<>>
      BY <1>2 DEF CodeInv
    <2>4. new_order' # <<>> => new_order'[1] = 1
      <3>1. CASE new_order = <<>>
        BY <1>2, <2>1, <3>1
      <3>2. CASE new_order # <<>>
        <4>1. new_order[1] = 1
          BY <3>2 DEF CodeInv
        <4>2. Len(new_order) >= 1 /\ Len(new_order) \in Nat
          BY <2>2, <3>2
        <4>3. \A x : Append(new_order, x)[1] = new_order[1]
          BY <2>2, <4>2
        <4> QED
          BY <2>1, <4>1, <4>3
      <3> QED
        BY <3>1, <3>2
    <2>5. new_order' \in Seq(BlockStarts(source'))
      BY <1>0 DEF TraceInv, OrderInv
    <2>6. emitted' \in 0 .. Len(new_order')
      BY <2>1, <2>3, <2>5
    <2> QED
      BY <1>0, <1>2, <2>1, <2>3, <2>4, <2>6 DEF CodeInv
  <1>3. CASE PickBlock
    <2>1. PICK b \in remaining : (\A c \in remaining : b <= c) /\ Place(b)
      BY <1>3 DEF PickBlock
    <2>2. new_order = <<>> => b = 1
      <3> SUFFICES ASSUME new_order = <<>> PROVE b = 1
        OBVIOUS
      <3>1. ToSet(new_order) = {}
        BY DEF ToSet
      <3>2. remaining = BlockStarts(source) /\ source \in Seq(StatementType)
        <4>1. pc = "pick" /\ TraceInv
          BY <1>3 DEF CodeInv, PickBlock
        <4>2. remaining \cup ToSet(new_order) = BlockStarts(source)
          BY <4>1 DEF TraceInv, OrderInv, PlacedOnce
        <4>3. source \in Seq(StatementType)
          BY <4>1, SourcesAssumption DEF TraceInv, WellFormed
        <4> QED
          BY <3>1, <4>2, <4>3
      <3>3. b \in DOMAIN source /\ b \in 1 .. Len(source)
        BY <3>2 DEF BlockStarts
      <3>4. 1 \in BlockStarts(source)
        BY <3>2, <3>3 DEF BlockStarts
      <3> QED
        BY <2>1, <3>2, <3>3, <3>4
    <2> QED
      BY <1>2, <1>3, <2>1, <2>2 DEF PickBlock
  <1>4. CASE Follow
    <2>1. PICK b \in NextBlocks : Place(b)
      BY <1>4 DEF Follow
    <2>2. pc = "follow" /\ pc' = "follow" /\ new_order # <<>>
      BY <1>4 DEF Follow, CodeInv, TraceInv
    <2> QED
      BY <1>2, <2>1, <2>2
  <1>5. CASE EndTrace \/ StartWriting
    <2>1. new_order' = new_order /\ emitted' = emitted /\ statements' = statements
          /\ pc \in {"pick", "follow"} /\ pc' \in {"pick", "write"}
      BY <1>5 DEF EndTrace, StartWriting
    <2> QED
      BY <1>0, <2>1 DEF CodeInv
  <1>6. CASE WriteBlock
    <2>1. source' = source /\ new_order' = new_order /\ emitted' = emitted + 1
          /\ pc = "write" /\ pc' = "write" /\ emitted < Len(new_order)
      BY <1>6 DEF WriteBlock
    <2>2. (\E z : Writing(statements, emitted, z))'
      BY <1>6, <2>1, WriteBlockKeeps, SameOrder
    <2>3. new_order \in Seq(BlockStarts(source)) /\ emitted \in 0 .. Len(new_order)
      BY DEF CodeInv, TraceInv, OrderInv
    <2>4. emitted' \in 0 .. Len(new_order') /\ emitted' # 0
      BY <2>1, <2>3
    <2> QED
      BY <1>0, <2>1, <2>2, <2>4 DEF CodeInv
  <1>7. CASE Finish
    <2>1. source' = source /\ new_order' = new_order /\ emitted' = emitted /\ pc' = "run"
      BY <1>7 DEF Finish
    <2>2. Complete(statements)'
      BY <1>7, <2>1, FinishCompletes, SameOrder
    <2> QED
      BY <1>0, <2>1, <2>2 DEF CodeInv
  <1>8. CASE Execute \/ UNCHANGED vars
    <2>1. /\ source' = source /\ new_order' = new_order /\ emitted' = emitted
          /\ statements' = statements /\ pc' = pc
      BY <1>8 DEF Execute, vars
    <2>2. /\ (\E z : Writing(statements, emitted, z))'
              <=> \E z : Writing(statements, emitted, z)
          /\ Complete(statements)' <=> Complete(statements)
      BY <2>1, SameOrder
    <2> QED
      BY <1>0, <2>1, <2>2 DEF CodeInv
  <1> QED
    BY <1>1, <1>3, <1>4, <1>5, <1>6, <1>7, <1>8 DEF Next, Stopped

LEMMA CodeAlways == Spec => []CodeInv
  <1>1. Init => CodeInv
    BY DEF Init, CodeInv, TraceInv, OrderInv, PlacedOnce
  <1> QED
    BY <1>1, CodeNext, PTL DEF Spec

(****************************************************************************)
(* In every function the translator can make, whatever traces its blocks    *)
(* come in, no conditional jump is left without its false destination right *)
(* behind it.                                                               *)
(****************************************************************************)
THEOREM FalseDestIsNext == Spec => []FalseDestFollows
  <1>1. CodeInv => FalseDestFollows
    BY DEF CodeInv, Complete, GoodPart, FalseDestFollows
  <1> QED
    BY <1>1, CodeAlways, PTL
------------------------------------------------------------------------------
(* Where a run comes to an operation. *)

Resting(s, p) == p \notin DOMAIN s \/ IsOperation(s, p)

Move(s, p) == IF Resting(s, p) THEN p ELSE Step(s, p)

Moves(f, s, p) == f[0] = p /\ \A k \in Nat : f[k + 1] = Move(s, f[k])

Places(s, p) == {p} \cup DOMAIN s \cup {Move(s, q) : q \in DOMAIN s}

LEMMA MovesExist ==
  ASSUME NEW s, NEW p
  PROVE  \E f \in [Nat -> Places(s, p)] : Moves(f, s, p)
  <1> DEFINE X == Places(s, p)
             F == [q \in X |-> Move(s, q)]
  <1>1. F \in [X -> X]
    BY DEF Places, Move, Resting
  <1>2. p \in X
    BY DEF Places
  <1> HIDE DEF X, F
  <1>3. PICK f \in [Nat -> X] : f[0] = p /\ \A k \in Nat : f[k + 1] = F[f[k]]
    BY <1>1, <1>2, Iteration
  <1>4. Moves(f, s, p)
    BY <1>3 DEF Moves, F
  <1> QED
    BY <1>4 DEF X

LEMMA MovesAgree ==
  ASSUME NEW s, NEW p, NEW f, NEW g, Moves(f, s, p), Moves(g, s, p)
  PROVE  \A k \in Nat : f[k] = g[k]
  <1> DEFINE S == {k \in Nat : f[k] = g[k]}
  <1>1. 0 \in S /\ \A k \in Nat : k \in S => k + 1 \in S
    BY DEF Moves
  <1>2. Nat \subseteq S
    <2> HIDE DEF S
    <2> QED
      BY <1>1, SetInduction
  <1> QED
    BY <1>2

(* Settled is where so many moves lead as there are statements. *)
LEMMA SettledMoves ==
  ASSUME NEW s, Len(s) \in Nat, NEW p, NEW f, Moves(f, s, p)
  PROVE  Settled(s, p) = IF Resting(s, f[Len(s)]) THEN f[Len(s)] ELSE 0
  <1> DEFINE Defines(r) ==
               r = [k \in Nat |->
                      IF k = 0 THEN p
                      ELSE LET q == r[k - 1]
                           IN IF q \notin DOMAIN s \/ IsOperation(s, q) THEN q ELSE Step(s, q)]
             g == CHOOSE r : Defines(r)
  <1>1. Defines([k \in Nat |-> f[k]])
    <2> DEFINE h == [k \in Nat |-> f[k]]
    <2>1. \A k \in Nat : k # 0 => k - 1 \in Nat /\ (k - 1) + 1 = k
      OBVIOUS
    <2>2. \A k \in Nat : k # 0 => h[k] = Move(s, h[k - 1])
      BY <2>1 DEF Moves
    <2>3. h[0] = p
      BY DEF Moves
    <2>4. h = [k \in Nat |-> IF k = 0 THEN p ELSE Move(s, h[k - 1])]
      BY <2>2, <2>3
    <2> HIDE DEF h
    <2>5. Defines(h)
      BY <2>4 DEF Move, Resting
    <2> QED
      BY <2>5 DEF h
  <1>2. Defines(g)
    <2> HIDE DEF Defines
    <2> QED
      BY <1>1
  <1>3. Settled(s, p) = IF g[Len(s)] \in DOMAIN s /\ ~ IsOperation(s, g[Len(s)])
                        THEN 0 ELSE g[Len(s)]
    BY DEF Settled
  <1>4. Moves(g, s, p)
    <2> HIDE DEF g
    <2>1. g[0] = p
      BY <1>2
    <2>2. \A k \in Nat : g[k + 1] = Move(s, g[k])
      BY <1>2 DEF Move, Resting
    <2> QED
      BY <2>1, <2>2 DEF Moves
  <1>5. g[Len(s)] = f[Len(s)]
    <2> HIDE DEF g
    <2> QED
      BY <1>4, MovesAgree
  <1> HIDE DEF g
  <1> QED
    BY <1>3, <1>5 DEF Resting

LEMMA RestStays ==
  ASSUME NEW s, NEW p, Resting(s, p), NEW f, Moves(f, s, p)
  PROVE  \A k \in Nat : f[k] = p
  <1> DEFINE S == {k \in Nat : f[k] = p}
  <1>1. 0 \in S /\ \A k \in Nat : k \in S => k + 1 \in S
    BY DEF Moves, Move
  <1>2. Nat \subseteq S
    <2> HIDE DEF S
    <2> QED
      BY <1>1, SetInduction
  <1> QED
    BY <1>2

LEMMA SettledRests ==
  ASSUME NEW s, Len(s) \in Nat, NEW p, Resting(s, p)
  PROVE  Settled(s, p) = p
  <1>1. PICK f : Moves(f, s, p)
    BY MovesExist
  <1>2. f[Len(s)] = p
    BY <1>1, RestStays
  <1> QED
    BY <1>1, <1>2, SettledMoves

LEMMA FirstNumbers ==
  ASSUME NEW n \in Nat
  PROVE  IsFiniteSet(1 .. n) /\ Cardinality(1 .. n) = n
  BY FS_Interval

LEMMA SettledGoesOn ==
  ASSUME NEW s, Len(s) \in Nat, DOMAIN s = 1 .. Len(s), NEW p, ~ Resting(s, p)
  PROVE  Settled(s, p) = Settled(s, Step(s, p))
  <1> PICK n \in Nat : n = Len(s)
    OBVIOUS
  <1> DEFINE X == Places(s, p)
             F == [q \in X |-> Move(s, q)]
             R == {q \in X : Resting(s, q)}
  <1>1. PICK f \in [Nat -> X] : Moves(f, s, p)
    BY MovesExist
  <1>2. PICK g : Moves(g, s, Step(s, p))
    BY MovesExist
  <1>3. \A k \in Nat : g[k] = f[k + 1]
    <2> DEFINE h == [k \in Nat |-> f[k + 1]]
    <2>1. Moves(h, s, Step(s, p))
      <3>1. f[0 + 1] = Step(s, p)
        BY <1>1 DEF Moves, Move
      <3>2. \A k \in Nat : k + 1 \in Nat /\ f[(k + 1) + 1] = Move(s, f[k + 1])
        BY <1>1 DEF Moves
      <3> QED
        BY <3>1, <3>2 DEF Moves
    <2>2. \A k \in Nat : g[k] = h[k]
      <3> HIDE DEF h
      <3> QED
        BY <1>2, <2>1, MovesAgree
    <2> QED
      BY <2>2
  <1>4. f[n + 1] = Move(s, f[n])
    BY <1>1 DEF Moves
  <1>5. Resting(s, f[n + 1]) => Resting(s, f[n])
    <2> SUFFICES ASSUME Resting(s, f[n + 1]) PROVE Resting(s, f[n])
      OBVIOUS
    <2> DEFINE D == 1 .. n
    <2>1. IsFiniteSet(D) /\ Cardinality(D) = n
      BY FirstNumbers
    <2>2. X \ R \subseteq D /\ R \in SUBSET X
      BY DEF Resting
    <2>3. F \in [X -> X]
      BY DEF Places, Move, Resting
    <2>4. \A x \in R : F[x] = x
      BY DEF Move
    <2>5. Orbit(f, F, X)
      BY <1>1 DEF Orbit, Moves
    <2>6. f[n + 1] \in R
      BY <1>1
    <2> HIDE DEF D, X, F, R
    <2>7. f[n] \in R
      BY <2>1, <2>2, <2>3, <2>4, <2>5, <2>6, RestsInTime
    <2> QED
      BY <2>7 DEF R
  <1>6. g[n] = f[n + 1]
    BY <1>3
  <1>7. /\ Settled(s, p) = IF Resting(s, f[n]) THEN f[n] ELSE 0
        /\ Settled(s, Step(s, p)) = IF Resting(s, g[n]) THEN g[n] ELSE 0
    BY <1>1, <1>2, SettledMoves
  <1> QED
    BY <1>4, <1>5, <1>6, <1>7 DEF Move

(* What holds wherever a run rests, and where it goes on to where it holds, *)
(* holds wherever it settles.                                               *)
LEMMA SettledBack ==
  ASSUME NEW s, Len(s) \in Nat, NEW D, NEW T,
         \A q \in D : IF Resting(s, q) THEN q \in T
                      ELSE Step(s, q) \in D /\ (Step(s, q) \in T => q \in T),
         NEW p \in D, Settled(s, p) # 0
  PROVE  p \in T
  <1> PICK n \in Nat : n = Len(s)
    OBVIOUS
  <1>1. PICK f : Moves(f, s, p)
    BY MovesExist
  <1>2. \A k \in Nat : f[k] \in D
    <2> DEFINE S == {k \in Nat : f[k] \in D}
    <2>1. 0 \in S
      BY <1>1 DEF Moves
    <2>2. ASSUME NEW k \in Nat, f[k] \in D
          PROVE  f[k + 1] \in D
      <3>1. f[k + 1] = Move(s, f[k])
        BY <1>1 DEF Moves
      <3>2. Resting(s, f[k]) \/ Step(s, f[k]) \in D
        BY <2>2
      <3> QED
        BY <2>2, <3>1, <3>2 DEF Move
    <2>3. \A k \in Nat : k \in S => k + 1 \in S
      BY <2>2
    <2>4. Nat \subseteq S
      <3> HIDE DEF S
      <3> QED
        BY <2>1, <2>3, SetInduction
    <2> QED
      BY <2>4
  <1>3. f[n] \in T
    <2>1. Resting(s, f[n])
      BY <1>1, SettledMoves
    <2> QED
      BY <1>2, <2>1
  <1> DEFINE S == {j \in Nat : j <= n => f[n - j] \in T}
  <1>4. 0 \in S
    BY <1>3
  <1>5. ASSUME NEW j \in Nat, j \in S
        PROVE  j + 1 \in S
    <2> SUFFICES ASSUME j + 1 <= n PROVE f[n - (j + 1)] \in T
      OBVIOUS
    <2>1. n - (j + 1) \in Nat /\ (n - (j + 1)) + 1 = n - j
      OBVIOUS
    <2>2. f[n - j] = Move(s, f[n - (j + 1)]) /\ f[n - (j + 1)] \in D
      BY <1>1, <1>2, <2>1 DEF Moves
    <2>3. f[n - j] \in T
      BY <1>5
    <2> QED
      BY <2>2, <2>3 DEF Move
  <1>6. Nat \subseteq S
    <2> HIDE DEF S
    <2> QED
      BY <1>4, <1>5, SetInduction
  <1>7. f[n - n] \in T /\ n - n = 0
    BY <1>6
  <1> QED
    BY <1>1, <1>7 DEF Moves
------------------------------------------------------------------------------
(* The two runs side by side. *)

(* Here p begins a block, or is the end, and r is where its label is in the result. *)
Starts(p, r) ==
  \/ p \in BlockStarts(source) /\ BlockWritten(statements, p, r)
  \/ HasFinishLabel(source) /\ p = Len(source) + 1 /\ r = Len(statements)

Inside(p, r) ==
  \E b \in BlockStarts(source), k \in Nat :
    /\ BlockWritten(statements, b, k)
    /\ p \in b + 1 - Skip(b) .. Leaves(b)
    /\ r = Here(b, k, p)

Ended(p, r) == HasFinishLabel(source) /\ p = Len(source) + 1 /\ r = Len(statements) + 1

Corresponds(p, r) == Starts(p, r) \/ Inside(p, r) \/ Ended(p, r)

(* Where a label of the source is. *)
Marks(q, label) ==
  \/ q \in BlockStarts(source) /\ StartLabel(source, q) = label
  \/ HasFinishLabel(source) /\ q = Len(source) + 1 /\ FinishLabel(source) = label

Arranged == source \in Sources /\ source # <<>> /\ Complete(statements)

LEMMA ArrangedTypes ==
  ASSUME Arranged
  PROVE  /\ source \in Seq(StatementType) /\ statements \in Seq(StatementType)
         /\ Len(source) \in Nat /\ Len(statements) \in Nat
         /\ DOMAIN source = 1 .. Len(source) /\ DOMAIN statements = 1 .. Len(statements)
         /\ \A p, q \in DOMAIN statements :
              statements[p].kind = "label" /\ statements[q].kind = "label"
                /\ statements[p].label = statements[q].label => p = q
         /\ HasFinishLabel(source) =>
              /\ Len(statements) \in DOMAIN statements
              /\ statements[Len(statements)] = Placement(FinishLabel(source))
              /\ FinishLabel(source) \in Nat
  <1>1. source \in Seq(StatementType) /\ FinishLabel(source) \in Nat
    BY SourcesAssumption, StartLabels DEF Arranged, WellFormed
  <1>2. PICK L : GoodPart(statements, L)
    BY DEF Arranged, Complete
  <1>3. statements \in Seq(StatementType)
    BY <1>2 DEF GoodPart
  <1>4. HasFinishLabel(source) =>
          Len(statements) > 0 /\ statements[Len(statements)] = Placement(FinishLabel(source))
    BY DEF Arranged, Complete
  <1>5. \A p, q \in DOMAIN statements :
          statements[p].kind = "label" /\ statements[q].kind = "label"
            /\ statements[p].label = statements[q].label => p = q
    BY <1>2 DEF GoodPart
  <1> QED
    BY <1>1, <1>3, <1>4, <1>5

LEMMA PositionIs ==
  ASSUME NEW s, NEW k \in DOMAIN s, s[k].kind = "label",
         \A p, q \in DOMAIN s :
           s[p].kind = "label" /\ s[q].kind = "label" /\ s[p].label = s[q].label => p = q
  PROVE  Position(s, s[k].label) = k
  BY DEF Position

(* A destination is where a block begins. *)
LEMMA TargetMarked ==
  ASSUME source \in Sources, NEW l \in Targets(source)
  PROVE  /\ Position(source, l) \in BlockStarts(source)
         /\ Marks(Position(source, l), l)
         /\ Position(source, l) \in DOMAIN source
         /\ source[Position(source, l)].kind = "label"
  <1>1. \E p \in DOMAIN source : source[p].kind = "label" /\ source[p].label = l
    BY SourcesAssumption DEF WellFormed
  <1>2. /\ Position(source, l) \in DOMAIN source
        /\ source[Position(source, l)].kind = "label"
        /\ source[Position(source, l)].label = l
    BY <1>1 DEF Position
  <1> QED
    BY <1>2 DEF Marks, BlockStarts, StartLabel

LEMMA StartsLabel ==
  ASSUME Arranged, NEW p, NEW r, Starts(p, r)
  PROVE  /\ r \in DOMAIN statements /\ r \in 1 .. Len(statements)
         /\ statements[r].kind = "label" /\ Marks(p, statements[r].label)
         /\ ~ Resting(statements, r) /\ Step(statements, r) = r + 1
         /\ Settled(statements, r) = Settled(statements, r + 1)
  <1>0. /\ Len(statements) \in Nat /\ DOMAIN statements = 1 .. Len(statements)
    BY ArrangedTypes
  <1>1. /\ r \in DOMAIN statements /\ statements[r].kind = "label"
        /\ Marks(p, statements[r].label)
    <2>1. CASE p \in BlockStarts(source) /\ BlockWritten(statements, p, r)
      <3>1. r \in DOMAIN statements /\ statements[r] = Placement(StartLabel(source, p))
        BY <2>1 DEF BlockWritten, BlockAt
      <3> QED
        BY <2>1, <3>1 DEF Placement, Statement, Marks
    <2>2. CASE HasFinishLabel(source) /\ p = Len(source) + 1 /\ r = Len(statements)
      <3>1. r \in DOMAIN statements /\ statements[r] = Placement(FinishLabel(source))
        BY <2>2, ArrangedTypes
      <3> QED
        BY <2>2, <3>1 DEF Placement, Statement, Marks
    <2> QED
      BY <2>1, <2>2 DEF Starts
  <1>2. ~ Resting(statements, r) /\ Step(statements, r) = r + 1
    BY <1>1 DEF Resting, IsOperation, Step
  <1> QED
    BY <1>0, <1>1, <1>2, SettledGoesOn

LEMMA BlocksStart ==
  ASSUME Arranged, NEW q, NEW l, Marks(q, l)
  PROVE  \E k : Starts(q, k) /\ statements[k].label = l
  <1>1. CASE q \in BlockStarts(source) /\ StartLabel(source, q) = l
    <2>1. PICK k : BlockWritten(statements, q, k)
      BY <1>1 DEF Arranged, Complete
    <2>2. statements[k] = Placement(l)
      BY <1>1, <2>1 DEF BlockWritten, BlockAt
    <2> QED
      BY <1>1, <2>1, <2>2 DEF Starts, Placement, Statement
  <1>2. CASE HasFinishLabel(source) /\ q = Len(source) + 1 /\ FinishLabel(source) = l
    <2>1. statements[Len(statements)] = Placement(l)
      BY <1>2, ArrangedTypes
    <2> QED
      BY <1>2, <2>1 DEF Starts, Placement, Statement
  <1> QED
    BY <1>1, <1>2 DEF Marks

(* A jump to a label, or the label, is as good as the block. *)
LEMMA LeadsToBlock ==
  ASSUME Arranged, NEW q, NEW l, Marks(q, l), NEW r \in DOMAIN statements,
         statements[r].kind \in {"jump", "label"}, statements[r].label = l
  PROVE  \E k : /\ Starts(q, k)
                /\ ~ Resting(statements, r)
                /\ r = k \/ Step(statements, r) = k
                /\ Settled(statements, r) = Settled(statements, k)
  <1>1. PICK k : Starts(q, k) /\ statements[k].label = l
    BY BlocksStart
  <1>2. k \in DOMAIN statements /\ statements[k].kind = "label"
    BY <1>1, StartsLabel
  <1>3. ~ Resting(statements, r)
    BY DEF Resting, IsOperation
  <1>4. CASE statements[r].kind = "label"
    <2>1. r = k
      BY <1>1, <1>2, <1>4, ArrangedTypes
    <2> QED
      BY <1>1, <1>3, <2>1
  <1>5. CASE statements[r].kind = "jump"
    <2>1. Step(statements, r) = k
      BY <1>1, <1>2, <1>5, ArrangedTypes, PositionIs DEF Step
    <2>2. Settled(statements, r) = Settled(statements, k)
      BY <1>3, <2>1, SettledGoesOn, ArrangedTypes
    <2> QED
      BY <1>1, <1>3, <2>1, <2>2
  <1> QED
    BY <1>4, <1>5

LEMMA StartsInside ==
  ASSUME Arranged, NEW p, NEW r, Starts(p, r)
  PROVE  \/ Inside(p, r + 1) /\ p \in DOMAIN source /\ source[p].kind # "label"
         \/ Ended(p, r + 1)
         \/ Inside(p + 1, r + 1) /\ p \in DOMAIN source /\ source[p].kind = "label"
  <1>1. CASE p \in BlockStarts(source) /\ BlockWritten(statements, p, r)
    <2>1. p \in DOMAIN source /\ p \in 1 .. Len(source) /\ Len(source) \in Nat
      BY <1>1, ArrangedTypes DEF BlockStarts
    <2>2. r \in Nat
      BY StartsLabel, ArrangedTypes
    <2>3. Leaves(p) \in p + 1 - Skip(p) .. Len(source) + 1
      BY <1>1, BodyIsPlain, ArrangedTypes
    <2>4. CASE source[p].kind = "label"
      <3>1. Skip(p) = 0
        BY <2>4 DEF Skip
      <3>2. p + 1 \in p + 1 - Skip(p) .. Leaves(p) /\ r + 1 = Here(p, r, p + 1)
        BY <2>1, <2>2, <2>3, <3>1 DEF Here
      <3> QED
        BY <1>1, <2>1, <2>2, <2>4, <3>2 DEF Inside
    <2>5. CASE source[p].kind # "label"
      <3>1. Skip(p) = 1
        BY <2>5 DEF Skip
      <3>2. p \in p + 1 - Skip(p) .. Leaves(p) /\ r + 1 = Here(p, r, p)
        BY <2>1, <2>2, <2>3, <3>1 DEF Here
      <3> QED
        BY <1>1, <2>1, <2>2, <2>5, <3>2 DEF Inside
    <2> QED
      BY <2>4, <2>5
  <1>2. CASE HasFinishLabel(source) /\ p = Len(source) + 1 /\ r = Len(statements)
    BY <1>2 DEF Ended
  <1> QED
    BY <1>1, <1>2 DEF Starts

(* What there is in the result for a statement inside a block. *)
PlainAt(p, r) ==
  /\ p \in DOMAIN source /\ source[p].kind = "other" /\ statements[r] = source[p]
  /\ Inside(p + 1, r + 1)

JumpAt(p, r) ==
  /\ statements[r].kind \in {"jump", "label"}
  /\ \E q : /\ Marks(q, statements[r].label)
            /\ \/ p \in DOMAIN source /\ source[p].kind = "jump" /\ Step(source, p) = q
               \/ p = q /\ p \in DOMAIN source /\ source[p].kind = "label"
               \/ p = q /\ p = Len(source) + 1 /\ HasFinishLabel(source)

CondAt(p, r) ==
  /\ p \in DOMAIN source /\ source[p].kind = "cond"
  /\ CondWritten(statements, source[p], r)

LEMMA LeavesAt ==
  ASSUME Arranged, NEW b \in BlockStarts(source), NEW r, NEW p, p = Leaves(b),
         ExitWritten(statements, Exit(source, b), r)
  PROVE  JumpAt(p, r) \/ CondAt(p, r)
  <1>1. /\ source \in Sources /\ source \in Seq(StatementType) /\ Len(source) \in Nat
        /\ DOMAIN source = 1 .. Len(source)
    BY ArrangedTypes DEF Arranged
  <1>2. /\ b \in 1 .. Len(source) /\ EndOf(source, b) \in b + 1 .. Len(source) + 1
        /\ EndOf(source, b) \in BlockStarts(source) \cup {Len(source) + 1}
        /\ ExitAt(source, b) = EndOf(source, b) - 1
        /\ ExitAt(source, b) \in DOMAIN source
    BY <1>1, BlockBounds, ExitKind DEF ExitAt
  <1>3. CASE IsJump(source[ExitAt(source, b)])
    <2>1. p = ExitAt(source, b) /\ Exit(source, b) = source[p] /\ p \in DOMAIN source
      BY <1>1, <1>2, <1>3, ExitKind DEF Leaves
    <2>2. CASE source[p].kind = "jump"
      <3>1. JumpWritten(statements, source[p], r)
        BY <2>1, <2>2 DEF ExitWritten, CondWritten
      <3>2. statements[r].kind \in {"jump", "label"} /\ statements[r].label = source[p].label
        BY <2>2, <3>1 DEF JumpWritten
      <3>3. source[p].label \in Targets(source)
        BY <2>1, <2>2 DEF Targets
      <3>4. Marks(Position(source, source[p].label), source[p].label)
        BY <1>1, <3>3, TargetMarked
      <3>5. Step(source, p) = Position(source, source[p].label)
        BY <2>2 DEF Step
      <3> QED
        BY <2>1, <2>2, <3>2, <3>4, <3>5 DEF JumpAt
    <2>3. CASE source[p].kind = "cond"
      BY <2>1, <2>3 DEF ExitWritten, JumpWritten, CondAt
    <2> QED
      BY <1>3, <2>1, <2>2, <2>3 DEF IsJump
  <1>4. CASE ~ IsJump(source[ExitAt(source, b)])
    <2>1. p = EndOf(source, b) /\ Exit(source, b) = JumpTo(StartLabel(source, p))
      BY <1>1, <1>4, ExitKind DEF Leaves
    <2> PICK l : l = StartLabel(source, p)
      OBVIOUS
    <2>2. Exit(source, b).kind = "jump" /\ Exit(source, b).label = l
      BY <2>1 DEF JumpTo, Statement
    <2>3. statements[r].kind \in {"jump", "label"} /\ statements[r].label = l
      BY <2>2 DEF ExitWritten, JumpWritten, CondWritten
    <2>4. CASE p \in BlockStarts(source)
      <3>1. Marks(p, l)
        BY <2>4 DEF Marks
      <3>2. p \in DOMAIN source /\ p # 1 /\ ~ IsJump(source[p - 1])
        BY <1>1, <1>2, <1>4, <2>1, <2>4 DEF BlockStarts
      <3>3. source[p].kind = "label"
        BY <2>4, <3>2 DEF BlockStarts
      <3> QED
        BY <2>3, <3>1, <3>2, <3>3 DEF JumpAt
    <2>5. CASE p = Len(source) + 1
      <3>1. HasFinishLabel(source)
        BY <1>1, <1>2, <1>4, <2>1, <2>5 DEF HasFinishLabel, Arranged
      <3>2. FinishLabel(source) = l
        BY <1>1, <2>5, StartLabels
      <3> QED
        BY <2>3, <2>5, <3>1, <3>2 DEF JumpAt, Marks
    <2> QED
      BY <1>2, <2>1, <2>4, <2>5
  <1> QED
    BY <1>3, <1>4

LEMMA InsideCases ==
  ASSUME Arranged, NEW p, NEW r, Inside(p, r)
  PROVE  /\ r \in DOMAIN statements /\ p \in 1 .. Len(source) + 1
         /\ PlainAt(p, r) \/ JumpAt(p, r) \/ CondAt(p, r)
  <1>1. PICK b \in BlockStarts(source), k \in Nat :
          /\ BlockWritten(statements, b, k)
          /\ p \in b + 1 - Skip(b) .. Leaves(b)
          /\ r = Here(b, k, p)
    BY DEF Inside
  <1>2. /\ source \in Seq(StatementType) /\ Len(source) \in Nat /\ Len(statements) \in Nat
        /\ DOMAIN statements = 1 .. Len(statements)
    BY ArrangedTypes
  <1>3. /\ b \in 1 .. Len(source) /\ Skip(b) \in {0, 1}
        /\ Leaves(b) \in b + 1 - Skip(b) .. Len(source) + 1
        /\ \A x \in b + 1 - Skip(b) .. Leaves(b) - 1 : x \in DOMAIN source /\ source[x].kind = "other"
    BY <1>2, BlockBounds, BodyIsPlain
  <1>4. b \in Int /\ Skip(b) \in Int /\ Leaves(b) \in Int /\ p \in Int
    BY <1>1, <1>3
  <1>5. p \in 1 .. Len(source) + 1
    BY <1>1, <1>2, <1>3, <1>4
  <1>6. CASE p = Leaves(b)
    <2>1. ExitWritten(statements, Exit(source, b), r)
      BY <1>1, <1>6 DEF BlockWritten
    <2>2. r \in DOMAIN statements
      BY <2>1 DEF ExitWritten
    <2> QED
      BY <1>5, <1>6, <2>1, <2>2, LeavesAt
  <1>7. CASE p # Leaves(b)
    <2>1. p \in b + 1 - Skip(b) .. Leaves(b) - 1 /\ p + 1 \in b + 1 - Skip(b) .. Leaves(b)
      BY <1>1, <1>4, <1>7
    <2>2. r \in DOMAIN statements /\ statements[r] = source[p]
      BY <1>1, <2>1 DEF BlockWritten, BlockAt
    <2>3. r + 1 = Here(b, k, p + 1)
      BY <1>1, <1>4 DEF Here
    <2>4. Inside(p + 1, r + 1)
      BY <1>1, <2>1, <2>3 DEF Inside
    <2> QED
      BY <1>3, <1>5, <2>1, <2>2, <2>4 DEF PlainAt
  <1> QED
    BY <1>6, <1>7

(* Both runs come to rest, and at the same place. *)
Meet(p, r) ==
  /\ Corresponds(Settled(source, p), Settled(statements, r))
  /\ Resting(source, Settled(source, p))
  /\ Resting(statements, Settled(statements, r))

LEMMA SourceRests ==
  ASSUME Arranged, NEW p, Resting(source, p), NEW r, Corresponds(p, r)
  PROVE  Meet(p, r)
  <1>0. /\ Len(source) \in Nat /\ Len(statements) \in Nat
        /\ DOMAIN source = 1 .. Len(source) /\ DOMAIN statements = 1 .. Len(statements)
    BY ArrangedTypes
  <1>1. Settled(source, p) = p
    BY <1>0, SettledRests
  <1>2. p \in DOMAIN source => source[p].kind \in {"other", "cond"}
    BY DEF Resting, IsOperation
  <1>3. ASSUME NEW x, Ended(p, x)
        PROVE  Meet(p, x)
    <2>1. Resting(statements, x)
      BY <1>0, <1>3 DEF Ended, Resting
    <2>2. Settled(statements, x) = x
      BY <1>0, <2>1, SettledRests
    <2> QED
      BY <1>1, <1>3, <2>1, <2>2 DEF Meet, Corresponds
  <1>4. ASSUME NEW x, Inside(p, x)
        PROVE  Meet(p, x)
    <2>1. x \in DOMAIN statements /\ (PlainAt(p, x) \/ JumpAt(p, x) \/ CondAt(p, x))
      BY <1>4, InsideCases
    <2>2. CASE PlainAt(p, x) \/ CondAt(p, x)
      <3>1. Resting(statements, x)
        BY <2>1, <2>2 DEF PlainAt, CondAt, CondWritten, Resting, IsOperation
      <3>2. Settled(statements, x) = x
        BY <1>0, <3>1, SettledRests
      <3> QED
        BY <1>1, <1>4, <3>1, <3>2 DEF Meet, Corresponds
    <2>3. CASE JumpAt(p, x)
      <3>1. p = Len(source) + 1 /\ Marks(p, statements[x].label)
            /\ statements[x].kind \in {"jump", "label"}
        BY <1>2, <2>3 DEF JumpAt
      <3>2. PICK k : Starts(p, k) /\ Settled(statements, x) = Settled(statements, k)
        BY <2>1, <3>1, LeadsToBlock
      <3>3. p \notin DOMAIN source
        BY <1>0, <3>1
      <3>4. Ended(p, k + 1) /\ Settled(statements, k) = Settled(statements, k + 1)
        BY <3>2, <3>3, StartsInside, StartsLabel
      <3>5. Meet(p, k + 1)
        BY <1>3, <3>4
      <3> QED
        BY <3>2, <3>4, <3>5 DEF Meet
    <2> QED
      BY <2>1, <2>2, <2>3
  <1>5. CASE Starts(p, r)
    <2>1. Inside(p, r + 1) \/ Ended(p, r + 1)
      BY <1>2, <1>5, StartsInside
    <2>2. Settled(statements, r) = Settled(statements, r + 1)
      BY <1>5, StartsLabel
    <2>3. Meet(p, r + 1)
      BY <1>3, <1>4, <2>1
    <2> QED
      BY <2>2, <2>3 DEF Meet
  <1> QED
    BY <1>3, <1>4, <1>5 DEF Corresponds

LEMMA StepInside ==
  ASSUME Arranged, NEW p \in 1 .. Len(source) + 1, ~ Resting(source, p)
  PROVE  /\ p \in DOMAIN source /\ source[p].kind \in {"label", "jump"}
         /\ Step(source, p) \in 1 .. Len(source) + 1
         /\ source[p].kind = "label" => Step(source, p) = p + 1
         /\ Settled(source, p) = Settled(source, Step(source, p))
  <1>1. /\ Len(source) \in Nat /\ DOMAIN source = 1 .. Len(source)
        /\ source \in Seq(StatementType) /\ source \in Sources
    BY ArrangedTypes DEF Arranged
  <1>2. p \in DOMAIN source /\ source[p].kind \in {"label", "jump"}
    <2>1. p \in DOMAIN source /\ source[p] \in StatementType
      BY <1>1 DEF Resting
    <2>2. source[p].kind \in Kinds
      BY <2>1 DEF StatementType
    <2> QED
      BY <2>1, <2>2 DEF Resting, IsOperation, Kinds
  <1>3. CASE source[p].kind = "jump"
    <2>1. source[p].label \in Targets(source)
      BY <1>2, <1>3 DEF Targets
    <2>2. Step(source, p) \in DOMAIN source
      BY <1>1, <1>3, <2>1, TargetMarked DEF Step
    <2> QED
      BY <1>1, <1>2, <1>3, <2>2, SettledGoesOn
  <1>4. CASE source[p].kind = "label"
    BY <1>1, <1>2, <1>4, SettledGoesOn DEF Step
  <1> QED
    BY <1>2, <1>3, <1>4

LEMMA SourceGoesOn ==
  ASSUME Arranged, NEW p \in 1 .. Len(source) + 1, ~ Resting(source, p),
         NEW r, Corresponds(p, r)
  PROVE  \E x : /\ Corresponds(Step(source, p), x)
                /\ Settled(statements, r) = Settled(statements, x)
  <1>0. /\ Len(source) \in Nat /\ Len(statements) \in Nat
        /\ DOMAIN source = 1 .. Len(source) /\ DOMAIN statements = 1 .. Len(statements)
    BY ArrangedTypes
  <1>1. /\ p \in DOMAIN source /\ source[p].kind \in {"label", "jump"} /\ p # Len(source) + 1
        /\ source[p].kind = "label" => Step(source, p) = p + 1
    BY <1>0, StepInside
  <1>2. ASSUME NEW y, Starts(p, y), source[p].kind = "label"
        PROVE  \E x : /\ Corresponds(Step(source, p), x)
                      /\ Settled(statements, y) = Settled(statements, x)
    <2>1. Inside(p + 1, y + 1)
      BY <1>1, <1>2, StartsInside DEF Ended
    <2>2. Settled(statements, y) = Settled(statements, y + 1)
      BY <1>2, StartsLabel
    <2> QED
      BY <1>1, <1>2, <2>1, <2>2 DEF Corresponds
  <1>3. ASSUME NEW y, Inside(p, y)
        PROVE  \E x : /\ Corresponds(Step(source, p), x)
                      /\ Settled(statements, y) = Settled(statements, x)
    <2>1. y \in DOMAIN statements /\ JumpAt(p, y)
      BY <1>1, <1>3, InsideCases DEF PlainAt, CondAt
    <2>2. PICK q : /\ Marks(q, statements[y].label)
                   /\ \/ source[p].kind = "jump" /\ Step(source, p) = q
                      \/ p = q /\ source[p].kind = "label"
      BY <1>1, <2>1 DEF JumpAt
    <2>3. PICK k : Starts(q, k) /\ Settled(statements, y) = Settled(statements, k)
      BY <2>1, <2>2, LeadsToBlock DEF JumpAt
    <2>4. CASE Step(source, p) = q
      BY <2>3, <2>4 DEF Corresponds
    <2>5. CASE p = q /\ source[p].kind = "label"
      <3>1. PICK x : /\ Corresponds(Step(source, p), x)
                     /\ Settled(statements, k) = Settled(statements, x)
        BY <1>2, <2>3, <2>5
      <3> QED
        BY <2>3, <3>1
    <2> QED
      BY <2>2, <2>4, <2>5
  <1>4. CASE Starts(p, r)
    <2>1. CASE source[p].kind = "label"
      BY <1>2, <1>4, <2>1
    <2>2. CASE source[p].kind # "label"
      <3>1. Inside(p, r + 1)
        BY <1>1, <1>4, <2>2, StartsInside DEF Ended
      <3>2. Settled(statements, r) = Settled(statements, r + 1)
        BY <1>4, StartsLabel
      <3>3. PICK x : /\ Corresponds(Step(source, p), x)
                     /\ Settled(statements, r + 1) = Settled(statements, x)
        BY <1>3, <3>1
      <3> QED
        BY <3>2, <3>3
    <2> QED
      BY <2>1, <2>2
  <1>5. ~ Ended(p, r)
    BY <1>1 DEF Ended
  <1> QED
    BY <1>3, <1>4, <1>5 DEF Corresponds

(* If the source comes to an operation the result comes to the same. *)
LEMMA SourceSettles ==
  ASSUME Arranged, NEW p \in 1 .. Len(source) + 1, Settled(source, p) # 0,
         NEW r, Corresponds(p, r)
  PROVE  Meet(p, r)
  <1> DEFINE D == 1 .. Len(source) + 1
             T == {q \in D : \A x : Corresponds(q, x) => Meet(q, x)}
  <1>1. ASSUME NEW q \in D, Resting(source, q)
        PROVE  q \in T
    BY <1>1, SourceRests
  <1>2. ASSUME NEW q \in D, ~ Resting(source, q)
        PROVE  Step(source, q) \in D /\ (Step(source, q) \in T => q \in T)
    <2>1. Step(source, q) \in D /\ Settled(source, q) = Settled(source, Step(source, q))
      BY <1>2, StepInside
    <2>2. ASSUME Step(source, q) \in T, NEW x, Corresponds(q, x)
          PROVE  Meet(q, x)
      <3>1. PICK y : /\ Corresponds(Step(source, q), y)
                     /\ Settled(statements, x) = Settled(statements, y)
        BY <1>2, <2>2, SourceGoesOn
      <3>2. Meet(Step(source, q), y)
        BY <2>2, <3>1
      <3> QED
        BY <2>1, <3>1, <3>2 DEF Meet
    <2> QED
      BY <2>1, <2>2
  <1>3. \A q \in D : IF Resting(source, q) THEN q \in T
                     ELSE Step(source, q) \in D /\ (Step(source, q) \in T => q \in T)
    BY <1>1, <1>2
  <1>4. p \in T
    <2>1. p \in D /\ Len(source) \in Nat
      BY ArrangedTypes
    <2> HIDE DEF D, T
    <2> QED
      BY <1>3, <2>1, SettledBack
  <1> QED
    BY <1>4

LEMMA MarksInside ==
  ASSUME Arranged, NEW q, NEW l, Marks(q, l)
  PROVE  q \in 1 .. Len(source) + 1
  BY ArrangedTypes DEF Marks, BlockStarts

LEMMA ResultRests ==
  ASSUME Arranged, NEW p \in 1 .. Len(source) + 1, NEW r, Resting(statements, r),
         Corresponds(p, r)
  PROVE  Settled(source, p) # 0
  <1>1. ~ Starts(p, r)
    BY StartsLabel
  <1>2. Inside(p, r) => PlainAt(p, r) \/ CondAt(p, r)
    BY InsideCases DEF JumpAt, Resting, IsOperation
  <1>3. Resting(source, p)
    <2>1. Ended(p, r) => p \notin DOMAIN source
      BY ArrangedTypes DEF Ended
    <2> QED
      BY <1>1, <1>2, <2>1 DEF Corresponds, PlainAt, CondAt, Resting, IsOperation
  <1>4. Settled(source, p) = p
    BY <1>3, SettledRests, ArrangedTypes
  <1> QED
    BY <1>4, ArrangedTypes

LEMMA ResultGoesOn ==
  ASSUME Arranged, NEW p \in 1 .. Len(source) + 1, NEW r, ~ Resting(statements, r),
         Corresponds(p, r)
  PROVE  /\ Step(statements, r) \in 1 .. Len(statements) + 1
         /\ \E q \in 1 .. Len(source) + 1 :
              /\ Corresponds(q, Step(statements, r))
              /\ Settled(source, p) = Settled(source, q)
  <1>0. /\ Len(source) \in Nat /\ Len(statements) \in Nat
        /\ DOMAIN source = 1 .. Len(source) /\ DOMAIN statements = 1 .. Len(statements)
    BY ArrangedTypes
  <1>1. ASSUME NEW o \in 1 .. Len(source) + 1, Starts(o, r)
        PROVE  /\ Step(statements, r) \in 1 .. Len(statements) + 1
               /\ \E q \in 1 .. Len(source) + 1 :
                    /\ Corresponds(q, Step(statements, r))
                    /\ Settled(source, o) = Settled(source, q)
    <2>1. Step(statements, r) = r + 1 /\ r \in 1 .. Len(statements)
      BY <1>1, StartsLabel
    <2>2. Step(statements, r) \in 1 .. Len(statements) + 1
      BY <1>0, <2>1
    <2>3. CASE Inside(o, r + 1) \/ Ended(o, r + 1)
      BY <2>1, <2>2, <2>3 DEF Corresponds
    <2>4. CASE Inside(o + 1, r + 1) /\ o \in DOMAIN source /\ source[o].kind = "label"
      <3>1. ~ Resting(source, o)
        BY <2>4 DEF Resting, IsOperation
      <3>2. Step(source, o) = o + 1 /\ o + 1 \in 1 .. Len(source) + 1
            /\ Settled(source, o) = Settled(source, o + 1)
        BY <2>4, <3>1, StepInside
      <3> QED
        BY <2>1, <2>2, <2>4, <3>2 DEF Corresponds
    <2> QED
      BY <1>1, <2>3, <2>4, StartsInside
  <1>2. CASE Starts(p, r)
    BY <1>1, <1>2
  <1>3. CASE Inside(p, r)
    <2>1. r \in DOMAIN statements /\ JumpAt(p, r)
      <3>1. ~ PlainAt(p, r) /\ ~ CondAt(p, r)
        BY <1>3, InsideCases DEF PlainAt, CondAt, CondWritten, Resting, IsOperation
      <3> QED
        BY <1>3, <3>1, InsideCases
    <2>2. PICK q : /\ Marks(q, statements[r].label)
                   /\ \/ p \in DOMAIN source /\ source[p].kind = "jump" /\ Step(source, p) = q
                      \/ p = q
      BY <2>1 DEF JumpAt
    <2>3. q \in 1 .. Len(source) + 1
      BY <2>2, MarksInside
    <2>4. Settled(source, p) = Settled(source, q)
      <3>1. CASE p \in DOMAIN source /\ source[p].kind = "jump" /\ Step(source, p) = q
        <4>1. ~ Resting(source, p)
          BY <3>1 DEF Resting, IsOperation
        <4> QED
          BY <3>1, <4>1, StepInside
      <3> QED
        BY <2>2, <3>1
    <2>5. PICK k : Starts(q, k) /\ (r = k \/ Step(statements, r) = k)
      BY <2>1, <2>2, LeadsToBlock DEF JumpAt
    <2>6. CASE r = k
      BY <1>1, <2>3, <2>4, <2>5, <2>6
    <2>7. CASE Step(statements, r) = k
      <3>1. k \in 1 .. Len(statements) + 1
        BY <1>0, <2>5, StartsLabel
      <3> QED
        BY <2>3, <2>4, <2>5, <2>7, <3>1 DEF Corresponds
    <2> QED
      BY <2>5, <2>6, <2>7
  <1>4. ~ Ended(p, r)
    BY <1>0 DEF Ended, Resting
  <1> QED
    BY <1>2, <1>3, <1>4 DEF Corresponds

(* If the result comes to an operation so does the source. *)
LEMMA ResultSettles ==
  ASSUME Arranged, NEW p \in 1 .. Len(source) + 1, NEW r, Corresponds(p, r),
         Settled(statements, r) # 0
  PROVE  Settled(source, p) # 0
  <1> DEFINE D == {x \in 1 .. Len(statements) + 1 :
                     \E q \in 1 .. Len(source) + 1 : Corresponds(q, x)}
             T == {x \in D : \A q \in 1 .. Len(source) + 1 :
                               Corresponds(q, x) => Settled(source, q) # 0}
  <1>1. ASSUME NEW x \in D, Resting(statements, x)
        PROVE  x \in T
    BY <1>1, ResultRests
  <1>2. ASSUME NEW x \in D, ~ Resting(statements, x)
        PROVE  Step(statements, x) \in D /\ (Step(statements, x) \in T => x \in T)
    <2>1. ASSUME NEW q \in 1 .. Len(source) + 1, Corresponds(q, x)
          PROVE  /\ Step(statements, x) \in 1 .. Len(statements) + 1
                 /\ \E o \in 1 .. Len(source) + 1 :
                      /\ Corresponds(o, Step(statements, x))
                      /\ Settled(source, q) = Settled(source, o)
      BY <1>2, <2>1, ResultGoesOn
    <2>2. Step(statements, x) \in D
      BY <2>1
    <2>3. ASSUME Step(statements, x) \in T, NEW q \in 1 .. Len(source) + 1, Corresponds(q, x)
          PROVE  Settled(source, q) # 0
      BY <2>1, <2>3
    <2> QED
      BY <2>2, <2>3
  <1>3. \A x \in D : IF Resting(statements, x) THEN x \in T
                     ELSE Step(statements, x) \in D /\ (Step(statements, x) \in T => x \in T)
    BY <1>1, <1>2
  <1>4. r \in D
    <2>1. Len(statements) \in Nat /\ DOMAIN statements = 1 .. Len(statements)
      BY ArrangedTypes
    <2>2. r \in 1 .. Len(statements) + 1
      BY <2>1, StartsLabel, InsideCases DEF Corresponds, Ended
    <2> QED
      BY <2>2
  <1>5. r \in T
    <2>1. Len(statements) \in Nat
      BY ArrangedTypes
    <2> HIDE DEF D, T
    <2> QED
      BY <1>3, <1>4, <2>1, SettledBack
  <1> QED
    BY <1>5

(* Where both runs rest they have the same before them. *)
LEMMA RestAlike ==
  ASSUME Arranged, NEW p, NEW r, Corresponds(p, r), Resting(source, p), Resting(statements, r)
  PROVE  \/ /\ IsOperation(source, p) /\ IsOperation(statements, r)
            /\ PlainAt(p, r) \/ CondAt(p, r)
            /\ source[p].operation = statements[r].operation
         \/ /\ p \notin DOMAIN source /\ r \notin DOMAIN statements /\ r # 0 /\ p # 0
  <1>0. /\ Len(source) \in Nat /\ Len(statements) \in Nat
        /\ DOMAIN source = 1 .. Len(source) /\ DOMAIN statements = 1 .. Len(statements)
    BY ArrangedTypes
  <1>1. ~ Starts(p, r)
    BY StartsLabel
  <1>2. CASE Inside(p, r)
    <2>1. r \in DOMAIN statements /\ (PlainAt(p, r) \/ CondAt(p, r))
      BY <1>2, InsideCases DEF JumpAt, Resting, IsOperation
    <2> QED
      BY <2>1 DEF PlainAt, CondAt, CondWritten, IsOperation
  <1>3. CASE Ended(p, r)
    BY <1>0, <1>3 DEF Ended
  <1> QED
    BY <1>1, <1>2, <1>3 DEF Corresponds

LEMMA RunAlike ==
  ASSUME Arranged, NEW p \in 1 .. Len(source) + 1, NEW r, Corresponds(p, r)
  PROVE  Runs(source, p) = Runs(statements, r)
  <1>0. 0 \notin DOMAIN source /\ 0 \notin DOMAIN statements
    BY ArrangedTypes
  <1>1. CASE Settled(source, p) = 0
    <2>1. Settled(statements, r) = 0
      BY <1>1, ResultSettles
    <2> QED
      BY <1>1, <2>1 DEF Runs
  <1>2. CASE Settled(source, p) # 0
    <2>1. Meet(p, r)
      BY <1>2, SourceSettles
    <2> PICK q, x : q = Settled(source, p) /\ x = Settled(statements, r)
      OBVIOUS
    <2>2. \/ /\ IsOperation(source, q) /\ IsOperation(statements, x)
             /\ source[q].operation = statements[x].operation
          \/ q \notin DOMAIN source /\ x \notin DOMAIN statements /\ x # 0
      BY <2>1, RestAlike DEF Meet
    <2> QED
      BY <1>0, <1>2, <2>2 DEF Runs, IsOperation
  <1> QED
    BY <1>1, <1>2
------------------------------------------------------------------------------
(* Both runs at once. *)

Alike(p, r) ==
  /\ p \in 1 .. Len(source) + 1
  /\ \E x : Corresponds(p, x) /\ Settled(statements, r) = Settled(statements, x)

LEMMA BeginsAlike == Arranged => Alike(1, 1)
  <1> SUFFICES ASSUME Arranged PROVE Alike(1, 1)
    OBVIOUS
  <1>1. 1 \in DOMAIN source /\ 1 \in 1 .. Len(source) + 1
    BY ArrangedTypes DEF Arranged
  <1>2. 1 \in BlockStarts(source)
    BY <1>1 DEF BlockStarts
  <1>3. BlockWritten(statements, 1, 1)
    BY <1>2 DEF Arranged, Complete
  <1> QED
    BY <1>1, <1>2, <1>3 DEF Alike, Corresponds, Starts

LEMMA LabelAlike ==
  ASSUME Arranged, NEW r \in DOMAIN statements, statements[r].kind \in {"jump", "label"},
         NEW p, Marks(p, statements[r].label)
  PROVE  Alike(p, r)
  <1>1. PICK k : Starts(p, k) /\ Settled(statements, r) = Settled(statements, k)
    BY LeadsToBlock
  <1> QED
    BY <1>1, MarksInside DEF Alike, Corresponds

LEMMA PositionAlike ==
  ASSUME Arranged, NEW p, NEW l, Marks(p, l)
  PROVE  Alike(p, Position(statements, l))
  <1>1. PICK k : Starts(p, k) /\ statements[k].label = l
    BY BlocksStart
  <1>2. k \in DOMAIN statements /\ statements[k].kind = "label"
    BY <1>1, StartsLabel
  <1>3. Position(statements, l) = k
    BY <1>1, <1>2, PositionIs, ArrangedTypes
  <1> QED
    BY <1>1, <1>3, MarksInside DEF Alike, Corresponds

(* The result falls through to the destination the source goes to, or over a detour. *)
LEMMA FallsThrough ==
  ASSUME Arranged, NEW q \in DOMAIN statements, q + 1 \in DOMAIN statements,
         NEW l, statements[q + 1] = Placement(l), NEW p, NEW f, Marks(p, f),
         \/ l = f
         \/ q + 2 \in DOMAIN statements /\ statements[q + 2] = JumpTo(f)
  PROVE  Alike(p, q + 1)
  <1>1. statements[q + 1].kind = "label" /\ statements[q + 1].label = l
    BY DEF Placement, Statement
  <1>2. CASE l = f
    BY <1>1, <1>2, LabelAlike
  <1>3. CASE q + 2 \in DOMAIN statements /\ statements[q + 2] = JumpTo(f)
    <2>1. statements[q + 2].kind = "jump" /\ statements[q + 2].label = f
      BY <1>3 DEF JumpTo, Statement
    <2>2. Alike(p, q + 2)
      BY <1>3, <2>1, LabelAlike
    <2>3. Len(statements) \in Nat /\ DOMAIN statements = 1 .. Len(statements)
          /\ (q + 1) + 1 = q + 2
      BY ArrangedTypes
    <2>4. ~ Resting(statements, q + 1) /\ Step(statements, q + 1) = q + 2
      BY <1>1, <2>3 DEF Resting, IsOperation, Step
    <2>5. Settled(statements, q + 1) = Settled(statements, q + 2)
      BY <2>3, <2>4, SettledGoesOn
    <2> QED
      BY <2>2, <2>5 DEF Alike
  <1> QED
    BY <1>2, <1>3

LEMMA CondAlike ==
  ASSUME Arranged, NEW p, NEW q \in DOMAIN statements, CondAt(p, q), NEW outcome \in BOOLEAN
  PROVE  Alike(SourceGoes(p, outcome), ResultGoes(q, outcome))
  <1> DEFINE T == source[p].label
             F == source[p].false_dest
  <1>1. /\ p \in DOMAIN source /\ source[p].kind = "cond" /\ source[p].holds \in BOOLEAN
        /\ CondWritten(statements, source[p], q)
        /\ source \in Sources
    <2>1. p \in DOMAIN source /\ source \in Seq(StatementType)
      BY ArrangedTypes DEF CondAt
    <2>2. source[p] \in StatementType
      BY <2>1
    <2> QED
      BY <2>1, <2>2 DEF CondAt, Arranged, StatementType
  <1>2. T \in Targets(source) /\ F \in Targets(source)
    BY <1>1 DEF Targets
  <1>3. Marks(Position(source, T), T) /\ Marks(Position(source, F), F)
    BY <1>1, <1>2, TargetMarked
  <1>4. /\ q + 1 \in DOMAIN statements /\ statements[q].kind = "cond"
        /\ statements[q + 1] = Placement(statements[q].false_dest)
        /\ CondKept(statements, source[p], q) \/ CondFlipped(statements, source[p], q)
    BY <1>1 DEF CondWritten
  <1>5. SourceGoes(p, outcome) = Position(source, IF outcome = source[p].holds THEN T ELSE F)
    BY <1>1 DEF SourceGoes
  <1>6. ResultGoes(q, outcome) = IF outcome = statements[q].holds
                                 THEN Position(statements, statements[q].label) ELSE q + 1
    BY <1>4 DEF ResultGoes
  <1>7. CASE CondKept(statements, source[p], q)
    <2>1. /\ statements[q].holds = source[p].holds /\ statements[q].label = T
          /\ \/ statements[q].false_dest = F
             \/ q + 2 \in DOMAIN statements /\ statements[q + 2] = JumpTo(F)
      BY <1>7 DEF CondKept
    <2>2. Alike(Position(source, T), Position(statements, T))
      BY <1>3, PositionAlike
    <2>3. Alike(Position(source, F), q + 1)
      BY <1>3, <1>4, <2>1, FallsThrough
    <2> QED
      BY <1>5, <1>6, <2>1, <2>2, <2>3
  <1>8. CASE CondFlipped(statements, source[p], q)
    <2>1. /\ statements[q].holds = ~ source[p].holds /\ statements[q].label = F
          /\ statements[q].false_dest = T
      BY <1>8 DEF CondFlipped
    <2>2. Alike(Position(source, F), Position(statements, F))
      BY <1>3, PositionAlike
    <2>3. Alike(Position(source, T), q + 1)
      BY <1>3, <1>4, <2>1, FallsThrough
    <2>4. outcome = statements[q].holds <=> outcome # source[p].holds
      BY <1>1, <2>1
    <2> QED
      BY <1>5, <1>6, <2>1, <2>2, <2>3, <2>4
  <1> QED
    BY <1>4, <1>7, <1>8

LEMMA ExecuteAlike ==
  ASSUME Arranged, Alike(at, run_at), Execute
  PROVE  Alike(at', run_at')
  <1> PICK p, q : p = Settled(source, at) /\ q = Settled(statements, run_at)
    OBVIOUS
  <1>1. /\ IsOperation(source, p) /\ IsOperation(statements, q)
        /\ \E outcome \in BOOLEAN :
             at' = SourceGoes(p, outcome) /\ run_at' = ResultGoes(q, outcome)
    BY DEF Execute
  <1>2. PICK outcome \in BOOLEAN :
          at' = SourceGoes(p, outcome) /\ run_at' = ResultGoes(q, outcome)
    BY <1>1
  <1>3. at \in 1 .. Len(source) + 1
        /\ \E r : Corresponds(at, r) /\ q = Settled(statements, r)
    BY DEF Alike
  <1>4. PICK r : Corresponds(at, r) /\ q = Settled(statements, r)
    BY <1>3
  <1>5. p # 0 /\ q \in DOMAIN statements
    BY <1>1, ArrangedTypes DEF IsOperation
  <1>6. Meet(at, r)
    BY <1>3, <1>4, <1>5, SourceSettles
  <1>7. Corresponds(p, q) /\ Resting(source, p) /\ Resting(statements, q)
    BY <1>4, <1>6 DEF Meet
  <1>8. PlainAt(p, q) \/ CondAt(p, q)
    BY <1>1, <1>7, RestAlike DEF IsOperation
  <1>9. CASE PlainAt(p, q)
    <2>1. Inside(p + 1, q + 1) /\ source[p].kind = "other" /\ statements[q] = source[p]
      BY <1>9 DEF PlainAt
    <2>2. at' = p + 1 /\ run_at' = q + 1
      BY <1>2, <2>1 DEF SourceGoes, ResultGoes
    <2>3. p + 1 \in 1 .. Len(source) + 1
      BY <2>1, InsideCases
    <2> QED
      BY <2>1, <2>2, <2>3 DEF Alike, Corresponds
  <1>10. CASE CondAt(p, q)
    BY <1>2, <1>5, <1>10, CondAlike
  <1> QED
    BY <1>8, <1>9, <1>10

RunInv ==
  /\ CodeInv
  /\ pc # "run" => at = 1 /\ run_at = 1
  /\ pc = "run" /\ source = <<>> => at = 1 /\ run_at = 1
  /\ pc = "run" /\ source # <<>> => Alike(at, run_at)

LEMMA SameSides ==
  ASSUME source' = source, statements' = statements
  PROVE  Alike(at, run_at)' <=> Alike(at', run_at')
  BY DEF Alike, Corresponds, Starts, Inside, Ended, BlockAt, BlockWritten, Here, Leaves, Skip

LEMMA RunArranged ==
  ASSUME RunInv, pc = "run"
  PROVE  /\ source # <<>> => Arranged
         /\ source = <<>> => statements = <<>>
  BY DEF RunInv, CodeInv, TraceInv, Arranged, Complete

LEMMA RunNext == RunInv /\ [Next]_vars => RunInv'
  <1> SUFFICES ASSUME RunInv, [Next]_vars PROVE RunInv'
    OBVIOUS
  <1>0. CodeInv'
    BY CodeNext DEF RunInv
  <1>1. CASE Split \/ PickBlock \/ Follow \/ EndTrace \/ StartWriting \/ WriteBlock
    <2>1. pc # "run" /\ pc' # "run" /\ at' = at /\ run_at' = run_at
      BY <1>1 DEF Split, PickBlock, Follow, Place, EndTrace, StartWriting, WriteBlock
    <2> QED
      BY <1>0, <2>1 DEF RunInv
  <1>2. CASE Finish
    <2>1. pc = "write" /\ pc' = "run" /\ at' = at /\ run_at' = run_at
      BY <1>2 DEF Finish
    <2>2. at = 1 /\ run_at = 1
      BY <2>1 DEF RunInv
    <2>3. (source # <<>>)' => Arranged'
      BY <1>0, <2>1 DEF CodeInv, TraceInv, Arranged
    <2>4. (Arranged => Alike(1, 1))'
      BY BeginsAlike, PTL
    <2>5. Alike(1, 1)' => Alike(at, run_at)'
      BY <2>1, <2>2
    <2> QED
      BY <1>0, <2>1, <2>2, <2>3, <2>4, <2>5 DEF RunInv
  <1>3. CASE Execute
    <2>1. pc = "run" /\ pc' = "run" /\ source' = source /\ statements' = statements
      BY <1>3 DEF Execute
    <2>2. source # <<>>
      <3> SUFFICES ASSUME source = <<>> PROVE FALSE
        OBVIOUS
      <3>1. IsOperation(source, Settled(source, at))
        BY <1>3 DEF Execute
      <3> QED
        BY <3>1 DEF IsOperation
    <2>3. Arranged /\ Alike(at, run_at)
      BY <2>1, <2>2, RunArranged DEF RunInv
    <2>4. Alike(at', run_at')
      BY <1>3, <2>3, ExecuteAlike
    <2> QED
      BY <1>0, <2>1, <2>2, <2>4, SameSides DEF RunInv
  <1>4. CASE Stopped \/ UNCHANGED vars
    <2>1. source' = source /\ statements' = statements /\ pc' = pc /\ at' = at
          /\ run_at' = run_at
      BY <1>4 DEF Stopped, vars
    <2> QED
      BY <1>0, <2>1, SameSides DEF RunInv
  <1> QED
    BY <1>1, <1>2, <1>3, <1>4 DEF Next

(****************************************************************************)
(* In every function the translator can make, whatever traces its blocks    *)
(* come in and however its comparisons turn out, the arranged statements do *)
(* what the statements did they were made from, to the end or for ever.     *)
(****************************************************************************)
THEOREM ArrangedRunsTheSame == Spec => []RunsTheSame
  <1>1. Init => RunInv
    BY DEF Init, RunInv, CodeInv, TraceInv, OrderInv, PlacedOnce
  <1>2. RunInv => RunsTheSame
    <2> SUFFICES ASSUME RunInv, pc = "run"
                 PROVE  Runs(source, at) = Runs(statements, run_at)
      BY DEF RunsTheSame
    <2>1. CASE source = <<>>
      BY <2>1, RunArranged DEF RunInv
    <2>2. CASE source # <<>>
      <3>1. Arranged /\ Alike(at, run_at)
        BY <2>2, RunArranged DEF RunInv
      <3>2. PICK r : Corresponds(at, r) /\ Settled(statements, run_at) = Settled(statements, r)
        BY <3>1 DEF Alike
      <3>3. Runs(source, at) = Runs(statements, r)
        BY <3>1, <3>2, RunAlike DEF Alike
      <3>4. Runs(statements, run_at) = Runs(statements, r)
        BY <3>2 DEF Runs
      <3> QED
        BY <3>3, <3>4
    <2> QED
      BY <2>1, <2>2
  <1> QED
    BY <1>1, <1>2, RunNext, PTL DEF Spec
==============================================================================
