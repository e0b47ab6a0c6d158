------------------------------- MODULE RegAlloc -------------------------------
(****************************************************************************)
(* PartialRegAllocator of src/regallocator.cpp: one attempt to colour the   *)
(* registers of a function with the machine registers, by iterated          *)
(* coalescing (George and Appel).  Every pass of the loop in tryColoring is *)
(* one action, and so is every pass of the loop in assignColors.            *)
(*                                                                          *)
(* Lists.  The lists of NodeMoveManager are kept as a status per element    *)
(* and a rank, the time the element was appended to the list of its status. *)
(* The front of a list is an element of least rank.  Elements appended by   *)
(* one traversal of an adjacency list share a rank: the order of adjacency  *)
(* lists is left open.                                                      *)
(*                                                                          *)
(* Groups.  group[n] is what getRemaingFromCoalescedGroup(n) returns, the   *)
(* end of the chain of coalesced_with.                                      *)
(*                                                                          *)
(* Assertions.  The program stops at an assert that fails; pc is then the   *)
(* name of the function and the line of that assert.                        *)
(****************************************************************************)
EXTENDS Integers, FiniteSets, Interference

CONSTANTS
  nodecount,   \* number of virtual registers in the code of the function
  inscount,    \* number of instructions
  colorcount,  \* number of machine registers
  Inputs       \* the liveness information of the functions considered

Nodes  == 0 .. nodecount - 1
Ins    == 0 .. inscount - 1
Colors == 0 .. colorcount - 1
NoColor == -1

(****************************************************************************)
(* The part of LivenessInfo the allocator reads, and the colour of the      *)
(* registers that are machine registers (precolor is called for those).     *)
(****************************************************************************)
LivenessType ==
  [move     : [Ins -> BOOLEAN],        \* node_is_reg_reg_move
   used     : [Ins -> SUBSET Nodes],   \* used_at_node
   assigned : [Ins -> SUBSET Nodes],   \* assigned_at_node
   live     : [Ins -> SUBSET Nodes],   \* live_after_node
   machine  : [Nodes -> Colors \cup {NoColor}]]

ASSUME CountsAssumption ==
  /\ nodecount \in Nat
  /\ inscount \in Nat
  /\ colorcount \in Nat \ {0}

ASSUME InputsAssumption ==
  \A l \in Inputs :
    /\ l \in LivenessType
    /\ \A i \in Ins : l.move[i] => /\ \E n \in Nodes : l.used[i] = {n}
                                   /\ \E n \in Nodes : l.assigned[i] = {n}
    /\ \A a, b \in Nodes :
         a # b /\ l.machine[a] # NoColor => l.machine[a] # l.machine[b]

NodeStatus == {"UNPROCESSED", "PRECOLORED", "REMOVABLE", "FREEZEABLE", "SPILLABLE",
               "SPILLED", "COALESCED", "COLORED", "SELECTED"}
MoveStatus == {"UNPROCESSED", "COALESCED", "CONSTRAINED", "FROZEN", "COALESCABLE", "ACTIVE"}

Asserts == {"decrementDegree632", "possiblyUnfreeze719", "combineNodes765",
            "freezeMoves830", "freezeMoves834", "checkColors971"}
Phases  == {"build", "reduce", "color", "done"}

VARIABLES
  liveness,        \* the input, one of Inputs
  pc,              \* the phase of tryColoring, or the assert that failed
  adjacent,        \* table, and list for the nodes that have one
  node_degrees,
  node_status,
  node_rank,       \* when the node joined the list of its status
  move_status,
  move_rank,
  clock,           \* next rank
  moves_per_node,  \* how often the list of a node holds a move
  group,           \* getRemaingFromCoalescedGroup
  colors,
  prespilled       \* history: the nodes prespillOne has chosen

graph_vars == <<adjacent, node_degrees>>
node_vars  == <<node_status, node_rank>>
move_vars  == <<move_status, move_rank, moves_per_node>>
vars == <<liveness, pc, graph_vars, node_vars, move_vars, clock, group, colors, prespilled>>

------------------------------------------------------------------------------
(* The input: interference, moves and counts. *)

InterferingWith(l, a) == {b \in Nodes : Interferes(l, a, b)}

(* getInvocationCount: uses plus assignments. *)
InvocationCount(l, n) == Cardinality({i \in Ins : n \in l.used[i]})
                       + Cardinality({i \in Ins : n \in l.assigned[i]})

Precolored(n) == liveness.machine[n] # NoColor

------------------------------------------------------------------------------
(* Reading the lists. *)

NodesWith(s) == {n \in Nodes : node_status[n] = s}
MovesWith(s) == {m \in Ins : move_status[m] = s}

Front(S, rank) == {x \in S : \A y \in S : rank[x] <= rank[y]}
Back(S, rank)  == {x \in S : \A y \in S : rank[x] >= rank[y]}

RemainingAdjacent_WithSelected(n) == {x \in adjacent[n] : node_status[x] # "COALESCED"}

RemainingAdjacent(n) ==
  {x \in adjacent[n] : node_status[x] \notin {"SELECTED", "COALESCED"}}

(* getRemainingMoves, for given statuses of the moves. *)
RemainingMoves(n, mstatus, mpn) ==
  {m \in Ins : mpn[n][m] > 0 /\ mstatus[m] \in {"COALESCABLE", "ACTIVE"}}

HasRemainingMoves(n, mstatus, mpn) == RemainingMoves(n, mstatus, mpn) # {}

(* Rank t for every member of S. *)
Stamp(rank, S, t) == [x \in DOMAIN rank |-> IF x \in S THEN t ELSE rank[x]]
Become(status, S, s) == [x \in DOMAIN status |-> IF x \in S THEN s ELSE status[x]]

Abort(where) ==
  /\ pc' = where
  /\ UNCHANGED <<liveness, graph_vars, node_vars, move_vars, clock, group, colors, prespilled>>

------------------------------------------------------------------------------
Init ==
  /\ liveness \in Inputs
  /\ pc = "build"
  /\ adjacent = [n \in Nodes |-> {}]
  /\ node_degrees = [n \in Nodes |-> 0]
  /\ node_status = [n \in Nodes |-> IF Precolored(n) THEN "PRECOLORED" ELSE "UNPROCESSED"]
  /\ node_rank = [n \in Nodes |-> n]
  /\ move_status = [m \in Ins |-> "UNPROCESSED"]
  /\ move_rank = [m \in Ins |-> m]
  /\ clock = nodecount + inscount
  /\ moves_per_node = [n \in Nodes |-> [m \in Ins |-> 0]]
  /\ group = [n \in Nodes |-> n]
  /\ colors = liveness.machine
  /\ prespilled = {}

(****************************************************************************)
(* buildGraph, then classifyNodes.  Nodes and moves join their lists in the *)
(* order of their numbers.  Machine registers have no adjacency list, hence *)
(* no degree.                                                               *)
(****************************************************************************)
InMove(n) == \E m \in Ins : IsMove(liveness, m) /\ n \in {Src(liveness, m), Dst(liveness, m)}

Classify_OffByOne(n, degree) ==
  IF Precolored(n) THEN "PRECOLORED"
  ELSE IF degree > colorcount THEN "SPILLABLE"
  ELSE IF InMove(n) THEN "FREEZEABLE"
  ELSE "REMOVABLE"

Classify(n, degree) ==
  IF Precolored(n) THEN "PRECOLORED"
  ELSE IF degree >= colorcount THEN "SPILLABLE"
  ELSE IF InMove(n) THEN "FREEZEABLE"
  ELSE "REMOVABLE"

Build ==
  /\ pc = "build"
  /\ pc' = "reduce"
  /\ adjacent' = [n \in Nodes |-> InterferingWith(liveness, n)]
  /\ node_degrees' =
       [n \in Nodes |-> IF Precolored(n) THEN 0 ELSE Cardinality(InterferingWith(liveness, n))]
  /\ node_status' = [n \in Nodes |-> Classify(n, node_degrees'[n])]
  /\ move_status' =
       [m \in Ins |-> IF IsMove(liveness, m) THEN "COALESCABLE" ELSE "UNPROCESSED"]
  /\ moves_per_node' =
       [n \in Nodes |-> [m \in Ins |->
          IF IsMove(liveness, m) /\ n \in {Src(liveness, m), Dst(liveness, m)}
          THEN 1 ELSE 0]]
  /\ UNCHANGED <<liveness, node_rank, move_rank, clock, group, colors, prespilled>>

------------------------------------------------------------------------------
(****************************************************************************)
(* remove_one_removable, with decrementDegree for every neighbour left and  *)
(* enableMoves for those whose degree falls below the number of colours.    *)
(****************************************************************************)
NextRemovable == Front(NodesWith("REMOVABLE"), node_rank)

Dropped_OffByOne(lowered) == {x \in lowered : node_degrees[x] = colorcount + 1}

Dropped(lowered) == {x \in lowered : node_degrees[x] = colorcount}

Remove(n) ==
  LET lowered == {x \in RemainingAdjacent(n) : node_status[x] # "PRECOLORED"}
      dropped == Dropped(lowered)
      around  == dropped \cup UNION {RemainingAdjacent(x) \ {n} : x \in dropped}
      enabled == {m \in MovesWith("ACTIVE") : \E x \in around : moves_per_node[x][m] > 0}
      freeze  == {x \in dropped : HasRemainingMoves(x, move_status, moves_per_node)}
  IN IF \E x \in dropped : node_status[x] # "SPILLABLE"
     THEN Abort("decrementDegree632")
     ELSE /\ node_degrees' =
               [x \in Nodes |-> IF x \in lowered THEN node_degrees[x] - 1 ELSE node_degrees[x]]
          /\ node_status' = [x \in Nodes |->
               IF x = n THEN "SELECTED"
               ELSE IF x \in freeze THEN "FREEZEABLE"
               ELSE IF x \in dropped THEN "REMOVABLE"
               ELSE node_status[x]]
          /\ node_rank' = Stamp(node_rank, dropped \cup {n}, clock)
          /\ move_status' = Become(move_status, enabled, "COALESCABLE")
          /\ move_rank' = Stamp(move_rank, enabled, clock)
          /\ clock' = clock + 1
          /\ UNCHANGED <<liveness, pc, adjacent, moves_per_node, group, colors, prespilled>>

RemoveOne ==
  /\ pc = "reduce"
  /\ \E n \in NextRemovable : Remove(n)

------------------------------------------------------------------------------
(****************************************************************************)
(* coalesce_one.  m is the first coalescable move; n1 and n2 are the groups *)
(* of its registers, exchanged when n2 is a machine register.               *)
(****************************************************************************)
NextMove == Front(MovesWith("COALESCABLE"), move_rank)

Ends(m) ==
  LET a == group[Src(liveness, m)]
      b == group[Dst(liveness, m)]
  IN IF node_status[b] = "PRECOLORED" THEN <<b, a>> ELSE <<a, b>>

Coalescing(m) ==
  /\ pc = "reduce"
  /\ NodesWith("REMOVABLE") = {}
  /\ m \in NextMove

(* possiblyUnfreeze(n) has something to do, given the new statuses and degrees. *)
Unfreezes(n, nstatus, degrees, mstatus, mpn) ==
  /\ nstatus[n] # "PRECOLORED"
  /\ ~ HasRemainingMoves(n, mstatus, mpn)
  /\ degrees[n] < colorcount

(* possiblyUnfreeze(n1), then possiblyUnfreeze(n2), when only a move has changed. *)
UnfreezeAfter(n1, n2, mstatus) ==
  LET unfrozen ==
        {n \in {n1, n2} : Unfreezes(n, node_status, node_degrees, mstatus, moves_per_node)}
  IN IF \E n \in unfrozen : node_status[n] # "FREEZEABLE"
     THEN Abort("possiblyUnfreeze719")
     ELSE /\ node_status' = Become(node_status, unfrozen, "REMOVABLE")
          /\ node_rank' = Stamp(Stamp(node_rank, unfrozen \cap {n1}, clock),
                                unfrozen \ {n1}, clock + 1)
          /\ move_status' = mstatus
          /\ clock' = clock + 2
          /\ UNCHANGED <<liveness, pc, graph_vars, move_rank, moves_per_node, group, colors,
                         prespilled>>

(* Both registers are in one group already. *)
CoalesceAgain(m) ==
  /\ Coalescing(m)
  /\ Ends(m)[1] = Ends(m)[2]
  /\ UnfreezeAfter(Ends(m)[1], Ends(m)[1], [move_status EXCEPT ![m] = "COALESCED"])

Constrained_MachineOnly(n1, n2) == node_status[n2] = "PRECOLORED"

Constrained(n1, n2) ==
  \/ node_status[n2] = "PRECOLORED"
  \/ n2 \in adjacent[n1]

(* Two machine registers, or registers that interfere. *)
CoalesceConstrained(m) ==
  /\ Coalescing(m)
  /\ Ends(m)[1] # Ends(m)[2]
  /\ Constrained(Ends(m)[1], Ends(m)[2])
  /\ UnfreezeAfter(Ends(m)[1], Ends(m)[2], [move_status EXCEPT ![m] = "CONSTRAINED"])

(* The test for a group n1 with a machine register. *)
canCoalesce_noAdjacentListfor1(n1, n2) ==
  \A x \in RemainingAdjacent(n2) :
    \/ node_degrees[x] < colorcount
    \/ node_status[x] = "PRECOLORED"
    \/ n1 \in adjacent[x]

(* The test for two groups without one; a common neighbour counts twice. *)
canCoalesce_bothAdjacentLists(n1, n2) ==
  LET big(n) == {x \in RemainingAdjacent(n) : node_degrees[x] >= colorcount}
  IN Cardinality(big(n1)) + Cardinality(big(n2)) < colorcount

CanCoalesce(n1, n2) ==
  IF node_status[n1] = "PRECOLORED"
  THEN canCoalesce_noAdjacentListfor1(n1, n2)
  ELSE canCoalesce_bothAdjacentLists(n1, n2)

(****************************************************************************)
(* What combineNodes changes.  The neighbours that remain gains are         *)
(* connected to it in exchange for the node that is removed, so that their  *)
(* degrees stay.  A neighbour that remain already had keeps its degree too, *)
(* although it loses one neighbour.                                         *)
(****************************************************************************)
Gained(remain, remove) == RemainingAdjacent(remove) \ adjacent[remain]

ConnectedDegrees_Forgotten(remain, gained) == node_degrees

ConnectedDegrees(remain, gained) ==
  IF node_status[remain] = "PRECOLORED" THEN node_degrees
  ELSE [node_degrees EXCEPT ![remain] = @ + Cardinality(gained)]

ConnectedGraph(remain, gained) ==
  [x \in Nodes |-> IF x = remain THEN adjacent[x] \cup gained
                   ELSE IF x \in gained THEN adjacent[x] \cup {remain}
                   ELSE adjacent[x]]

(* The moves that remain also takes over from the node that is removed. *)
JoinedMoves(remain, remove, mstatus) ==
  [x \in Nodes |-> [k \in Ins |->
     moves_per_node[x][k] +
       IF x = remain /\ k \in RemainingMoves(remove, mstatus, moves_per_node)
       THEN moves_per_node[remove][k] ELSE 0]]

CombinedStatus(remain, remove, degrees) ==
  [x \in Nodes |->
     IF x = remove THEN "COALESCED"
     ELSE IF x = remain /\ node_status[x] = "FREEZEABLE" /\ degrees[x] >= colorcount
     THEN "SPILLABLE"
     ELSE node_status[x]]

(* combineNodes, then possiblyUnfreeze(remain). *)
Combine(m, remain, remove) ==
  LET mstatus == [move_status EXCEPT ![m] = "COALESCED"]
      degrees == ConnectedDegrees(remain, Gained(remain, remove))
      nstatus == CombinedStatus(remain, remove, degrees)
      mpn     == JoinedMoves(remain, remove, mstatus)
      thaw    == {n \in {remain} : Unfreezes(n, nstatus, degrees, mstatus, mpn)}
  IN IF node_status[remove] \notin {"FREEZEABLE", "SPILLABLE"}
     THEN Abort("combineNodes765")
     ELSE IF \E n \in thaw : nstatus[n] # "FREEZEABLE"
     THEN Abort("possiblyUnfreeze719")
     ELSE /\ adjacent' = ConnectedGraph(remain, Gained(remain, remove))
          /\ node_degrees' = degrees
          /\ node_status' = Become(nstatus, thaw, "REMOVABLE")
          /\ node_rank' =
               Stamp(node_rank, {n \in {remain} : node_status'[n] # node_status[n]}, clock)
          /\ move_status' = mstatus
          /\ moves_per_node' = mpn
          /\ group' = [x \in Nodes |-> IF group[x] = remove THEN remain ELSE group[x]]
          /\ clock' = clock + 1
          /\ UNCHANGED <<liveness, pc, move_rank, colors, prespilled>>

CoalesceCombine(m) ==
  /\ Coalescing(m)
  /\ Ends(m)[1] # Ends(m)[2]
  /\ ~ Constrained(Ends(m)[1], Ends(m)[2])
  /\ CanCoalesce(Ends(m)[1], Ends(m)[2])
  /\ Combine(m, Ends(m)[1], Ends(m)[2])

AfraidStatus_Again == "COALESCABLE"

AfraidStatus == "ACTIVE"

(* Afraid to coalesce, maybe later. *)
CoalesceAfraid(m) ==
  /\ Coalescing(m)
  /\ Ends(m)[1] # Ends(m)[2]
  /\ ~ Constrained(Ends(m)[1], Ends(m)[2])
  /\ ~ CanCoalesce(Ends(m)[1], Ends(m)[2])
  /\ move_status' = [move_status EXCEPT ![m] = AfraidStatus]
  /\ UNCHANGED <<liveness, pc, graph_vars, node_vars, move_rank, moves_per_node, clock, group,
                 colors, prespilled>>

CoalesceOne ==
  \E m \in Ins : \/ CoalesceAgain(m)
                 \/ CoalesceConstrained(m)
                 \/ CoalesceCombine(m)
                 \/ CoalesceAfraid(m)

------------------------------------------------------------------------------
(****************************************************************************)
(* A node becomes removable and its moves are given up (freezeMoves); so    *)
(* does every partner that has no other move left and a low degree.  The    *)
(* list of n holds a move twice when both its registers are in n's group;   *)
(* which assert then fails depends on the order of the list.                *)
(****************************************************************************)
Partner(n, m) ==
  LET a == group[Src(liveness, m)]
      b == group[Dst(liveness, m)]
  IN IF b = group[n] THEN a ELSE b

GiveUpMoves(n, chosen) ==
  LET moves    == RemainingMoves(n, move_status, moves_per_node)
      mstatus  == Become(move_status, moves, "FROZEN")
      nstatus  == [node_status EXCEPT ![n] = "REMOVABLE"]
      released == {p \in {Partner(n, m) : m \in moves} :
                     Unfreezes(p, nstatus, node_degrees, mstatus, moves_per_node)}
      stuck    == \E m \in moves : move_status[m] # "ACTIVE" \/ moves_per_node[n][m] > 1
      thawed   == \E p \in released : nstatus[p] # "FREEZEABLE"
  IN \/ stuck /\ (thawed => Cardinality(moves) > 1) /\ Abort("freezeMoves830")
     \/ thawed /\ Abort("freezeMoves834")
     \/ /\ ~ stuck /\ ~ thawed
        /\ move_status' = mstatus
        /\ node_status' = Become(nstatus, released, "REMOVABLE")
        /\ node_rank' = [Stamp(node_rank, released, clock + 1) EXCEPT ![n] = clock]
        /\ clock' = clock + 2
        /\ prespilled' = chosen
        /\ UNCHANGED <<liveness, pc, graph_vars, move_rank, moves_per_node, group, colors>>

Reduced == NodesWith("REMOVABLE") = {} /\ MovesWith("COALESCABLE") = {}

FreezeOne ==
  /\ pc = "reduce"
  /\ Reduced
  /\ \E n \in Front(NodesWith("FREEZEABLE"), node_rank) : GiveUpMoves(n, prespilled)

(****************************************************************************)
(* The first spillable node of least badness: invocations divided by the    *)
(* degree in the graph built first, a degree of zero being infinitely bad.  *)
(****************************************************************************)
original_degree(n) == IF Precolored(n) THEN 0 ELSE Cardinality(InterferingWith(liveness, n))

WorseThan(n, best) ==
  InvocationCount(liveness, best) * original_degree(n)
    < InvocationCount(liveness, n) * original_degree(best)

PrespillOne ==
  /\ pc = "reduce"
  /\ Reduced
  /\ NodesWith("FREEZEABLE") = {}
  /\ LET spillable == NodesWith("SPILLABLE")
         best == {n \in spillable : \A x \in spillable : ~ WorseThan(n, x)}
     IN \E n \in Front(best, node_rank) :
          GiveUpMoves(n, prespilled \cup {n})

(* The loop of tryColoring ends when its four lists are empty. *)
StopReducing ==
  /\ pc = "reduce"
  /\ Reduced
  /\ NodesWith("FREEZEABLE") = {} /\ NodesWith("SPILLABLE") = {}
  /\ pc' = "color"
  /\ UNCHANGED <<liveness, graph_vars, node_vars, move_vars, clock, group, colors, prespilled>>

------------------------------------------------------------------------------
(****************************************************************************)
(* assignColors: the selected nodes, the last one first, get the lowest     *)
(* colour that no neighbour's group has yet; the node is spilled otherwise. *)
(****************************************************************************)
NextSelected_Queue == Front(NodesWith("SELECTED"), node_rank)

NextSelected == Back(NodesWith("SELECTED"), node_rank)

FreeColors_OneTooMany(n) ==
  LET groups == {group[x] : x \in adjacent[n]}
  IN (0 .. colorcount) \
       {colors[g] : g \in {h \in groups : node_status[h] \in {"PRECOLORED", "COLORED"}}}

FreeColors_NoGroups(n) ==
  Colors \ {colors[x] : x \in {y \in adjacent[n] : node_status[y] \in {"PRECOLORED", "COLORED"}}}

FreeColors(n) ==
  LET groups == {group[x] : x \in adjacent[n]}
  IN Colors \ {colors[g] : g \in {h \in groups : node_status[h] \in {"PRECOLORED", "COLORED"}}}

AssignColor ==
  /\ pc = "color"
  /\ \E n \in NextSelected :
       \/ /\ FreeColors(n) = {}
          /\ node_status' = [node_status EXCEPT ![n] = "SPILLED"]
          /\ UNCHANGED colors
       \/ \E c \in FreeColors(n) :
          /\ \A d \in FreeColors(n) : c <= d
          /\ node_status' = [node_status EXCEPT ![n] = "COLORED"]
          /\ colors' = [colors EXCEPT ![n] = c]
  /\ UNCHANGED <<liveness, pc, graph_vars, node_rank, move_vars, clock, group, prespilled>>

(* checkColors looks at the moves only, and only at those whose target is live. *)
CheckFails(c) ==
  \E i \in Ins :
    /\ IsMove(liveness, i)
    /\ Dst(liveness, i) \in liveness.live[i]
    /\ \E n \in liveness.live[i] \ {Src(liveness, i), Dst(liveness, i)} :
         c[n] >= 0 /\ c[n] = c[Dst(liveness, i)]

FinalColors_Forgotten == colors

FinalColors ==
  [n \in Nodes |-> IF node_status[n] = "COALESCED" THEN colors[group[n]] ELSE colors[n]]

(* Coalesced nodes get the colour of their group; then checkColors. *)
FinishColors ==
  /\ pc = "color"
  /\ NodesWith("SELECTED") = {}
  /\ colors' = FinalColors
  /\ pc' = IF CheckFails(colors') THEN "checkColors971" ELSE "done"
  /\ UNCHANGED <<liveness, graph_vars, node_vars, move_vars, clock, group, prespilled>>

------------------------------------------------------------------------------
Stopped == pc \in Asserts \cup {"done"}

Terminated == Stopped /\ UNCHANGED vars

Next ==
  \/ Build
  \/ RemoveOne
  \/ CoalesceOne
  \/ FreezeOne
  \/ PrespillOne
  \/ StopReducing
  \/ AssignColor
  \/ FinishColors
  \/ Terminated

Spec == Init /\ [][Next]_vars

(* The allocator is sequential: while a step is possible it goes on. *)
FairSpec == Spec /\ WF_vars(Next)

------------------------------------------------------------------------------
(* The types of the variables of PartialRegAllocator. *)
TypeOK ==
  /\ liveness \in LivenessType
  /\ pc \in Phases \cup Asserts
  /\ adjacent \in [Nodes -> SUBSET Nodes]
  /\ node_degrees \in [Nodes -> Int]
  /\ node_status \in [Nodes -> NodeStatus]
  /\ node_rank \in [Nodes -> Nat]
  /\ move_status \in [Ins -> MoveStatus]
  /\ move_rank \in [Ins -> Nat]
  /\ clock \in Nat
  /\ moves_per_node \in [Nodes -> [Ins -> Nat]]
  /\ group \in [Nodes -> Nodes]
  /\ colors \in [Nodes -> Colors \cup {NoColor}]
  /\ prespilled \in SUBSET Nodes

(****************************************************************************)
(* Registers that interfere are never put in one group, and the nodes that  *)
(* stand for them are adjacent as long as both are in the graph: coalescing *)
(* loses no interference (combineNodes hands the edges of the node it       *)
(* removes over to the one that remains).                                   *)
(****************************************************************************)
InGraph(n) == node_status[n] \in {"PRECOLORED", "REMOVABLE", "FREEZEABLE", "SPILLABLE"}

GroupsSeparated ==
  pc # "build" =>
    \A a, b \in Nodes :
      Interferes(liveness, a, b) =>
        /\ group[a] # group[b]
        /\ InGraph(group[a]) /\ InGraph(group[b]) => group[a] \in adjacent[group[b]]

(****************************************************************************)
(* Between two steps of the loop each list holds the nodes it is for: a     *)
(* spillable node has a high degree, a freezeable one a low degree and a    *)
(* move left, a removable one no move left and a low degree, unless         *)
(* prespillOne chose it.  decrementDegree, possiblyUnfreeze, combineNodes   *)
(* and freezeMoves keep this together; none of them does alone.             *)
(****************************************************************************)
HasMovesLeft(n) ==
  \E m \in Ins : moves_per_node[n][m] > 0 /\ move_status[m] \in {"COALESCABLE", "ACTIVE"}

WorklistsExact ==
  pc = "reduce" =>
    \A n \in Nodes :
      /\ node_status[n] = "SPILLABLE" => node_degrees[n] >= colorcount
      /\ node_status[n] = "FREEZEABLE" => node_degrees[n] < colorcount /\ HasMovesLeft(n)
      /\ node_status[n] = "REMOVABLE" =>
           ~ HasMovesLeft(n) /\ (node_degrees[n] < colorcount \/ n \in prespilled)

(****************************************************************************)
(* node_degrees may count a neighbour too many (combineNodes does not lower *)
(* a common neighbour's degree), never one too few.                         *)
(****************************************************************************)
DegreesBound ==
  pc = "reduce" =>
    \A n \in Nodes :
      InGraph(n) /\ ~ Precolored(n) => Cardinality(RemainingAdjacent(n)) <= node_degrees[n]

(****************************************************************************)
(* A register is spilled only if prespillOne has chosen it: a node removed  *)
(* with a low degree always finds a colour, since assignColors goes through *)
(* the selected nodes from the last to the first.                           *)
(****************************************************************************)
OnlyPrespilledAreSpilled == NodesWith("SPILLED") \subseteq prespilled

(****************************************************************************)
(* At the end both registers of a coalesced move have the same colour (or   *)
(* are both spilled), so the move can be dropped.                           *)
(****************************************************************************)
CoalescedMovesVanish ==
  pc = "done" =>
    \A m \in MovesWith("COALESCED") : colors[Src(liveness, m)] = colors[Dst(liveness, m)]

(****************************************************************************)
(* The asserts of decrementDegree, possiblyUnfreeze and combineNodes, and   *)
(* the test of checkColors, never fail.  In particular combineNodes is      *)
(* never asked to merge two machine registers.                              *)
(****************************************************************************)
SimplifyAssertsHold ==
  pc \notin {"decrementDegree632", "possiblyUnfreeze719", "combineNodes765", "checkColors971"}

(****************************************************************************)
(* The asserts of freezeMoves, regallocator.cpp:830 and 834: the moves of a *)
(* node that is frozen or prespilled are active, and a partner left without *)
(* moves is freezeable.                                                     *)
(****************************************************************************)
FreezeAssertsHold == pc \notin {"freezeMoves830", "freezeMoves834"}

(****************************************************************************)
(* Once a node is on the stack of selected nodes the graph around it stays  *)
(* as it is: later coalescing gives it no neighbour and no group member.    *)
(****************************************************************************)
SelectedSealed ==
  [][pc = "reduce" =>
       \A n \in NodesWith("SELECTED") :
         /\ adjacent'[n] = adjacent[n]
         /\ \A x \in Nodes : (group'[x] = n) = (group[x] = n)]_vars

(****************************************************************************)
(* The allocator stops: no move is tried for ever.                          *)
(****************************************************************************)
Terminates == <>Stopped

(****************************************************************************)
(* The allocator implements the colouring of its interference graph.  A     *)
(* register has the colour of its group, even before assignColors copies it.*)
(****************************************************************************)
Graph == INSTANCE GraphColoring WITH
           edges    <- {e \in Nodes \X Nodes : Interferes(liveness, e[1], e[2])},
           coloring <- [n \in Nodes |-> colors[group[n]]]

ImplementsColoring == Graph!Spec

==============================================================================
