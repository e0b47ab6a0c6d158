---------------------------- MODULE RegAllocProofs ----------------------------
(****************************************************************************)
(* Theorems about RegAlloc, for every number of registers, instructions and *)
(* colours and every set of inputs.                                         *)
(****************************************************************************)
EXTENDS RegAlloc, FiniteSetTheorems, TLAPS

(* Only the moves of the input are ever coalesced, frozen or in the list of a node. *)
MovesKnown ==
  /\ \A m \in Ins : move_status[m] # "UNPROCESSED" => IsMove(liveness, m)
  /\ \A n \in Nodes, m \in Ins : moves_per_node[n][m] > 0 => IsMove(liveness, m)

InputKnown == liveness \in Inputs

TypeInv == TypeOK /\ InputKnown /\ MovesKnown

------------------------------------------------------------------------------
(* Sets of nodes and of instructions are finite. *)
LEMMA NodesFinite ==
  ASSUME NEW S \in SUBSET Nodes
  PROVE  IsFiniteSet(S) /\ Cardinality(S) \in Nat
  <1>1. IsFiniteSet(Nodes)
    BY CountsAssumption, FS_Interval DEF Nodes
  <1>2. IsFiniteSet(S)
    BY <1>1, FS_Subset
  <1> QED
    BY <1>2, FS_CardinalityType

(* The two registers of a move are registers, and they differ. *)
LEMMA MoveEnds ==
  ASSUME NEW l \in Inputs, NEW m \in Ins, IsMove(l, m)
  PROVE  /\ Src(l, m) \in Nodes
         /\ Dst(l, m) \in Nodes
         /\ Src(l, m) # Dst(l, m)
  <1>1. PICK s, d \in Nodes : l.used[m] = {s} /\ l.assigned[m] = {d}
    BY InputsAssumption DEF IsMove
  <1>2. Src(l, m) = s /\ Dst(l, m) = d
    BY <1>1 DEF Src, Dst
  <1> QED
    BY <1>1, <1>2 DEF IsMove

(* The groups of the two registers of a known move, in either order. *)
LEMMA EndsAreNodes ==
  ASSUME TypeInv, NEW m \in Ins, IsMove(liveness, m)
  PROVE  Ends(m)[1] \in Nodes /\ Ends(m)[2] \in Nodes
  BY MoveEnds DEF TypeInv, TypeOK, InputKnown, Ends

LEMMA InterferingAreNodes ==
  ASSUME NEW l, NEW n
  PROVE  InterferingWith(l, n) \in SUBSET Nodes
  BY DEF InterferingWith

(* The initial state is well typed. *)
LEMMA TypeInit == Init => TypeInv
  <1> SUFFICES ASSUME Init PROVE TypeInv
    OBVIOUS
  <1>1. liveness \in LivenessType
    BY InputsAssumption DEF Init
  <1> QED
    BY <1>1, CountsAssumption
       DEF Init, TypeInv, TypeOK, InputKnown, MovesKnown, LivenessType, Nodes, Ins, Phases,
           NodeStatus, MoveStatus, Precolored

(* A failing assert changes nothing but pc. *)
LEMMA TypeAbort ==
  ASSUME TypeInv, NEW a \in Asserts, Abort(a)
  PROVE  TypeInv'
  BY DEF TypeInv, TypeOK, InputKnown, MovesKnown, Abort, graph_vars, node_vars, move_vars

LEMMA TypeBuild == TypeInv /\ Build => TypeInv'
  <1> SUFFICES ASSUME TypeInv, Build PROVE TypeInv'
    OBVIOUS
  <1> USE DEF TypeInv, TypeOK, InputKnown
  <1>1. node_degrees' \in [Nodes -> Int]
    BY NodesFinite, InterferingAreNodes DEF Build
  <1>2. adjacent' \in [Nodes -> SUBSET Nodes]
    BY InterferingAreNodes DEF Build
  <1>3. node_status' \in [Nodes -> NodeStatus]
    BY DEF Build, Classify, NodeStatus
  <1>4. /\ move_status' \in [Ins -> MoveStatus]
        /\ moves_per_node' \in [Nodes -> [Ins -> Nat]]
    BY DEF Build, MoveStatus
  <1>5. MovesKnown'
    BY DEF Build, MovesKnown
  <1> QED
    BY <1>1, <1>2, <1>3, <1>4, <1>5 DEF Build, Phases

LEMMA TypeRemoveOne == TypeInv /\ RemoveOne => TypeInv'
  <1> SUFFICES ASSUME TypeInv, NEW n \in Nodes, Remove(n) PROVE TypeInv'
    BY DEF RemoveOne, NextRemovable, Front, NodesWith
  <1>1. CASE Abort("decrementDegree632")
    BY <1>1, TypeAbort DEF Asserts
  <1>2. CASE ~ Abort("decrementDegree632")
    <2> USE DEF TypeInv, TypeOK, InputKnown
    <2>1. node_degrees' \in [Nodes -> Int]
      BY <1>2 DEF Remove
    <2>2. node_status' \in [Nodes -> NodeStatus] /\ node_rank' \in [Nodes -> Nat]
      BY <1>2 DEF Remove, NodeStatus, Stamp
    <2>3. move_status' \in [Ins -> MoveStatus] /\ move_rank' \in [Ins -> Nat]
      BY <1>2 DEF Remove, MoveStatus, Become, Stamp
    <2>4. MovesKnown'
      <3>1. \A m \in Ins : move_status'[m] # "UNPROCESSED" => move_status[m] # "UNPROCESSED"
        BY <1>2 DEF Remove, Become, MovesWith
      <3> QED
        BY <1>2, <3>1 DEF Remove, MovesKnown
    <2> QED
      BY <1>2, <2>1, <2>2, <2>3, <2>4 DEF Remove
  <1> QED
    BY <1>1, <1>2

(* What the two outcomes of coalesce_one without a combination share. *)
LEMMA TypeUnfreezeAfter ==
  ASSUME TypeInv, NEW n1 \in Nodes, NEW n2 \in Nodes, NEW m \in Ins, IsMove(liveness, m),
         NEW s \in MoveStatus \ {"UNPROCESSED"},
         UnfreezeAfter(n1, n2, [move_status EXCEPT ![m] = s])
  PROVE  TypeInv'
  <1>1. CASE Abort("possiblyUnfreeze719")
    BY <1>1, TypeAbort DEF Asserts
  <1>2. CASE ~ Abort("possiblyUnfreeze719")
    <2> USE DEF TypeInv, TypeOK, InputKnown
    <2>1. node_status' \in [Nodes -> NodeStatus] /\ node_rank' \in [Nodes -> Nat]
      BY <1>2 DEF UnfreezeAfter, NodeStatus, Become, Stamp
    <2>2. move_status' \in [Ins -> MoveStatus]
      BY <1>2 DEF UnfreezeAfter
    <2>3. MovesKnown'
      BY <1>2 DEF UnfreezeAfter, MovesKnown
    <2> QED
      BY <1>2, <2>1, <2>2, <2>3 DEF UnfreezeAfter, graph_vars
  <1> QED
    BY <1>1, <1>2

(* A move that is in the list of coalescable moves is one of the input's. *)
LEMMA CoalescingIsMove ==
  ASSUME TypeInv, NEW m \in Ins, Coalescing(m)
  PROVE  IsMove(liveness, m)
  BY DEF TypeInv, MovesKnown, Coalescing, NextMove, Front, MovesWith

LEMMA TypeCombine ==
  ASSUME TypeInv, NEW m \in Ins, IsMove(liveness, m),
         NEW remain \in Nodes, NEW remove \in Nodes, Combine(m, remain, remove)
  PROVE  TypeInv'
  <1> DEFINE gained  == Gained(remain, remove)
             mstatus == [move_status EXCEPT ![m] = "COALESCED"]
             degrees == ConnectedDegrees(remain, gained)
             nstatus == CombinedStatus(remain, remove, degrees)
             mpn     == JoinedMoves(remain, remove, mstatus)
             thaw    == {n \in {remain} : Unfreezes(n, nstatus, degrees, mstatus, mpn)}
  <1> USE DEF TypeInv, TypeOK, InputKnown
  <1>1. CASE Abort("combineNodes765") \/ Abort("possiblyUnfreeze719")
    BY <1>1, TypeAbort DEF Asserts
  <1>2. CASE ~ Abort("combineNodes765") /\ ~ Abort("possiblyUnfreeze719")
    <2>1. /\ adjacent' = ConnectedGraph(remain, gained)
          /\ node_degrees' = degrees
          /\ node_status' = Become(nstatus, thaw, "REMOVABLE")
          /\ node_rank' =
               Stamp(node_rank, {n \in {remain} : node_status'[n] # node_status[n]}, clock)
          /\ move_status' = mstatus
          /\ moves_per_node' = mpn
          /\ group' = [x \in Nodes |-> IF group[x] = remove THEN remain ELSE group[x]]
          /\ clock' = clock + 1
          /\ UNCHANGED <<liveness, pc, move_rank, colors, prespilled>>
      BY <1>2 DEF Combine
    <2>2. gained \in SUBSET Nodes
      BY DEF Gained, RemainingAdjacent
    <2>3. node_degrees' \in [Nodes -> Int]
      <3>1. Cardinality(gained) \in Nat
        BY <2>2, NodesFinite
      <3> HIDE DEF gained
      <3>2. degrees \in [Nodes -> Int]
        BY <3>1 DEF ConnectedDegrees
      <3> QED
        BY <2>1, <3>2
    <2>4. adjacent' \in [Nodes -> SUBSET Nodes]
      BY <2>1, <2>2 DEF ConnectedGraph
    <2>5. node_status' \in [Nodes -> NodeStatus]
      BY <2>1 DEF CombinedStatus, Become, NodeStatus
    <2>6. node_rank' \in [Nodes -> Nat]
      BY <2>1 DEF Stamp
    <2>7. move_status' \in [Ins -> MoveStatus]
      BY <2>1 DEF MoveStatus
    <2>8. /\ moves_per_node' \in [Nodes -> [Ins -> Nat]]
          /\ \A n \in Nodes, k \in Ins :
               moves_per_node'[n][k] > 0 =>
                 moves_per_node[n][k] > 0 \/ moves_per_node[remove][k] > 0
      BY <2>1 DEF JoinedMoves
    <2>9. group' \in [Nodes -> Nodes]
      BY <2>1
    <2>10. MovesKnown'
      BY <2>1, <2>8 DEF MovesKnown
    <2>11. /\ liveness' = liveness /\ pc' = pc /\ move_rank' = move_rank
           /\ colors' = colors /\ prespilled' = prespilled /\ clock' = clock + 1
      BY <2>1
    <2> HIDE DEF gained, mstatus, degrees, nstatus, mpn, thaw
    <2> QED
      BY <2>3, <2>4, <2>5, <2>6, <2>7, <2>8, <2>9, <2>10, <2>11
  <1> QED
    BY <1>1, <1>2

LEMMA TypeCoalesceOne == TypeInv /\ CoalesceOne => TypeInv'
  <1> SUFFICES ASSUME TypeInv, NEW m \in Ins,
                      \/ CoalesceAgain(m)
                      \/ CoalesceConstrained(m)
                      \/ CoalesceCombine(m)
                      \/ CoalesceAfraid(m)
               PROVE  TypeInv'
    BY DEF CoalesceOne
  <1>1. Coalescing(m)
    BY DEF CoalesceAgain, CoalesceConstrained, CoalesceCombine, CoalesceAfraid
  <1>2. IsMove(liveness, m)
    BY <1>1, CoalescingIsMove
  <1>3. Ends(m)[1] \in Nodes /\ Ends(m)[2] \in Nodes
    BY <1>2, EndsAreNodes
  <1>4. CASE CoalesceAgain(m)
    BY <1>2, <1>3, <1>4, TypeUnfreezeAfter DEF CoalesceAgain, MoveStatus
  <1>5. CASE CoalesceConstrained(m)
    BY <1>2, <1>3, <1>5, TypeUnfreezeAfter DEF CoalesceConstrained, MoveStatus
  <1>6. CASE CoalesceCombine(m)
    BY <1>2, <1>3, <1>6, TypeCombine DEF CoalesceCombine
  <1>7. CASE CoalesceAfraid(m)
    <2>1. move_status' \in [Ins -> MoveStatus] /\ MovesKnown'
      BY <1>2, <1>7
         DEF CoalesceAfraid, TypeInv, TypeOK, MovesKnown, MoveStatus, AfraidStatus
    <2> QED
      BY <1>7, <2>1 DEF CoalesceAfraid, TypeInv, TypeOK, InputKnown, graph_vars, node_vars
  <1> QED
    BY <1>4, <1>5, <1>6, <1>7

LEMMA TypeGiveUpMoves ==
  ASSUME TypeInv, NEW n \in Nodes, NEW chosen \in SUBSET Nodes, GiveUpMoves(n, chosen)
  PROVE  TypeInv'
  <1> DEFINE moves   == RemainingMoves(n, move_status, moves_per_node)
             mstatus == Become(move_status, moves, "FROZEN")
             nstatus == [node_status EXCEPT ![n] = "REMOVABLE"]
             released == {p \in {Partner(n, m) : m \in moves} :
                           Unfreezes(p, nstatus, node_degrees, mstatus, moves_per_node)}
  <1> USE DEF TypeInv, TypeOK, InputKnown
  <1>1. CASE Abort("freezeMoves830") \/ Abort("freezeMoves834")
    BY <1>1, TypeAbort DEF Asserts
  <1>2. CASE ~ Abort("freezeMoves830") /\ ~ Abort("freezeMoves834")
    <2>1. /\ move_status' = mstatus
          /\ node_status' = Become(nstatus, released, "REMOVABLE")
          /\ node_rank' = [Stamp(node_rank, released, clock + 1) EXCEPT ![n] = clock]
          /\ clock' = clock + 2
          /\ prespilled' = chosen
          /\ UNCHANGED <<liveness, pc, graph_vars, move_rank, moves_per_node, group, colors>>
      BY <1>2 DEF GiveUpMoves
    <2>2. node_status' \in [Nodes -> NodeStatus]
      BY <2>1 DEF Become, NodeStatus
    <2>3. node_rank' \in [Nodes -> Nat]
      <3> DEFINE rank == Stamp(node_rank, released, clock + 1)
      <3>1. rank \in [Nodes -> Nat]
        <4> HIDE DEF released
        <4> QED
          BY DEF Stamp
      <3>2. node_rank' = [rank EXCEPT ![n] = clock]
        BY <2>1
      <3> HIDE DEF rank
      <3> QED
        BY <3>1, <3>2
    <2>4. /\ move_status' \in [Ins -> MoveStatus]
          /\ \A m \in Ins : move_status'[m] # move_status[m] => moves_per_node[n][m] > 0
      BY <2>1 DEF Become, MoveStatus, RemainingMoves
    <2>5. MovesKnown'
      BY <2>1, <2>4 DEF MovesKnown
    <2>6. /\ liveness' = liveness /\ pc' = pc /\ move_rank' = move_rank
          /\ moves_per_node' = moves_per_node /\ group' = group /\ colors' = colors
          /\ adjacent' = adjacent /\ node_degrees' = node_degrees
          /\ clock' = clock + 2 /\ prespilled' = chosen
      BY <2>1 DEF graph_vars
    <2> HIDE DEF moves, mstatus, nstatus, released
    <2> QED
      BY <2>2, <2>3, <2>4, <2>5, <2>6
  <1> QED
    BY <1>1, <1>2

LEMMA TypeFreezeOrPrespill == TypeInv /\ (FreezeOne \/ PrespillOne) => TypeInv'
  <1> SUFFICES ASSUME TypeInv, FreezeOne \/ PrespillOne PROVE TypeInv'
    OBVIOUS
  <1>1. CASE FreezeOne
    <2>1. PICK n \in Nodes : GiveUpMoves(n, prespilled)
      BY <1>1 DEF FreezeOne, Front, NodesWith
    <2> QED
      BY <2>1, TypeGiveUpMoves DEF TypeInv, TypeOK
  <1>2. CASE PrespillOne
    <2>1. PICK n \in Nodes : GiveUpMoves(n, prespilled \cup {n})
      BY <1>2 DEF PrespillOne, Front, NodesWith
    <2> QED
      BY <2>1, TypeGiveUpMoves DEF TypeInv, TypeOK
  <1> QED
    BY <1>1, <1>2

(* The end of the loop and the loop of assignColors. *)
LEMMA TypeColoring ==
  TypeInv /\ (StopReducing \/ AssignColor \/ FinishColors \/ UNCHANGED vars) => TypeInv'
  <1> SUFFICES ASSUME TypeInv, StopReducing \/ AssignColor \/ FinishColors \/ UNCHANGED vars
               PROVE  TypeInv'
    OBVIOUS
  <1> USE DEF TypeInv, TypeOK, InputKnown, MovesKnown, graph_vars, node_vars, move_vars
  <1>1. CASE StopReducing
    BY <1>1 DEF StopReducing, Phases
  <1>2. CASE AssignColor
    <2>1. PICK n \in Nodes : node_status' \in {[node_status EXCEPT ![n] = "SPILLED"],
                                               [node_status EXCEPT ![n] = "COLORED"]}
      BY <1>2 DEF AssignColor, NextSelected, Back, NodesWith
    <2>2. node_status' \in [Nodes -> NodeStatus]
      BY <2>1 DEF NodeStatus
    <2>3. colors' \in [Nodes -> Colors \cup {NoColor}]
      <3>1. PICK k \in Nodes : \/ UNCHANGED colors
                              \/ \E c \in FreeColors(k) : colors' = [colors EXCEPT ![k] = c]
        BY <1>2 DEF AssignColor, NextSelected, Back, NodesWith
      <3>2. FreeColors(k) \subseteq Colors
        BY DEF FreeColors
      <3> QED
        BY <3>1, <3>2
    <2> QED
      BY <1>2, <2>2, <2>3 DEF AssignColor
  <1>3. CASE FinishColors
    BY <1>3 DEF FinishColors, FinalColors, Phases, Asserts
  <1>4. CASE UNCHANGED vars
    BY <1>4 DEF vars
  <1> QED
    BY <1>1, <1>2, <1>3, <1>4

LEMMA TypeNext == TypeInv /\ [Next]_vars => TypeInv'
  BY TypeBuild, TypeRemoveOne, TypeCoalesceOne, TypeFreezeOrPrespill, TypeColoring
     DEF Next, Terminated

(****************************************************************************)
(* The variables of the allocator keep their types, whatever the program:   *)
(* in particular a group always leads to a register of the function and a   *)
(* colour is always one of the machine registers.                           *)
(****************************************************************************)
THEOREM TypeCorrect == Spec => []TypeOK
  <1>1. Spec => []TypeInv
    BY TypeInit, TypeNext, PTL DEF Spec
  <1>2. TypeInv => TypeOK
    BY DEF TypeInv
  <1> QED
    BY <1>1, <1>2, PTL

------------------------------------------------------------------------------
(****************************************************************************)
(* The work lists of the register allocator: what holds of the lists of     *)
(* nodes, of the moves and of the groups between two passes of the loop of  *)
(* tryColoring, and that the asserts about them hold.                       *)
(****************************************************************************)

Remaining(m) == move_status[m] \in {"COALESCABLE", "ACTIVE"}
MoveGroups(m) == {group[Src(liveness, m)], group[Dst(liveness, m)]}

(* The nodes that assignColors goes through, before and after it has done so. *)
Removed(n) == node_status[n] \in {"SELECTED", "COLORED", "SPILLED"}

------------------------------------------------------------------------------
(* The parts of the invariant. *)

(* A chain of coalesced nodes ends after one step, in a node that is not coalesced. *)
GroupsFlat ==
  \A n \in Nodes : /\ group[group[n]] = group[n]
                   /\ node_status[n] = "COALESCED" <=> group[n] # n

MachineKept == \A n \in Nodes : node_status[n] = "PRECOLORED" <=> Precolored(n)

CoalescedTogether ==
  \A m \in Ins : move_status[m] = "COALESCED"
                   => group[Src(liveness, m)] = group[Dst(liveness, m)]

RanksPast == \A n \in Nodes : node_rank[n] < clock

(* The statuses that occur in each phase. *)
StatusOfPhase ==
  /\ pc = "build" => /\ \A n \in Nodes : node_status[n] \in {"PRECOLORED", "UNPROCESSED"}
                     /\ \A m \in Ins : move_status[m] = "UNPROCESSED"
                     /\ \A n \in Nodes : group[n] = n
  /\ pc = "reduce" => \A n \in Nodes : InGraph(n) \/ node_status[n] \in {"COALESCED", "SELECTED"}
  /\ pc = "color" => \A n \in Nodes : Removed(n) \/ node_status[n] \in {"PRECOLORED", "COALESCED"}

Symmetric == \A x, y \in Nodes : x \in adjacent[y] => y \in adjacent[x] /\ x # y

(* A move that is left is in the lists of both its groups, which are in the graph; *)
MovesListed ==
  pc = "reduce" => \A m \in Ins : Remaining(m) =>
                     \A r \in MoveGroups(m) : InGraph(r) /\ moves_per_node[r][m] > 0

(* and of the nodes in the graph only those have it. *)
ListsExact ==
  pc = "reduce" =>
    \A n \in Nodes, m \in Ins :
      InGraph(n) /\ Remaining(m) /\ moves_per_node[n][m] > 0 => n \in MoveGroups(m)

(* A node chosen by prespillOne is the next to be removed. *)
HighFirst ==
  pc = "reduce" =>
    \A x, y \in NodesWith("REMOVABLE") :
      node_degrees[x] >= colorcount /\ x # y => node_rank[x] < node_rank[y]

ListAssertsHold == pc \notin {"decrementDegree632", "possiblyUnfreeze719", "combineNodes765"}

ListInv ==
  /\ TypeInv /\ GroupsFlat /\ MachineKept /\ CoalescedTogether /\ RanksPast
  /\ StatusOfPhase /\ Symmetric /\ MovesListed /\ ListsExact
  /\ WorklistsExact /\ HighFirst /\ ListAssertsHold

------------------------------------------------------------------------------
LEMMA InterferesSymmetric ==
  ASSUME NEW l, NEW a, NEW b, Interferes(l, a, b)
  PROVE  Interferes(l, b, a) /\ a # b
  BY DEF Interferes, CollidesAt

(* A move that is left has two groups. *)
LEMMA RemainingMove ==
  ASSUME TypeInv, NEW m \in Ins, move_status[m] # "UNPROCESSED"
  PROVE  /\ IsMove(liveness, m)
         /\ Src(liveness, m) \in Nodes /\ Dst(liveness, m) \in Nodes
         /\ MoveGroups(m) \subseteq Nodes
  BY MoveEnds DEF TypeInv, TypeOK, InputKnown, MovesKnown, MoveGroups

LEMMA HasMoves ==
  ASSUME NEW n
  PROVE  HasMovesLeft(n) <=> HasRemainingMoves(n, move_status, moves_per_node)
  BY DEF HasMovesLeft, HasRemainingMoves, RemainingMoves

(* An assert of freezeMoves that fails ends the run. *)
LEMMA ListAbort ==
  ASSUME ListInv, NEW a \in {"freezeMoves830", "freezeMoves834"}, Abort(a)
  PROVE  ListInv'
  <1>1. TypeInv'
    BY TypeAbort DEF ListInv, Asserts
  <1>2. /\ pc' = a
        /\ UNCHANGED <<liveness, adjacent, node_degrees, node_status, node_rank, move_status,
                       clock, group>>
    BY DEF Abort, graph_vars, node_vars, move_vars
  <1> QED
    BY <1>1, <1>2
       DEF ListInv, GroupsFlat, MachineKept, CoalescedTogether, RanksPast, StatusOfPhase,
           Symmetric, MovesListed, ListsExact, WorklistsExact, HighFirst, ListAssertsHold,
           Precolored

LEMMA ListInit == Init => ListInv
  <1> SUFFICES ASSUME Init PROVE ListInv
    OBVIOUS
  <1>1. TypeInv
    BY TypeInit
  <1>2. /\ pc = "build"
        /\ \A n \in Nodes : /\ group[n] = n /\ adjacent[n] = {}
                            /\ node_status[n] = IF Precolored(n) THEN "PRECOLORED" ELSE "UNPROCESSED"
        /\ \A m \in Ins : move_status[m] = "UNPROCESSED"
    BY DEF Init
  <1>3. RanksPast
    BY CountsAssumption DEF Init, RanksPast, Nodes
  <1> QED
    BY <1>1, <1>2, <1>3
       DEF ListInv, GroupsFlat, MachineKept, CoalescedTogether, StatusOfPhase,
           Symmetric, MovesListed, ListsExact, WorklistsExact, HighFirst, ListAssertsHold

LEMMA ListBuild == ListInv /\ Build => ListInv'
  <1> SUFFICES ASSUME ListInv, Build PROVE ListInv'
    OBVIOUS
  <1>1. TypeInv'
    BY TypeBuild DEF ListInv
  <1>2. /\ pc' = "reduce"
        /\ UNCHANGED <<liveness, group, node_rank, clock>>
        /\ \A n \in Nodes : group[n] = n
        /\ \A n \in Nodes : /\ adjacent'[n] = InterferingWith(liveness, n)
                            /\ node_status'[n] = Classify(n, node_degrees'[n])
        /\ \A m \in Ins : move_status'[m] = IF IsMove(liveness, m) THEN "COALESCABLE"
                                            ELSE "UNPROCESSED"
        /\ \A n \in Nodes, m \in Ins :
             moves_per_node'[n][m] = IF IsMove(liveness, m) /\ n \in {Src(liveness, m), Dst(liveness, m)}
                                     THEN 1 ELSE 0
    BY DEF Build, ListInv, StatusOfPhase
  <1>3. node_degrees' \in [Nodes -> Int]
    BY <1>1 DEF TypeInv, TypeOK
  <1>4. \A n \in Nodes : InGraph(n)' /\ (node_status'[n] = "PRECOLORED" <=> Precolored(n))
    BY <1>2 DEF InGraph, Classify
  <1>5. /\ GroupsFlat' /\ MachineKept' /\ CoalescedTogether' /\ RanksPast' /\ StatusOfPhase'
        /\ ListAssertsHold'
    BY <1>2, <1>4
       DEF ListInv, GroupsFlat, MachineKept, CoalescedTogether, RanksPast, StatusOfPhase,
           ListAssertsHold, InGraph, Precolored
  <1>6. Symmetric'
    BY <1>2, InterferesSymmetric DEF Symmetric, InterferingWith
  <1>7. \A m \in Ins : IsMove(liveness, m) =>
          /\ Src(liveness, m) \in Nodes /\ Dst(liveness, m) \in Nodes
    BY MoveEnds DEF ListInv, TypeInv, InputKnown
  <1>8. MovesListed' /\ ListsExact'
    BY <1>2, <1>4, <1>7 DEF MovesListed, ListsExact, Remaining, MoveGroups
  <1>9. \A n \in Nodes :
          /\ node_status'[n] = "SPILLABLE" => node_degrees'[n] >= colorcount
          /\ node_status'[n] = "FREEZEABLE" => node_degrees'[n] < colorcount /\ InMove(n)
          /\ node_status'[n] = "REMOVABLE" => node_degrees'[n] < colorcount /\ ~ InMove(n)
    BY <1>2, <1>3, CountsAssumption DEF Classify
  <1>10. \A n \in Nodes : HasMovesLeft(n)' <=> InMove(n)
    BY <1>2 DEF HasMovesLeft, InMove
  <1>11. WorklistsExact' /\ HighFirst'
    BY <1>2, <1>3, <1>9, <1>10, CountsAssumption DEF WorklistsExact, HighFirst, NodesWith
  <1> QED
    BY <1>1, <1>5, <1>6, <1>8, <1>11 DEF ListInv

------------------------------------------------------------------------------
(* The neighbours whose degree is lowered when n is removed. *)
Lowered(n) == {x \in RemainingAdjacent(n) : node_status[x] # "PRECOLORED"}

(* Those whose degree falls below the number of colours are spillable: the assert holds. *)
LEMMA DroppedAreSpillable ==
  ASSUME ListInv, pc = "reduce", NEW n \in NextRemovable, NEW x \in Dropped(Lowered(n))
  PROVE  x \in Nodes /\ x # n /\ node_status[x] = "SPILLABLE"
  <1>1. /\ n \in Nodes /\ node_status[n] = "REMOVABLE"
        /\ \A y \in Nodes : node_status[y] = "REMOVABLE" => node_rank[n] <= node_rank[y]
    BY DEF NextRemovable, Front, NodesWith
  <1>2. /\ x \in adjacent[n] /\ node_degrees[x] = colorcount
        /\ node_status[x] \notin {"SELECTED", "COALESCED", "PRECOLORED"}
    BY DEF Dropped, Lowered, RemainingAdjacent
  <1>3. x \in Nodes /\ x # n
    BY <1>1, <1>2 DEF ListInv, TypeInv, TypeOK, Symmetric
  <1>4. node_degrees[x] \in Int /\ node_rank[x] \in Nat /\ node_rank[n] \in Nat
    BY <1>1, <1>3 DEF ListInv, TypeInv, TypeOK
  <1>5. node_status[x] # "REMOVABLE"
    <2>1. SUFFICES ASSUME node_status[x] = "REMOVABLE" PROVE FALSE
      OBVIOUS
    <2>2. node_rank[x] < node_rank[n]
      BY <1>1, <1>2, <1>3, <1>4, <2>1, CountsAssumption DEF ListInv, HighFirst, NodesWith
    <2> QED
      BY <1>1, <1>3, <1>4, <2>1, <2>2
  <1>6. node_status[x] # "FREEZEABLE"
    BY <1>2, <1>3, <1>4, CountsAssumption DEF ListInv, WorklistsExact
  <1> QED
    BY <1>2, <1>3, <1>5, <1>6 DEF ListInv, StatusOfPhase, InGraph

(* What the removal of a node changes. *)
RemoveEffect(n) ==
  /\ UNCHANGED <<liveness, pc, adjacent, moves_per_node, group, colors, prespilled>>
  /\ clock' = clock + 1
  /\ node_status'[n] = "SELECTED" /\ node_rank'[n] = clock
  /\ \A x \in Nodes :
       node_degrees'[x] = IF x \in Lowered(n) THEN node_degrees[x] - 1 ELSE node_degrees[x]
  /\ \A x \in Dropped(Lowered(n)) :
       /\ node_rank'[x] = clock
       /\ node_status'[x] = IF HasMovesLeft(x) THEN "FREEZEABLE" ELSE "REMOVABLE"
  /\ \A x \in Nodes \ (Dropped(Lowered(n)) \cup {n}) :
       node_status'[x] = node_status[x] /\ node_rank'[x] = node_rank[x]
  /\ \A m \in Ins : move_status'[m] # move_status[m]
                    => move_status[m] = "ACTIVE" /\ move_status'[m] = "COALESCABLE"

LEMMA RemoveChanges ==
  ASSUME ListInv, pc = "reduce", NEW n \in NextRemovable, Remove(n)
  PROVE  RemoveEffect(n)
  <1> DEFINE dropped == Dropped(Lowered(n))
             around  == dropped \cup UNION {RemainingAdjacent(x) \ {n} : x \in dropped}
             enabled == {m \in MovesWith("ACTIVE") : \E x \in around : moves_per_node[x][m] > 0}
             freeze  == {x \in dropped : HasRemainingMoves(x, move_status, moves_per_node)}
  <1>1. \A x \in dropped : x \in Nodes /\ x # n /\ node_status[x] = "SPILLABLE"
    BY DroppedAreSpillable
  <1>2. n \in Nodes
    BY DEF NextRemovable, Front, NodesWith
  <1>3. /\ node_degrees' = [x \in Nodes |->
             IF x \in Lowered(n) THEN node_degrees[x] - 1 ELSE node_degrees[x]]
        /\ node_status' = [x \in Nodes |->
             IF x = n THEN "SELECTED"
             ELSE IF x \in freeze THEN "FREEZEABLE"
             ELSE IF x \in dropped THEN "REMOVABLE"
             ELSE node_status[x]]
        /\ node_rank' = Stamp(node_rank, dropped \cup {n}, clock)
        /\ move_status' = Become(move_status, enabled, "COALESCABLE")
        /\ clock' = clock + 1
        /\ UNCHANGED <<liveness, pc, adjacent, moves_per_node, group, colors, prespilled>>
    BY <1>1 DEF Remove, Lowered
  <1>4. \A m \in Ins : move_status'[m] # move_status[m]
                      => move_status[m] = "ACTIVE" /\ move_status'[m] = "COALESCABLE"
    BY <1>3 DEF Become, MovesWith, ListInv, TypeInv, TypeOK
  <1>5. \A x \in Nodes : node_rank'[x] = IF x \in dropped \cup {n} THEN clock ELSE node_rank[x]
    BY <1>3 DEF Stamp, ListInv, TypeInv, TypeOK
  <1>6. \A x \in dropped : x \in freeze <=> HasMovesLeft(x)
    BY HasMoves
  <1> HIDE DEF dropped, freeze, enabled, around
  <1>7. \A x \in dropped : node_status'[x] = IF HasMovesLeft(x) THEN "FREEZEABLE" ELSE "REMOVABLE"
    BY <1>1, <1>3, <1>6
  <1>8. \A x \in Nodes \ (dropped \cup {n}) : node_status'[x] = node_status[x]
    BY <1>3 DEF freeze
  <1>9. /\ node_status'[n] = "SELECTED"
        /\ \A x \in Nodes :
              node_degrees'[x] = IF x \in Lowered(n) THEN node_degrees[x] - 1 ELSE node_degrees[x]
    BY <1>2, <1>3
  <1> QED
    BY <1>1, <1>2, <1>3, <1>4, <1>5, <1>7, <1>8, <1>9 DEF dropped, RemoveEffect

LEMMA ListRemoveOne == ListInv /\ RemoveOne => ListInv'
  <1> SUFFICES ASSUME ListInv, pc = "reduce", NEW n \in NextRemovable, Remove(n) PROVE ListInv'
    BY DEF RemoveOne
  <1> DEFINE dropped == Dropped(Lowered(n))
  <1>1. /\ n \in Nodes /\ node_status[n] = "REMOVABLE"
        /\ \A y \in Nodes : node_status[y] = "REMOVABLE" => node_rank[n] <= node_rank[y]
    BY DEF NextRemovable, Front, NodesWith
  <1>2. \A x \in dropped : /\ x \in Nodes /\ x # n /\ node_status[x] = "SPILLABLE"
                            /\ x \in Lowered(n) /\ node_degrees[x] = colorcount
    BY DroppedAreSpillable DEF Dropped
  <1>3. /\ UNCHANGED <<liveness, pc, adjacent, moves_per_node, group, colors, prespilled>>
        /\ clock' = clock + 1
        /\ node_status'[n] = "SELECTED" /\ node_rank'[n] = clock
        /\ \A x \in Nodes :
             node_degrees'[x] = IF x \in Lowered(n) THEN node_degrees[x] - 1 ELSE node_degrees[x]
        /\ \A x \in dropped :
             /\ node_rank'[x] = clock
             /\ node_status'[x] = IF HasMovesLeft(x) THEN "FREEZEABLE" ELSE "REMOVABLE"
        /\ \A x \in Nodes \ (dropped \cup {n}) :
             node_status'[x] = node_status[x] /\ node_rank'[x] = node_rank[x]
        /\ \A m \in Ins : move_status'[m] # move_status[m]
                          => move_status[m] = "ACTIVE" /\ move_status'[m] = "COALESCABLE"
    BY RemoveChanges DEF RemoveEffect
  <1>4. TypeInv'
    BY TypeRemoveOne DEF ListInv, RemoveOne
  <1>5. \A x \in Nodes : x \in Lowered(n) /\ node_degrees[x] = colorcount => x \in dropped
    BY DEF Dropped
  <1> HIDE DEF dropped
  <1>6. \A m \in Ins : Remaining(m)' <=> Remaining(m)
    BY <1>3 DEF Remaining
  <1>7. \A m \in Ins : MoveGroups(m)' = MoveGroups(m)
    BY <1>3 DEF MoveGroups
  <1>8. \A x \in Nodes : HasMovesLeft(x)' <=> HasMovesLeft(x)
    BY <1>3, <1>6 DEF HasMovesLeft, Remaining
  <1>9. \A x \in Nodes : /\ InGraph(x)' <=> InGraph(x) /\ x # n
                         /\ node_status'[x] = "PRECOLORED" <=> node_status[x] = "PRECOLORED"
                         /\ node_status'[x] = "COALESCED" <=> node_status[x] = "COALESCED"
    BY <1>1, <1>2, <1>3 DEF InGraph
  <1>10. GroupsFlat' /\ MachineKept' /\ Symmetric' /\ ListAssertsHold'
    BY <1>3, <1>9 DEF ListInv, GroupsFlat, MachineKept, Symmetric, ListAssertsHold, Precolored
  <1>11. CoalescedTogether'
    BY <1>3 DEF ListInv, CoalescedTogether
  <1>12. \A x \in Nodes : node_rank[x] \in Nat /\ clock \in Nat /\ node_rank[x] < clock
    BY DEF ListInv, TypeInv, TypeOK, RanksPast
  <1>13. RanksPast'
    BY <1>2, <1>3, <1>12 DEF RanksPast
  <1>14. StatusOfPhase'
    BY <1>3, <1>9 DEF ListInv, StatusOfPhase, InGraph
  <1>15. \A m \in Ins : Remaining(m) => n \notin MoveGroups(m)
    BY <1>1 DEF ListInv, MovesListed, WorklistsExact, HasMovesLeft, Remaining
  <1>16. MovesListed'
    BY <1>3, <1>6, <1>7, <1>9, <1>15, RemainingMove
       DEF ListInv, MovesListed, Remaining
  <1>17. ListsExact'
    BY <1>3, <1>6, <1>7, <1>9 DEF ListInv, ListsExact
  <1>18. \A x \in Nodes : node_degrees[x] \in Int /\ node_degrees'[x] \in Int
    BY <1>3 DEF ListInv, TypeInv, TypeOK
  <1>19. WorklistsExact'
    <2> SUFFICES ASSUME NEW x \in Nodes
                 PROVE  /\ node_status'[x] = "SPILLABLE" => node_degrees'[x] >= colorcount
                        /\ node_status'[x] = "FREEZEABLE" => node_degrees'[x] < colorcount
                                                           /\ HasMovesLeft(x)
                        /\ node_status'[x] = "REMOVABLE" =>
                             ~ HasMovesLeft(x)
                             /\ (node_degrees'[x] < colorcount \/ x \in prespilled)
      BY <1>3, <1>8 DEF WorklistsExact
    <2>1. CASE x = n
      BY <1>3, <2>1
    <2>2. CASE x \in dropped
      BY <1>2, <1>3, <1>18, <2>2, CountsAssumption
    <2>3. CASE x \notin dropped /\ x # n
      BY <1>3, <1>5, <1>18, <2>3, CountsAssumption DEF ListInv, WorklistsExact
    <2> QED
      BY <2>1, <2>2, <2>3
  <1>20. HighFirst'
    <2> SUFFICES ASSUME NEW x \in Nodes, NEW y \in Nodes, node_status'[x] = "REMOVABLE",
                        node_status'[y] = "REMOVABLE", node_degrees'[x] >= colorcount, x # y
                 PROVE  FALSE
      BY DEF HighFirst, NodesWith
    <2>1. x \notin dropped /\ x # n
      BY <1>2, <1>3, <1>18, CountsAssumption
    <2>2. node_status[x] = "REMOVABLE" /\ node_degrees[x] >= colorcount
      BY <1>3, <1>18, <2>1, CountsAssumption
    <2>3. node_rank[x] < node_rank[n]
      BY <1>1, <2>1, <2>2 DEF ListInv, HighFirst, NodesWith
    <2> QED
      BY <1>1, <1>12, <2>2, <2>3
  <1> QED
    BY <1>4, <1>10, <1>11, <1>13, <1>14, <1>16, <1>17, <1>19, <1>20 DEF ListInv

------------------------------------------------------------------------------
(* What coalesce_one may rely on: the move is left, its two groups are in the graph. *)
LEMMA CoalescingMove ==
  ASSUME ListInv, NEW m \in Ins, Coalescing(m)
  PROVE  /\ pc = "reduce" /\ NodesWith("REMOVABLE") = {} /\ Remaining(m)
         /\ move_status[m] = "COALESCABLE"
         /\ IsMove(liveness, m)
         /\ Src(liveness, m) \in Nodes /\ Dst(liveness, m) \in Nodes
         /\ MoveGroups(m) \subseteq Nodes
         /\ MoveGroups(m) = {Ends(m)[1], Ends(m)[2]}
         /\ \A r \in MoveGroups(m) : InGraph(r) /\ moves_per_node[r][m] > 0
  <1>1. /\ pc = "reduce" /\ NodesWith("REMOVABLE") = {} /\ move_status[m] = "COALESCABLE"
    BY DEF Coalescing, NextMove, Front, MovesWith
  <1>2. MoveGroups(m) = {Ends(m)[1], Ends(m)[2]}
    BY DEF MoveGroups, Ends
  <1> QED
    BY <1>1, <1>2, RemainingMove DEF ListInv, MovesListed, Remaining

(* What dropping a move without a combination changes; s is the new status of the move. *)
UnfreezeEffect(m, s) ==
  /\ UNCHANGED <<liveness, pc, adjacent, node_degrees, moves_per_node, group, colors,
                 prespilled>>
  /\ clock' = clock + 2
  /\ \A k \in Ins : move_status'[k] = IF k = m THEN s ELSE move_status[k]
  /\ \A x \in Nodes :
       \/ /\ node_status'[x] = node_status[x] /\ node_rank'[x] = node_rank[x]
          /\ x \in MoveGroups(m) /\ node_status[x] = "FREEZEABLE" => HasMovesLeft(x)'
       \/ /\ node_status'[x] = "REMOVABLE" /\ node_status[x] = "FREEZEABLE"
          /\ node_rank'[x] \in {clock, clock + 1}
          /\ x \in MoveGroups(m) /\ ~ HasMovesLeft(x)'

(****************************************************************************)
(* A move that is dropped without a combination.  Each of its groups that   *)
(* is left without moves is freezeable or spillable, so the assert of       *)
(* possiblyUnfreeze holds.                                                  *)
(****************************************************************************)
LEMMA UnfreezeChanges ==
  ASSUME ListInv, NEW m \in Ins, Coalescing(m), NEW n1, NEW n2, MoveGroups(m) = {n1, n2},
         NEW s \in {"COALESCED", "CONSTRAINED"},
         UnfreezeAfter(n1, n2, [move_status EXCEPT ![m] = s])
  PROVE  UnfreezeEffect(m, s)
  <1> DEFINE mstatus == [move_status EXCEPT ![m] = s]
             unfrozen ==
               {n \in {n1, n2} : Unfreezes(n, node_status, node_degrees, mstatus, moves_per_node)}
  <1> USE DEF ListInv, TypeInv, TypeOK
  <1>1. n1 \in Nodes /\ n2 \in Nodes /\ pc = "reduce" /\ NodesWith("REMOVABLE") = {}
        /\ \A r \in {n1, n2} : InGraph(r)
    BY CoalescingMove
  <1>2. \A n \in unfrozen : /\ n \in Nodes /\ node_status[n] = "FREEZEABLE"
                            /\ ~ HasRemainingMoves(n, mstatus, moves_per_node)
    <2> SUFFICES ASSUME NEW n \in unfrozen
                 PROVE  /\ n \in Nodes /\ node_status[n] = "FREEZEABLE"
                        /\ ~ HasRemainingMoves(n, mstatus, moves_per_node)
      OBVIOUS
    <2>1. /\ n \in Nodes /\ InGraph(n) /\ node_status[n] # "PRECOLORED"
          /\ ~ HasRemainingMoves(n, mstatus, moves_per_node) /\ node_degrees[n] < colorcount
      BY <1>1 DEF Unfreezes
    <2>2. node_status[n] # "REMOVABLE"
      BY <1>1, <2>1 DEF NodesWith
    <2>3. node_status[n] # "SPILLABLE"
      BY <1>1, <2>1, CountsAssumption DEF WorklistsExact
    <2> QED
      BY <2>1, <2>2, <2>3 DEF InGraph
  <1>3. /\ node_status' = Become(node_status, unfrozen, "REMOVABLE")
        /\ node_rank' = Stamp(Stamp(node_rank, unfrozen \cap {n1}, clock),
                              unfrozen \ {n1}, clock + 1)
        /\ move_status' = mstatus
        /\ clock' = clock + 2
        /\ UNCHANGED <<liveness, pc, graph_vars, move_rank, moves_per_node, group, colors,
                       prespilled>>
    BY <1>2 DEF UnfreezeAfter
  <1>4. \A x \in Nodes : HasMovesLeft(x)' <=> HasRemainingMoves(x, mstatus, moves_per_node)
    BY <1>3 DEF HasMovesLeft, HasRemainingMoves, RemainingMoves
  <1>5. \A x \in {n1, n2} : node_status[x] = "FREEZEABLE" /\ ~ HasMovesLeft(x)'
                             => x \in unfrozen
    BY <1>1, <1>4 DEF Unfreezes, WorklistsExact
  <1>6. \A x \in Nodes : node_status'[x] = IF x \in unfrozen THEN "REMOVABLE" ELSE node_status[x]
    BY <1>3 DEF Become
  <1>7. \A x \in Nodes : node_rank'[x] = IF x \in unfrozen \ {n1} THEN clock + 1
                                         ELSE IF x \in unfrozen THEN clock ELSE node_rank[x]
    <2> HIDE DEF unfrozen
    <2> QED
      BY <1>3 DEF Stamp
  <1>8. unfrozen \subseteq MoveGroups(m)
    OBVIOUS
  <1>9. \A k \in Ins : move_status'[k] = IF k = m THEN s ELSE move_status[k]
    BY <1>3
  <1>10. /\ UNCHANGED <<liveness, pc, adjacent, node_degrees, moves_per_node, group, colors,
                        prespilled>>
         /\ clock' = clock + 2
    BY <1>3 DEF graph_vars
  <1> HIDE DEF unfrozen, mstatus, ListInv, TypeInv, TypeOK
  <1>11. ASSUME NEW x \in Nodes
         PROVE  \/ /\ node_status'[x] = node_status[x] /\ node_rank'[x] = node_rank[x]
                   /\ x \in MoveGroups(m) /\ node_status[x] = "FREEZEABLE" => HasMovesLeft(x)'
                \/ /\ node_status'[x] = "REMOVABLE" /\ node_status[x] = "FREEZEABLE"
                   /\ node_rank'[x] \in {clock, clock + 1}
                   /\ x \in MoveGroups(m) /\ ~ HasMovesLeft(x)'
    <2>1. CASE x \in unfrozen
      BY <1>2, <1>4, <1>6, <1>7, <1>8, <2>1
    <2>2. CASE x \notin unfrozen
      BY <1>5, <1>6, <1>7, <2>2
    <2> QED
      BY <2>1, <2>2
  <1> QED
    BY <1>9, <1>10, <1>11 DEF UnfreezeEffect

LEMMA ListUnfreezeAfter ==
  ASSUME ListInv, NEW m \in Ins, Coalescing(m), NEW n1, NEW n2, MoveGroups(m) = {n1, n2},
         NEW s \in {"COALESCED", "CONSTRAINED"}, s = "COALESCED" => n1 = n2,
         UnfreezeAfter(n1, n2, [move_status EXCEPT ![m] = s])
  PROVE  ListInv'
  <1>1. /\ UNCHANGED <<liveness, pc, adjacent, node_degrees, moves_per_node, group, colors,
                       prespilled>>
        /\ clock' = clock + 2
        /\ \A k \in Ins : move_status'[k] = IF k = m THEN s ELSE move_status[k]
        /\ \A x \in Nodes :
             \/ /\ node_status'[x] = node_status[x] /\ node_rank'[x] = node_rank[x]
                /\ x \in MoveGroups(m) /\ node_status[x] = "FREEZEABLE" => HasMovesLeft(x)'
             \/ /\ node_status'[x] = "REMOVABLE" /\ node_status[x] = "FREEZEABLE"
                /\ node_rank'[x] \in {clock, clock + 1}
                /\ x \in MoveGroups(m) /\ ~ HasMovesLeft(x)'
    BY UnfreezeChanges DEF UnfreezeEffect
  <1>2. /\ pc = "reduce" /\ NodesWith("REMOVABLE") = {}
        /\ IsMove(liveness, m) /\ MoveGroups(m) \subseteq Nodes
        /\ \A r \in MoveGroups(m) : InGraph(r)
    BY CoalescingMove
  <1>3. TypeInv'
    BY <1>2, TypeUnfreezeAfter DEF ListInv, MoveStatus
  <1>4. \A k \in Ins : Remaining(k)' <=> Remaining(k) /\ k # m
    BY <1>1, CoalescingMove DEF Remaining
  <1>5. \A k \in Ins : MoveGroups(k)' = MoveGroups(k)
    BY <1>1 DEF MoveGroups
  <1>6. \A x \in Nodes : /\ InGraph(x)' <=> InGraph(x)
                         /\ node_status'[x] = "PRECOLORED" <=> node_status[x] = "PRECOLORED"
                         /\ node_status'[x] = "COALESCED" <=> node_status[x] = "COALESCED"
    BY <1>1 DEF InGraph
  <1>7. GroupsFlat' /\ MachineKept' /\ Symmetric' /\ ListAssertsHold'
    BY <1>1, <1>6 DEF ListInv, GroupsFlat, MachineKept, Symmetric, ListAssertsHold, Precolored
  <1>8. CoalescedTogether'
    <2>1. s = "COALESCED" => group[Src(liveness, m)] = group[Dst(liveness, m)]
      BY DEF MoveGroups
    <2> QED
      BY <1>1, <2>1 DEF ListInv, CoalescedTogether
  <1>9. RanksPast'
    <2>1. clock \in Nat /\ \A x \in Nodes : node_rank[x] \in Nat /\ node_rank[x] < clock
      BY DEF ListInv, TypeInv, TypeOK, RanksPast
    <2> QED
      BY <1>1, <2>1 DEF RanksPast
  <1>10. StatusOfPhase'
    BY <1>1, <1>2, <1>6 DEF ListInv, StatusOfPhase, InGraph
  <1>11. MovesListed' /\ ListsExact'
    BY <1>1, <1>2, <1>4, <1>5, <1>6, RemainingMove DEF ListInv, MovesListed, ListsExact, Remaining
  <1>12. \A x \in Nodes : node_degrees[x] \in Int
    BY DEF ListInv, TypeInv, TypeOK
  <1>13. ASSUME NEW x \in Nodes, node_status[x] = "FREEZEABLE", x \notin MoveGroups(m)
         PROVE  HasMovesLeft(x)'
    <2>1. PICK k \in Ins : moves_per_node[x][k] > 0 /\ Remaining(k)
      BY <1>2, <1>13 DEF ListInv, WorklistsExact, HasMovesLeft, Remaining
    <2>2. k # m
      BY <1>2, <1>13, <2>1 DEF ListInv, ListsExact, InGraph
    <2> QED
      BY <1>1, <1>4, <2>1, <2>2 DEF HasMovesLeft, Remaining
  <1>14. \A x \in Nodes : node_status[x] # "REMOVABLE"
    BY <1>2 DEF NodesWith
  <1>15. WorklistsExact'
    BY <1>1, <1>2, <1>12, <1>13, <1>14 DEF ListInv, WorklistsExact
  <1>16. HighFirst'
    BY <1>1, <1>2, <1>12, <1>14, CountsAssumption DEF ListInv, HighFirst, NodesWith, WorklistsExact
  <1> QED
    BY <1>3, <1>7, <1>8, <1>9, <1>10, <1>11, <1>15, <1>16 DEF ListInv

LEMMA ListCoalesceWithout ==
  ASSUME ListInv, NEW m \in Ins, CoalesceAgain(m) \/ CoalesceConstrained(m) \/ CoalesceAfraid(m)
  PROVE  ListInv'
  <1>1. Coalescing(m)
    BY DEF CoalesceAgain, CoalesceConstrained, CoalesceAfraid
  <1>2. MoveGroups(m) = {Ends(m)[1], Ends(m)[2]}
    BY <1>1, CoalescingMove
  <1>3. CASE CoalesceAgain(m)
    BY <1>1, <1>2, <1>3, ListUnfreezeAfter DEF CoalesceAgain
  <1>4. CASE CoalesceConstrained(m)
    BY <1>1, <1>2, <1>4, ListUnfreezeAfter DEF CoalesceConstrained
  <1>5. CASE CoalesceAfraid(m)
    <2>1. TypeInv'
      BY <1>5, TypeCoalesceOne DEF CoalesceOne, ListInv
    <2>2. /\ UNCHANGED <<liveness, pc, adjacent, node_degrees, node_status, node_rank,
                         moves_per_node, clock, group, prespilled>>
          /\ \A k \in Ins : move_status'[k] = IF k = m THEN "ACTIVE" ELSE move_status[k]
      BY <1>5 DEF CoalesceAfraid, AfraidStatus, graph_vars, node_vars, ListInv, TypeInv, TypeOK
    <2>3. /\ \A k \in Ins : Remaining(k)' <=> Remaining(k)
          /\ \A k \in Ins : MoveGroups(k)' = MoveGroups(k)
          /\ \A x \in Nodes : HasMovesLeft(x)' <=> HasMovesLeft(x)
          /\ pc = "reduce"
      BY <1>1, <2>2, CoalescingMove DEF Remaining, HasMovesLeft, MoveGroups
    <2>4. \A x \in Nodes : InGraph(x)' <=> InGraph(x)
      BY <2>2 DEF InGraph
    <2>5. CoalescedTogether' /\ StatusOfPhase'
      BY <2>2, <2>3, <2>4 DEF ListInv, CoalescedTogether, StatusOfPhase
    <2>6. MovesListed' /\ ListsExact'
      BY <2>2, <2>3, <2>4, RemainingMove DEF ListInv, MovesListed, ListsExact, Remaining
    <2>7. WorklistsExact' /\ HighFirst'
      BY <2>2, <2>3 DEF ListInv, WorklistsExact, HighFirst, NodesWith
    <2> QED
      BY <2>1, <2>2, <2>5, <2>6, <2>7
         DEF ListInv, GroupsFlat, MachineKept, RanksPast, Symmetric, ListAssertsHold, Precolored
  <1> QED
    BY <1>3, <1>4, <1>5

------------------------------------------------------------------------------
(* What a combination changes. *)
CombineEffect(m, remain, remove) ==
  /\ UNCHANGED <<liveness, pc, colors, prespilled>> /\ clock' = clock + 1
  /\ \A x \in Nodes : adjacent'[x] =
       IF x = remain THEN adjacent[x] \cup Gained(remain, remove)
       ELSE IF x \in Gained(remain, remove) THEN adjacent[x] \cup {remain}
       ELSE adjacent[x]
  /\ \A x \in Nodes : node_degrees'[x] =
       IF x = remain /\ node_status[x] # "PRECOLORED"
       THEN node_degrees[x] + Cardinality(Gained(remain, remove)) ELSE node_degrees[x]
  /\ \A x \in Nodes \ {remain, remove} :
       node_status'[x] = node_status[x] /\ node_rank'[x] = node_rank[x]
  /\ node_status'[remove] = "COALESCED" /\ node_rank'[remove] = node_rank[remove]
  /\ \/ node_status'[remain] = "PRECOLORED" /\ node_status[remain] = "PRECOLORED"
     \/ /\ node_status[remain] # "PRECOLORED"
        /\ \/ node_status'[remain] = "SPILLABLE" /\ node_degrees'[remain] >= colorcount
           \/ node_status'[remain] = "FREEZEABLE" /\ HasMovesLeft(remain)'
              /\ node_degrees'[remain] < colorcount
           \/ node_status'[remain] = "REMOVABLE" /\ ~ HasMovesLeft(remain)'
              /\ node_degrees'[remain] < colorcount
  /\ node_rank'[remain] \in {node_rank[remain], clock}
  /\ \A k \in Ins : move_status'[k] = IF k = m THEN "COALESCED" ELSE move_status[k]
  /\ \A x \in Nodes, k \in Ins : moves_per_node'[x][k] = moves_per_node[x][k] +
       IF x = remain /\ k # m /\ Remaining(k) THEN moves_per_node[remove][k] ELSE 0
  /\ \A x \in Nodes : group'[x] = IF group[x] = remove THEN remain ELSE group[x]

(****************************************************************************)
(* The node that is removed is freezeable or spillable, and the one that    *)
(* remains is thawed only when it is freezeable: the asserts of             *)
(* combineNodes and possiblyUnfreeze hold.                                  *)
(****************************************************************************)
LEMMA CombineChanges ==
  ASSUME ListInv, NEW m \in Ins, CoalesceCombine(m), NEW remain, NEW remove,
         remain = Ends(m)[1], remove = Ends(m)[2]
  PROVE  CombineEffect(m, remain, remove)
  <1> DEFINE gained  == Gained(remain, remove)
             mstatus == [move_status EXCEPT ![m] = "COALESCED"]
             degrees == ConnectedDegrees(remain, gained)
             nstatus == CombinedStatus(remain, remove, degrees)
             mpn     == JoinedMoves(remain, remove, mstatus)
             thaw    == {n \in {remain} : Unfreezes(n, nstatus, degrees, mstatus, mpn)}
  <1>1. /\ pc = "reduce" /\ NodesWith("REMOVABLE") = {}
        /\ remain \in Nodes /\ remove \in Nodes /\ remain # remove
        /\ InGraph(remain) /\ InGraph(remove) /\ ~ Constrained(remain, remove)
        /\ Combine(m, remain, remove)
    BY CoalescingMove DEF CoalesceCombine
  <1>2. gained \in SUBSET Nodes /\ Cardinality(gained) \in Nat
    <2>1. gained \in SUBSET Nodes
      BY <1>1 DEF Gained, RemainingAdjacent, ListInv, TypeInv, TypeOK
    <2> QED
      BY <2>1, NodesFinite
  <1>3. \A x \in Nodes : node_degrees[x] \in Int
    BY DEF ListInv, TypeInv, TypeOK
  <1>4. \A x \in Nodes : degrees[x] =
          IF x = remain /\ node_status[x] # "PRECOLORED"
          THEN node_degrees[x] + Cardinality(gained) ELSE node_degrees[x]
    BY <1>1 DEF ConnectedDegrees, ListInv, TypeInv, TypeOK
  <1> HIDE DEF gained
  <1>5. node_status[remove] \in {"FREEZEABLE", "SPILLABLE"}
    BY <1>1 DEF Constrained, InGraph, NodesWith
  <1>6. node_status[remain] \in {"PRECOLORED", "FREEZEABLE", "SPILLABLE"}
    BY <1>1 DEF InGraph, NodesWith
  <1> HIDE DEF degrees
  <1>7. nstatus[remain] = IF node_status[remain] = "FREEZEABLE" /\ degrees[remain] >= colorcount
                          THEN "SPILLABLE" ELSE node_status[remain]
    BY <1>1 DEF CombinedStatus
  <1>8. \A x \in Nodes \ {remain} : nstatus[x] = IF x = remove THEN "COALESCED" ELSE node_status[x]
    BY DEF CombinedStatus
  <1>9. degrees[remain] \in Int /\ (degrees[remain] < colorcount => nstatus[remain] # "SPILLABLE")
    BY <1>1, <1>2, <1>3, <1>4, <1>7, CountsAssumption DEF ListInv, WorklistsExact
  <1>10. remain \in thaw <=> /\ nstatus[remain] # "PRECOLORED"
                             /\ ~ HasRemainingMoves(remain, mstatus, mpn)
                             /\ degrees[remain] < colorcount
    BY DEF Unfreezes
  <1>11. thaw \subseteq {remain} /\ (remain \in thaw => nstatus[remain] = "FREEZEABLE")
    BY <1>6, <1>7, <1>9, <1>10
  <1>12. /\ adjacent' = ConnectedGraph(remain, gained)
         /\ node_degrees' = degrees
         /\ node_status' = Become(nstatus, thaw, "REMOVABLE")
         /\ node_rank' =
              Stamp(node_rank, {n \in {remain} : node_status'[n] # node_status[n]}, clock)
         /\ move_status' = mstatus
         /\ moves_per_node' = mpn
         /\ group' = [x \in Nodes |-> IF group[x] = remove THEN remain ELSE group[x]]
         /\ clock' = clock + 1
         /\ UNCHANGED <<liveness, pc, colors, prespilled>>
    <2> HIDE DEF mstatus, nstatus, mpn, thaw
    <2>1. ~ (\E n \in thaw : nstatus[n] # "FREEZEABLE")
      BY <1>11
    <2> QED
      BY <1>1, <1>5, <2>1 DEF Combine, gained, mstatus, degrees, nstatus, mpn, thaw
  <1>13. DOMAIN nstatus = Nodes
    BY DEF CombinedStatus
  <1>14. /\ \A k \in Ins : mstatus[k] = IF k = m THEN "COALESCED" ELSE move_status[k]
         /\ \A x \in Nodes : node_rank[x] \in Nat /\ DOMAIN node_rank = Nodes
    BY DEF ListInv, TypeInv, TypeOK
  <1>15. \A x \in Nodes, k \in Ins : moves_per_node[x][k] \in Nat
    BY DEF ListInv, TypeInv, TypeOK
  <1>16. \A x \in Nodes, k \in Ins : mpn[x][k] = moves_per_node[x][k] +
              IF x = remain /\ k # m /\ Remaining(k) THEN moves_per_node[remove][k] ELSE 0
    <2> HIDE DEF mstatus
    <2> QED
      BY <1>1, <1>14, <1>15 DEF JoinedMoves, RemainingMoves, Remaining
  <1>17. HasMovesLeft(remain)' <=> HasRemainingMoves(remain, mstatus, mpn)
    <2> HIDE DEF mstatus, mpn
    <2> QED
      BY <1>1, <1>12 DEF HasMovesLeft, HasRemainingMoves, RemainingMoves
  <1> HIDE DEF mstatus, mpn, nstatus, thaw
  <1>18. \A x \in Nodes : node_status'[x] = IF x \in thaw THEN "REMOVABLE" ELSE nstatus[x]
    BY <1>12, <1>13 DEF Become
  <1>19. \A x \in Nodes : node_rank'[x] =
           IF x = remain /\ node_status'[x] # node_status[x] THEN clock ELSE node_rank[x]
    BY <1>12, <1>14 DEF Stamp
  <1>20. \/ node_status'[remain] = "PRECOLORED" /\ node_status[remain] = "PRECOLORED"
         \/ /\ node_status[remain] # "PRECOLORED"
            /\ \/ node_status'[remain] = "SPILLABLE" /\ degrees[remain] >= colorcount
               \/ node_status'[remain] = "FREEZEABLE" /\ HasMovesLeft(remain)'
                  /\ degrees[remain] < colorcount
               \/ node_status'[remain] = "REMOVABLE" /\ ~ HasMovesLeft(remain)'
                  /\ degrees[remain] < colorcount
    BY <1>1, <1>6, <1>7, <1>9, <1>10, <1>11, <1>17, <1>18, CountsAssumption
  <1>21. \A x \in Nodes : adjacent'[x] = IF x = remain THEN adjacent[x] \cup gained
                                         ELSE IF x \in gained THEN adjacent[x] \cup {remain}
                                         ELSE adjacent[x]
    BY <1>12 DEF ConnectedGraph
  <1>22. \A x \in Nodes : group'[x] = IF group[x] = remove THEN remain ELSE group[x]
    BY <1>12
  <1>23. \A x \in Nodes \ {remain, remove} :
              node_status'[x] = node_status[x] /\ node_rank'[x] = node_rank[x]
    BY <1>8, <1>11, <1>18, <1>19
  <1>24. /\ node_status'[remove] = "COALESCED" /\ node_rank'[remove] = node_rank[remove]
         /\ node_rank'[remain] \in {node_rank[remain], clock}
    BY <1>1, <1>8, <1>11, <1>18, <1>19
  <1>25. \A k \in Ins : move_status'[k] = IF k = m THEN "COALESCED" ELSE move_status[k]
    BY <1>12, <1>14
  <1>26. \A x \in Nodes, k \in Ins : moves_per_node'[x][k] = moves_per_node[x][k] +
              IF x = remain /\ k # m /\ Remaining(k) THEN moves_per_node[remove][k] ELSE 0
    BY <1>12, <1>16
  <1>27. \A x \in Nodes : node_degrees'[x] =
              IF x = remain /\ node_status[x] # "PRECOLORED"
              THEN node_degrees[x] + Cardinality(gained) ELSE node_degrees[x]
    BY <1>4, <1>12
  <1> QED
    BY <1>12, <1>20, <1>21, <1>22, <1>23, <1>24, <1>25, <1>26, <1>27 DEF gained, CombineEffect

(* The edges of the graph after a combination. *)
CombinedEdges(remain, remove) ==
  \A x \in Nodes : \A y :
    y \in adjacent'[x] <=>
      \/ y \in adjacent[x]
      \/ x = remain /\ y \in Gained(remain, remove)
      \/ x \in Gained(remain, remove) /\ y = remain

LEMMA CombinedEdgesHold ==
  ASSUME ListInv, NEW m \in Ins, CoalesceCombine(m), NEW remain, NEW remove,
         remain = Ends(m)[1], remove = Ends(m)[2]
  PROVE  CombinedEdges(remain, remove)
  <1>1. CombineEffect(m, remain, remove)
    BY CombineChanges
  <1>2. remain \notin Gained(remain, remove)
    <2>1. remain \in Nodes /\ remove \in Nodes /\ remove \notin adjacent[remain]
      BY CoalescingMove DEF CoalesceCombine, Constrained
    <2> QED
      BY <2>1 DEF Gained, RemainingAdjacent, ListInv, Symmetric
  <1> SUFFICES ASSUME NEW x \in Nodes, NEW y
               PROVE  y \in adjacent'[x] <=>
                        \/ y \in adjacent[x]
                        \/ x = remain /\ y \in Gained(remain, remove)
                        \/ x \in Gained(remain, remove) /\ y = remain
    BY DEF CombinedEdges
  <1>3. CASE x = remain
    <2>1. adjacent'[x] = adjacent[x] \cup Gained(remain, remove)
      BY <1>1, <1>3 DEF CombineEffect
    <2> QED
      BY <1>2, <1>3, <2>1
  <1>4. CASE x # remain /\ x \in Gained(remain, remove)
    <2>1. adjacent'[x] = adjacent[x] \cup {remain}
      BY <1>1, <1>4 DEF CombineEffect
    <2> QED
      BY <1>4, <2>1
  <1>5. CASE x # remain /\ x \notin Gained(remain, remove)
    BY <1>1, <1>5 DEF CombineEffect
  <1> QED
    BY <1>3, <1>4, <1>5

LEMMA ListCoalesceCombine ==
  ASSUME ListInv, NEW m \in Ins, CoalesceCombine(m)
  PROVE  ListInv'
  <1> SUFFICES ASSUME NEW remain, NEW remove, remain = Ends(m)[1], remove = Ends(m)[2]
               PROVE  ListInv'
    OBVIOUS
  <1>1. CombineEffect(m, remain, remove)
    BY CombineChanges
  <1>2. /\ pc = "reduce" /\ NodesWith("REMOVABLE") = {} /\ IsMove(liveness, m)
        /\ remain \in Nodes /\ remove \in Nodes /\ remain # remove
        /\ MoveGroups(m) = {remain, remove}
        /\ InGraph(remain) /\ InGraph(remove) /\ ~ Constrained(remain, remove)
    BY CoalescingMove DEF CoalesceCombine, Coalescing
  <1>3. TypeInv'
    BY TypeCoalesceOne DEF CoalesceOne, ListInv
  <1>4. \A k \in Ins : Remaining(k)' <=> Remaining(k) /\ k # m
    BY <1>1, CoalescingMove DEF Remaining, CombineEffect
  <1>5. \A k \in Ins : move_status[k] # "UNPROCESSED" =>
          MoveGroups(k)' = {IF r = remove THEN remain ELSE r : r \in MoveGroups(k)}
    <2>1. ASSUME NEW k \in Ins, move_status[k] # "UNPROCESSED"
          PROVE  /\ group'[Src(liveness, k)] = IF group[Src(liveness, k)] = remove THEN remain
                                               ELSE group[Src(liveness, k)]
                 /\ group'[Dst(liveness, k)] = IF group[Dst(liveness, k)] = remove THEN remain
                                               ELSE group[Dst(liveness, k)]
                 /\ liveness' = liveness
      BY <1>1, <2>1, RemainingMove DEF CombineEffect, ListInv
    <2> QED
      BY <2>1 DEF MoveGroups
  <1>6. \A x \in Nodes : /\ InGraph(x)' <=> InGraph(x) /\ x # remove
                         /\ node_status'[x] = "PRECOLORED" <=> node_status[x] = "PRECOLORED"
                         /\ node_status'[x] = "COALESCED" <=> node_status[x] = "COALESCED" \/ x = remove
    BY <1>1, <1>2 DEF InGraph, CombineEffect, Constrained
  <1>7. group[remain] = remain /\ group[remove] = remove
    BY <1>2 DEF ListInv, GroupsFlat, InGraph
  <1>8. GroupsFlat' /\ MachineKept' /\ ListAssertsHold'
    BY <1>1, <1>2, <1>6, <1>7
       DEF ListInv, GroupsFlat, MachineKept, ListAssertsHold, Precolored, CombineEffect, TypeInv,
           TypeOK
  <1>9. CoalescedTogether'
    <2> SUFFICES ASSUME NEW k \in Ins, move_status'[k] = "COALESCED"
                 PROVE  group'[Src(liveness, k)] = group'[Dst(liveness, k)]
      BY <1>1 DEF CoalescedTogether, CombineEffect
    <2>1. Src(liveness, k) \in Nodes /\ Dst(liveness, k) \in Nodes
      BY <1>1, <1>2, RemainingMove, MoveEnds DEF CombineEffect, ListInv, TypeInv, InputKnown
    <2>2. CASE k = m
      BY <1>1, <1>2, <2>1, <2>2 DEF CombineEffect, MoveGroups
    <2>3. CASE k # m
      BY <1>1, <2>1, <2>3 DEF CombineEffect, ListInv, CoalescedTogether
    <2> QED
      BY <2>2, <2>3
  <1>10. RanksPast'
    <2>1. clock \in Nat /\ \A x \in Nodes : node_rank[x] \in Nat /\ node_rank[x] < clock
      BY DEF ListInv, TypeInv, TypeOK, RanksPast
    <2> QED
      BY <1>1, <1>2, <2>1 DEF RanksPast, CombineEffect
  <1>11. StatusOfPhase'
    <2>1. pc' = "reduce"
      BY <1>1, <1>2 DEF CombineEffect
    <2>2. ASSUME NEW x \in Nodes
          PROVE  InGraph(x)' \/ node_status'[x] \in {"COALESCED", "SELECTED"}
      BY <1>1, <1>2, <1>6 DEF CombineEffect, ListInv, StatusOfPhase, InGraph
    <2> QED
      BY <2>1, <2>2 DEF StatusOfPhase
  <1>12. Symmetric'
    <2>1. remain \notin Gained(remain, remove) /\ Gained(remain, remove) \subseteq Nodes
      BY <1>2 DEF Gained, RemainingAdjacent, Constrained, ListInv, Symmetric, TypeInv, TypeOK
    <2>2. CombinedEdges(remain, remove)
      BY CombinedEdgesHold
    <2>3. ASSUME NEW x \in Nodes, NEW y \in Nodes, x \in adjacent'[y]
          PROVE  y \in adjacent'[x] /\ x # y
      <3>1. x \in adjacent[y] => y \in adjacent[x] /\ x # y
        BY DEF ListInv, Symmetric
      <3> QED
        BY <1>2, <2>1, <2>2, <2>3, <3>1 DEF CombinedEdges
    <2> QED
      BY <2>3 DEF Symmetric
  <1>13. \A x \in Nodes, k \in Ins : moves_per_node[x][k] \in Nat
    BY DEF ListInv, TypeInv, TypeOK
  <1>14. ASSUME NEW k \in Ins, Remaining(k), k # m
         PROVE  /\ \A r \in MoveGroups(k)' : InGraph(r)' /\ moves_per_node'[r][k] > 0
                /\ \A x \in Nodes : InGraph(x)' /\ moves_per_node'[x][k] > 0 => x \in MoveGroups(k)'
    <2>1. MoveGroups(k)' = {IF r = remove THEN remain ELSE r : r \in MoveGroups(k)}
          /\ MoveGroups(k) \subseteq Nodes
      BY <1>5, <1>14, RemainingMove DEF Remaining, ListInv
    <2>2. \A x \in Nodes : moves_per_node'[x][k] = moves_per_node[x][k] +
                             IF x = remain THEN moves_per_node[remove][k] ELSE 0
      BY <1>1, <1>14 DEF CombineEffect
    <2>3. \A r \in MoveGroups(k) : InGraph(r) /\ moves_per_node[r][k] > 0
      BY <1>2, <1>14 DEF ListInv, MovesListed
    <2>4. \A x \in Nodes : InGraph(x) /\ moves_per_node[x][k] > 0 => x \in MoveGroups(k)
      BY <1>2, <1>14 DEF ListInv, ListsExact
    <2>5. ASSUME NEW r \in MoveGroups(k)
          PROVE  LET q == IF r = remove THEN remain ELSE r
                 IN InGraph(q)' /\ moves_per_node'[q][k] > 0
      <3>1. r \in Nodes
        BY <2>1
      <3>2. CASE r = remove
        BY <1>2, <1>6, <1>13, <2>2, <2>3, <3>2
      <3>3. CASE r # remove
        BY <1>2, <1>6, <1>13, <2>2, <2>3, <3>1, <3>3
      <3> QED
        BY <3>2, <3>3
    <2>6. ASSUME NEW x \in Nodes, InGraph(x)', moves_per_node'[x][k] > 0
          PROVE  x \in MoveGroups(k)'
      <3>1. InGraph(x) /\ x # remove
        BY <1>6, <2>6
      <3>2. moves_per_node[x][k] > 0 \/ (x = remain /\ moves_per_node[remove][k] > 0)
        BY <1>2, <1>13, <2>2, <2>6
      <3>3. x \in MoveGroups(k) \/ (x = remain /\ remove \in MoveGroups(k))
        BY <1>2, <2>4, <3>1, <3>2
      <3> QED
        BY <2>1, <3>1, <3>3
    <2> QED
      BY <2>1, <2>5, <2>6
  <1>15. MovesListed' /\ ListsExact'
    BY <1>4, <1>14 DEF MovesListed, ListsExact
  <1>16. \A x \in Nodes : node_degrees[x] \in Int /\ node_degrees'[x] \in Int
    BY <1>3 DEF ListInv, TypeInv, TypeOK
  <1>17. ASSUME NEW x \in Nodes \ {remain, remove}, node_status[x] = "FREEZEABLE"
         PROVE  HasMovesLeft(x)'
    <2>1. PICK k \in Ins : moves_per_node[x][k] > 0 /\ Remaining(k)
      BY <1>2, <1>17 DEF ListInv, WorklistsExact, HasMovesLeft, Remaining
    <2>2. k # m
      BY <1>2, <1>17, <2>1 DEF ListInv, ListsExact, InGraph
    <2> QED
      BY <1>1, <1>4, <1>13, <2>1, <2>2 DEF HasMovesLeft, Remaining, CombineEffect
  <1>18. \A x \in Nodes : node_status[x] # "REMOVABLE"
    BY <1>2 DEF NodesWith
  <1>19. WorklistsExact'
    <2> SUFFICES ASSUME NEW x \in Nodes
                 PROVE  /\ node_status'[x] = "SPILLABLE" => node_degrees'[x] >= colorcount
                        /\ node_status'[x] = "FREEZEABLE" => node_degrees'[x] < colorcount
                                                           /\ HasMovesLeft(x)'
                        /\ node_status'[x] = "REMOVABLE" =>
                             ~ HasMovesLeft(x)' /\ node_degrees'[x] < colorcount
      BY DEF WorklistsExact
    <2>1. CASE x = remove
      BY <1>1, <2>1 DEF CombineEffect
    <2>2. CASE x = remain
      BY <1>1, <2>2 DEF CombineEffect
    <2>3. CASE x \notin {remain, remove}
      BY <1>1, <1>2, <1>17, <1>18, <2>3 DEF CombineEffect, ListInv, WorklistsExact
    <2> QED
      BY <2>1, <2>2, <2>3
  <1>20. HighFirst'
    <2>1. \A x \in Nodes : node_status'[x] = "REMOVABLE" => node_degrees'[x] < colorcount
      BY <1>1, <1>18 DEF CombineEffect
    <2> QED
      BY <1>16, <2>1, CountsAssumption DEF HighFirst, NodesWith
  <1> QED
    BY <1>3, <1>8, <1>9, <1>10, <1>11, <1>12, <1>15, <1>19, <1>20 DEF ListInv

LEMMA ListCoalesceOne == ListInv /\ CoalesceOne => ListInv'
  BY ListCoalesceWithout, ListCoalesceCombine DEF CoalesceOne

------------------------------------------------------------------------------
(* The moves freezeMoves(n) gives up, and what that changes. *)
MovesLeftOf(n) == RemainingMoves(n, move_status, moves_per_node)

GiveUpEffect(n, chosen) ==
  /\ UNCHANGED <<liveness, pc, adjacent, node_degrees, moves_per_node, group, colors>>
  /\ clock' = clock + 2 /\ prespilled' = chosen
  /\ \A k \in Ins : move_status'[k] = IF k \in MovesLeftOf(n) THEN "FROZEN" ELSE move_status[k]
  /\ node_status'[n] = "REMOVABLE" /\ node_rank'[n] = clock
  /\ \A x \in Nodes \ {n} :
       \/ /\ node_status'[x] = node_status[x] /\ node_rank'[x] = node_rank[x]
          /\ \A k \in MovesLeftOf(n) :
               x = Partner(n, k) /\ node_status[x] = "FREEZEABLE" => HasMovesLeft(x)'
       \/ /\ node_status'[x] = "REMOVABLE" /\ node_status[x] = "FREEZEABLE"
          /\ node_rank'[x] = clock + 1 /\ ~ HasMovesLeft(x)'

(* A move that n gives up is between the group of n and its partner. *)
LEMMA PartnerIsOther ==
  ASSUME ListInv, pc = "reduce", NEW n \in Nodes, InGraph(n), NEW k \in MovesLeftOf(n)
  PROVE  /\ k \in Ins /\ Remaining(k) /\ moves_per_node[n][k] > 0
         /\ Partner(n, k) \in Nodes /\ MoveGroups(k) = {n, Partner(n, k)}
  <1>1. k \in Ins /\ Remaining(k) /\ moves_per_node[n][k] > 0
    BY DEF MovesLeftOf, RemainingMoves, Remaining
  <1>2. n \in MoveGroups(k) /\ MoveGroups(k) \subseteq Nodes
    BY <1>1, RemainingMove DEF ListInv, ListsExact, Remaining
  <1>3. group[n] = n
    BY DEF ListInv, GroupsFlat, InGraph
  <1> QED
    BY <1>1, <1>2, <1>3 DEF MoveGroups, Partner

LEMMA GiveUpChanges ==
  ASSUME ListInv, pc = "reduce", NEW n \in Nodes, InGraph(n), NEW chosen \in SUBSET Nodes,
         GiveUpMoves(n, chosen), ~ Abort("freezeMoves830"), ~ Abort("freezeMoves834")
  PROVE  GiveUpEffect(n, chosen)
  <1> DEFINE moves   == MovesLeftOf(n)
             mstatus == Become(move_status, moves, "FROZEN")
             nstatus == [node_status EXCEPT ![n] = "REMOVABLE"]
             released == {p \in {Partner(n, m) : m \in moves} :
                           Unfreezes(p, nstatus, node_degrees, mstatus, moves_per_node)}
  <1> USE DEF ListInv, TypeInv, TypeOK
  <1>1. /\ move_status' = mstatus
        /\ node_status' = Become(nstatus, released, "REMOVABLE")
        /\ node_rank' = [Stamp(node_rank, released, clock + 1) EXCEPT ![n] = clock]
        /\ clock' = clock + 2
        /\ prespilled' = chosen
        /\ UNCHANGED <<liveness, pc, graph_vars, move_rank, moves_per_node, group, colors>>
        /\ \A p \in released : nstatus[p] = "FREEZEABLE"
    BY DEF GiveUpMoves, MovesLeftOf
  <1>2. \A x \in Nodes : nstatus[x] = IF x = n THEN "REMOVABLE" ELSE node_status[x]
    OBVIOUS
  <1>3. \A k \in Ins : mstatus[k] = IF k \in moves THEN "FROZEN" ELSE move_status[k]
    BY DEF Become
  <1>4. \A x \in Nodes : HasMovesLeft(x)' <=> HasRemainingMoves(x, mstatus, moves_per_node)
    BY <1>1 DEF HasMovesLeft, HasRemainingMoves, RemainingMoves
  <1>5. \A x \in Nodes : Unfreezes(x, nstatus, node_degrees, mstatus, moves_per_node) <=>
          nstatus[x] # "PRECOLORED" /\ ~ HasMovesLeft(x)' /\ node_degrees[x] < colorcount
    BY <1>4 DEF Unfreezes
  <1>6. \A k \in moves : Partner(n, k) \in Nodes
    BY PartnerIsOther
  <1>7. \A x \in released : /\ x \in Nodes /\ x # n /\ node_status[x] = "FREEZEABLE"
                            /\ ~ HasMovesLeft(x)'
    <2>1. \A x \in released : x \in Nodes /\ ~ HasMovesLeft(x)'
      BY <1>5, <1>6
    <2> HIDE DEF released, nstatus
    <2> QED
      BY <1>1, <1>2, <2>1
  <1>8. ASSUME NEW x \in Nodes, NEW k \in moves, x = Partner(n, k), x # n,
               node_status[x] = "FREEZEABLE", ~ HasMovesLeft(x)'
        PROVE  x \in released
    <2>1. node_degrees[x] < colorcount
      BY <1>8 DEF WorklistsExact
    <2> QED
      BY <1>2, <1>5, <1>8, <2>1
  <1>9. DOMAIN nstatus = Nodes
    OBVIOUS
  <1> HIDE DEF moves, mstatus, nstatus, released
  <1>10. \A x \in Nodes : node_status'[x] = IF x \in released THEN "REMOVABLE" ELSE nstatus[x]
    BY <1>1, <1>9 DEF Become
  <1>11. \A x \in Nodes : node_rank'[x] = IF x = n THEN clock
                                          ELSE IF x \in released THEN clock + 1 ELSE node_rank[x]
    <2> DEFINE rank == Stamp(node_rank, released, clock + 1)
    <2>1. DOMAIN rank = Nodes /\ \A x \in Nodes : rank[x] = IF x \in released THEN clock + 1
                                                            ELSE node_rank[x]
      BY DEF Stamp
    <2>2. node_rank' = [rank EXCEPT ![n] = clock]
      BY <1>1
    <2> HIDE DEF rank
    <2> QED
      BY <2>1, <2>2
  <1>12. \A k \in Ins : move_status'[k] = IF k \in moves THEN "FROZEN" ELSE move_status[k]
    BY <1>1, <1>3
  <1>13. node_status'[n] = "REMOVABLE" /\ node_rank'[n] = clock
    BY <1>2, <1>10, <1>11
  <1>14. ASSUME NEW x \in Nodes \ {n}
         PROVE \/ /\ node_status'[x] = node_status[x] /\ node_rank'[x] = node_rank[x]
                  /\ \A k \in moves :
                       x = Partner(n, k) /\ node_status[x] = "FREEZEABLE" => HasMovesLeft(x)'
               \/ /\ node_status'[x] = "REMOVABLE" /\ node_status[x] = "FREEZEABLE"
                  /\ node_rank'[x] = clock + 1 /\ ~ HasMovesLeft(x)'
    <2>1. CASE x \in released
      BY <1>7, <1>10, <1>11, <2>1
    <2>2. CASE x \notin released
      BY <1>2, <1>8, <1>10, <1>11, <2>2
    <2> QED
      BY <2>1, <2>2
  <1> QED
    BY <1>1, <1>12, <1>13, <1>14 DEF GiveUpEffect, moves, graph_vars

LEMMA ListGiveUpMoves ==
  ASSUME ListInv, pc = "reduce", Reduced, NEW n \in Nodes, NEW chosen \in SUBSET Nodes,
         prespilled \subseteq chosen,
         \/ node_status[n] = "FREEZEABLE"
         \/ node_status[n] = "SPILLABLE" /\ n \in chosen,
         GiveUpMoves(n, chosen)
  PROVE  ListInv'
  <1>1. CASE Abort("freezeMoves830") \/ Abort("freezeMoves834")
    BY <1>1, ListAbort
  <1>2. CASE ~ Abort("freezeMoves830") /\ ~ Abort("freezeMoves834")
    <2>1. InGraph(n) /\ NodesWith("REMOVABLE") = {}
      BY DEF InGraph, Reduced
    <2>2. GiveUpEffect(n, chosen)
      BY <1>2, <2>1, GiveUpChanges
    <2>3. TypeInv'
      BY TypeGiveUpMoves DEF ListInv
    <2>4. \A k \in MovesLeftOf(n) :
            /\ k \in Ins /\ Remaining(k) /\ moves_per_node[n][k] > 0
            /\ Partner(n, k) \in Nodes /\ MoveGroups(k) = {n, Partner(n, k)}
      BY <2>1, PartnerIsOther
    <2>5. \A k \in Ins : Remaining(k)' <=> Remaining(k) /\ k \notin MovesLeftOf(n)
      BY <2>2 DEF GiveUpEffect, Remaining
    <2>6. \A k \in Ins : MoveGroups(k)' = MoveGroups(k)
      BY <2>2 DEF GiveUpEffect, MoveGroups
    <2>7. \A x \in Nodes : /\ InGraph(x)' <=> InGraph(x)
                           /\ node_status'[x] = "PRECOLORED" <=> node_status[x] = "PRECOLORED"
                           /\ node_status'[x] = "COALESCED" <=> node_status[x] = "COALESCED"
      BY <2>1, <2>2 DEF InGraph, GiveUpEffect
    <2>8. GroupsFlat' /\ MachineKept' /\ Symmetric' /\ ListAssertsHold'
      BY <2>2, <2>7
         DEF ListInv, GroupsFlat, MachineKept, Symmetric, ListAssertsHold, Precolored, GiveUpEffect
    <2>9. CoalescedTogether'
      BY <2>2 DEF ListInv, CoalescedTogether, GiveUpEffect
    <2>10. RanksPast'
      <3>1. clock \in Nat /\ \A x \in Nodes : node_rank[x] \in Nat /\ node_rank[x] < clock
        BY DEF ListInv, TypeInv, TypeOK, RanksPast
      <3> QED
        BY <2>2, <3>1 DEF RanksPast, GiveUpEffect
    <2>11. StatusOfPhase'
      <3>1. pc' = "reduce"
        BY <2>2 DEF GiveUpEffect
      <3>2. ASSUME NEW x \in Nodes
            PROVE  InGraph(x)' \/ node_status'[x] \in {"COALESCED", "SELECTED"}
        BY <2>2, <2>7 DEF GiveUpEffect, ListInv, StatusOfPhase, InGraph
      <3> QED
        BY <3>1, <3>2 DEF StatusOfPhase
    <2>12. MovesListed' /\ ListsExact'
      BY <2>2, <2>5, <2>6, <2>7, RemainingMove
         DEF ListInv, MovesListed, ListsExact, Remaining, GiveUpEffect
    <2>13. \A x \in Nodes : node_degrees[x] \in Int
      BY DEF ListInv, TypeInv, TypeOK
    <2>14. ~ HasMovesLeft(n)'
      BY <2>2 DEF HasMovesLeft, MovesLeftOf, RemainingMoves, GiveUpEffect
    <2>15. \A x \in Nodes : node_status[x] # "REMOVABLE"
      BY <2>1 DEF NodesWith
    <2>16. ASSUME NEW x \in Nodes \ {n}, node_status[x] = "FREEZEABLE", node_status'[x] = "FREEZEABLE"
           PROVE  HasMovesLeft(x)'
      <3>1. PICK k \in Ins : moves_per_node[x][k] > 0 /\ Remaining(k)
        BY <2>16 DEF ListInv, WorklistsExact, HasMovesLeft, Remaining
      <3>2. CASE k \in MovesLeftOf(n)
        <4>1. x = Partner(n, k)
          BY <2>4, <2>16, <3>1, <3>2 DEF ListInv, ListsExact, InGraph
        <4> QED
          BY <2>2, <2>16, <3>2, <4>1 DEF GiveUpEffect
      <3>3. CASE k \notin MovesLeftOf(n)
        BY <2>2, <2>5, <3>1, <3>3 DEF HasMovesLeft, Remaining, GiveUpEffect
      <3> QED
        BY <3>2, <3>3
    <2>17. WorklistsExact'
      <3> SUFFICES ASSUME NEW x \in Nodes
                   PROVE  /\ node_status'[x] = "SPILLABLE" => node_degrees'[x] >= colorcount
                          /\ node_status'[x] = "FREEZEABLE" => node_degrees'[x] < colorcount
                                                             /\ HasMovesLeft(x)'
                          /\ node_status'[x] = "REMOVABLE" =>
                               ~ HasMovesLeft(x)'
                               /\ (node_degrees'[x] < colorcount \/ x \in prespilled')
        BY DEF WorklistsExact
      <3>1. CASE x = n
        BY <2>2, <2>14, <3>1 DEF GiveUpEffect, ListInv, WorklistsExact
      <3>2. CASE x # n
        BY <2>2, <2>15, <2>16, <3>2 DEF GiveUpEffect, ListInv, WorklistsExact
      <3> QED
        BY <3>1, <3>2
    <2>18. HighFirst'
      <3> SUFFICES ASSUME NEW x \in Nodes, NEW y \in Nodes, node_status'[x] = "REMOVABLE",
                          node_status'[y] = "REMOVABLE", node_degrees[x] >= colorcount, x # y
                   PROVE  node_rank'[x] < node_rank'[y]
        BY <2>2 DEF HighFirst, NodesWith, GiveUpEffect
      <3>1. x = n
        BY <2>2, <2>13, <2>15, CountsAssumption DEF GiveUpEffect, ListInv, WorklistsExact
      <3>2. node_rank'[x] = clock /\ node_rank'[y] = clock + 1 /\ clock \in Nat
        BY <2>2, <2>15, <3>1 DEF GiveUpEffect, ListInv, TypeInv, TypeOK
      <3> QED
        BY <3>2
    <2> QED
      BY <2>3, <2>8, <2>9, <2>10, <2>11, <2>12, <2>17, <2>18 DEF ListInv
  <1> QED
    BY <1>1, <1>2

LEMMA ListFreezeOrPrespill == ListInv /\ (FreezeOne \/ PrespillOne) => ListInv'
  <1> SUFFICES ASSUME ListInv, FreezeOne \/ PrespillOne PROVE ListInv'
    OBVIOUS
  <1>1. prespilled \in SUBSET Nodes
    BY DEF ListInv, TypeInv, TypeOK
  <1>2. CASE FreezeOne
    <2>1. PICK n \in Nodes : node_status[n] = "FREEZEABLE" /\ GiveUpMoves(n, prespilled)
      BY <1>2 DEF FreezeOne, Front, NodesWith
    <2> QED
      BY <1>1, <1>2, <2>1, ListGiveUpMoves DEF FreezeOne
  <1>3. CASE PrespillOne
    <2>1. PICK n \in Nodes : node_status[n] = "SPILLABLE" /\ GiveUpMoves(n, prespilled \cup {n})
      BY <1>3 DEF PrespillOne, Front, NodesWith
    <2> QED
      BY <1>1, <1>3, <2>1, ListGiveUpMoves DEF PrespillOne
  <1> QED
    BY <1>2, <1>3

------------------------------------------------------------------------------
(* When the loop ends no node but the machine registers is left in the graph. *)
LEMMA ListColoring ==
  ListInv /\ (StopReducing \/ AssignColor \/ FinishColors \/ UNCHANGED vars) => ListInv'
  <1> SUFFICES ASSUME ListInv, StopReducing \/ AssignColor \/ FinishColors \/ UNCHANGED vars
               PROVE  ListInv'
    OBVIOUS
  <1>1. TypeInv'
    BY TypeColoring DEF ListInv
  <1> USE DEF graph_vars, node_vars, move_vars
  <1>2. CASE StopReducing
    <2>1. \A n \in Nodes : node_status[n] \notin {"REMOVABLE", "FREEZEABLE", "SPILLABLE"}
      BY <1>2 DEF StopReducing, Reduced, NodesWith
    <2>2. /\ pc = "reduce" /\ pc' = "color"
          /\ UNCHANGED <<liveness, adjacent, node_status, node_rank, move_status, clock, group>>
      BY <1>2 DEF StopReducing
    <2>3. StatusOfPhase'
      BY <2>1, <2>2 DEF ListInv, StatusOfPhase, InGraph, Removed
    <2> QED
      BY <1>1, <2>2, <2>3
         DEF ListInv, GroupsFlat, MachineKept, CoalescedTogether, RanksPast, Symmetric,
             MovesListed, ListsExact, WorklistsExact, HighFirst, ListAssertsHold, Precolored
  <1>3. CASE AssignColor
    <2>1. /\ pc = "color" /\ pc' = "color"
          /\ UNCHANGED <<liveness, adjacent, node_rank, move_status, clock, group>>
          /\ \E n \in Nodes : /\ node_status[n] = "SELECTED"
                              /\ \E s \in {"SPILLED", "COLORED"} :
                                   \A x \in Nodes :
                                     node_status'[x] = IF x = n THEN s ELSE node_status[x]
      BY <1>3 DEF AssignColor, NextSelected, Back, NodesWith, ListInv, TypeInv, TypeOK
    <2>2. \A x \in Nodes : \/ node_status'[x] = node_status[x]
                           \/ Removed(x) /\ Removed(x)'
      BY <2>1 DEF Removed
    <2>3. \A x \in Nodes :
            /\ Removed(x)' <=> Removed(x)
            /\ node_status'[x] = "PRECOLORED" <=> node_status[x] = "PRECOLORED"
            /\ node_status'[x] = "COALESCED" <=> node_status[x] = "COALESCED"
      BY <2>2 DEF Removed
    <2> QED
      BY <1>1, <2>1, <2>3
         DEF ListInv, GroupsFlat, MachineKept, CoalescedTogether, RanksPast, Symmetric,
             StatusOfPhase, MovesListed, ListsExact, WorklistsExact, HighFirst,
             ListAssertsHold, Precolored
  <1>4. CASE FinishColors
    BY <1>1, <1>4
       DEF FinishColors, ListInv, GroupsFlat, MachineKept, CoalescedTogether, RanksPast,
           Symmetric, StatusOfPhase, MovesListed, ListsExact, WorklistsExact, HighFirst,
           ListAssertsHold, Precolored
  <1>5. CASE UNCHANGED vars
    BY <1>1, <1>5
       DEF vars, ListInv, GroupsFlat, MachineKept, CoalescedTogether, RanksPast, Symmetric,
           StatusOfPhase, MovesListed, ListsExact, WorklistsExact, HighFirst, ListAssertsHold,
           Precolored, Removed, Remaining, InGraph, NodesWith, HasMovesLeft, MoveGroups
  <1> QED
    BY <1>2, <1>3, <1>4, <1>5

LEMMA ListNext == ListInv /\ [Next]_vars => ListInv'
  BY ListBuild, ListRemoveOne, ListCoalesceOne, ListFreezeOrPrespill, ListColoring
     DEF Next, Terminated

LEMMA ListInvariant == Spec => []ListInv
  BY ListInit, ListNext, PTL DEF Spec

(****************************************************************************)
(* The work lists of NodeMoveManager hold the nodes they are for, between   *)
(* any two passes of the loop of tryColoring: decrementDegree, enableMoves, *)
(* possiblyUnfreeze, combineNodes and freezeMoves keep this together.       *)
(****************************************************************************)
THEOREM ListsCorrect == Spec => []WorklistsExact
  <1>1. ListInv => WorklistsExact
    BY DEF ListInv
  <1> QED
    BY <1>1, ListInvariant, PTL

------------------------------------------------------------------------------
(****************************************************************************)
(* The colours of the register allocator: coalescing loses no interference, *)
(* a register that was removed with a low degree finds a colour, registers  *)
(* that interfere have different colours, and the allocator implements the  *)
(* colouring of its interference graph.                                     *)
(****************************************************************************)
------------------------------------------------------------------------------
(* The graph and the groups. *)

(* A node in the graph is adjacent to the node that stands for its neighbour. *)
Closed ==
  pc = "reduce" =>
    \A n, x \in Nodes :
      InGraph(n) /\ x \in adjacent[n] /\ InGraph(group[x]) => group[x] \in adjacent[n]

(* r has a neighbour in the group of s. *)
Sees(r, s) == \E x \in adjacent[r] : group[x] = s

(****************************************************************************)
(* Registers that interfere are in different groups.  Of their two nodes,   *)
(* the one that was removed first sees the other; both are adjacent while   *)
(* none is removed.                                                         *)
(****************************************************************************)
SeparatedNodes(r, s) ==
  /\ r # s
  /\ InGraph(r) /\ InGraph(s) => s \in adjacent[r]
  /\ Removed(r) /\ InGraph(s) => Sees(r, s)
  /\ Removed(r) /\ Removed(s) /\ node_rank[r] < node_rank[s] => Sees(r, s)

Separated ==
  pc # "build" =>
    \A a, b \in Nodes : Interferes(liveness, a, b) => SeparatedNodes(group[a], group[b])

(* No two nodes were removed at the same time. *)
RanksDiffer ==
  \A x, y \in Nodes : Removed(x) /\ Removed(y) /\ x # y => node_rank[x] # node_rank[y]

GraphInv == ListInv /\ Closed /\ Separated /\ RanksDiffer

(* The steps that change neither the graph nor the groups nor what is removed. *)
SameGraph ==
  /\ pc # "build" /\ (pc' = "reduce" => pc = "reduce")
  /\ UNCHANGED <<liveness, adjacent, group>>
  /\ \A n \in Nodes : /\ InGraph(n)' <=> InGraph(n)
                      /\ Removed(n)' <=> Removed(n)
                      /\ Removed(n) => node_rank'[n] = node_rank[n]

LEMMA GraphUnchanged ==
  ASSUME GraphInv, SameGraph
  PROVE  Closed' /\ Separated' /\ RanksDiffer'
  <1> USE DEF GraphInv, SameGraph
  <1>1. \A n \in Nodes : group[n] \in Nodes
    BY DEF ListInv, TypeInv, TypeOK
  <1>2. Closed'
    BY <1>1 DEF Closed
  <1>3. RanksDiffer'
    BY DEF RanksDiffer
  <1>4. ASSUME NEW r \in Nodes, NEW s \in Nodes, SeparatedNodes(r, s)
        PROVE  SeparatedNodes(r, s)'
    BY <1>4 DEF SeparatedNodes, Sees
  <1>5. Separated'
    <2> SUFFICES ASSUME NEW a \in Nodes, NEW b \in Nodes, Interferes(liveness, a, b)
                 PROVE  SeparatedNodes(group[a], group[b])'
      BY DEF Separated
    <2>1. SeparatedNodes(group[a], group[b])
      BY DEF Separated
    <2>2. PICK r, s \in Nodes : r = group[a] /\ s = group[b]
      BY <1>1
    <2>3. SeparatedNodes(r, s)'
      BY <1>4, <2>1, <2>2
    <2> QED
      BY <2>2, <2>3 DEF SeparatedNodes, Sees
  <1> QED
    BY <1>2, <1>3, <1>5

LEMMA SameGraphCoalesce ==
  ASSUME ListInv, NEW m \in Ins, CoalesceAgain(m) \/ CoalesceConstrained(m) \/ CoalesceAfraid(m)
  PROVE  /\ SameGraph /\ pc = "reduce" /\ pc' = "reduce"
         /\ UNCHANGED <<node_degrees, colors, prespilled>>
  <1>1. Coalescing(m)
    BY DEF CoalesceAgain, CoalesceConstrained, CoalesceAfraid
  <1>2. MoveGroups(m) = {Ends(m)[1], Ends(m)[2]} /\ pc = "reduce"
    BY <1>1, CoalescingMove
  <1>3. CASE CoalesceAgain(m) \/ CoalesceConstrained(m)
    <2>1. PICK s \in {"COALESCED", "CONSTRAINED"} : UnfreezeEffect(m, s)
      <3>1. CASE CoalesceAgain(m)
        <4>1. UnfreezeEffect(m, "COALESCED")
          BY <1>1, <1>2, <3>1, UnfreezeChanges DEF CoalesceAgain
        <4> QED
          BY <4>1
      <3>2. CASE CoalesceConstrained(m)
        <4>1. UnfreezeEffect(m, "CONSTRAINED")
          BY <1>1, <1>2, <3>2, UnfreezeChanges DEF CoalesceConstrained
        <4> QED
          BY <4>1
      <3> QED
        BY <1>3, <3>1, <3>2
    <2> QED
      BY <1>2, <2>1 DEF UnfreezeEffect, SameGraph, InGraph, Removed
  <1>4. CASE CoalesceAfraid(m)
    BY <1>2, <1>4 DEF CoalesceAfraid, SameGraph, InGraph, Removed, graph_vars, node_vars
  <1> QED
    BY <1>3, <1>4

LEMMA SameGraphGiveUp ==
  ASSUME ListInv, FreezeOne \/ PrespillOne
  PROVE  /\ SameGraph /\ pc = "reduce"
         /\ UNCHANGED <<node_degrees, colors>> /\ prespilled \subseteq prespilled'
         /\ \/ pc' = "reduce"
            \/ pc' \in {"freezeMoves830", "freezeMoves834"}
               /\ UNCHANGED <<node_status, node_rank, prespilled>>
  <1>1. PICK n \in Nodes, chosen \in SUBSET Nodes :
          InGraph(n) /\ prespilled \subseteq chosen /\ GiveUpMoves(n, chosen)
    <2>1. prespilled \in SUBSET Nodes
      BY DEF ListInv, TypeInv, TypeOK
    <2>2. CASE FreezeOne
      <3>1. PICK n \in Nodes : node_status[n] = "FREEZEABLE" /\ GiveUpMoves(n, prespilled)
        BY <2>2 DEF FreezeOne, Front, NodesWith
      <3> QED
        BY <2>1, <3>1 DEF InGraph
    <2>3. CASE PrespillOne
      <3>1. PICK n \in Nodes : node_status[n] = "SPILLABLE" /\ GiveUpMoves(n, prespilled \cup {n})
        BY <2>3 DEF PrespillOne, Front, NodesWith
      <3>2. prespilled \cup {n} \in SUBSET Nodes
        BY <2>1
      <3> QED
        BY <3>1, <3>2 DEF InGraph
    <2> QED
      BY <2>2, <2>3
  <1>2. pc = "reduce"
    BY DEF FreezeOne, PrespillOne
  <1>3. CASE Abort("freezeMoves830") \/ Abort("freezeMoves834")
    BY <1>2, <1>3 DEF Abort, SameGraph, InGraph, Removed, graph_vars, node_vars
  <1>4. CASE ~ Abort("freezeMoves830") /\ ~ Abort("freezeMoves834")
    <2>1. GiveUpEffect(n, chosen)
      BY <1>1, <1>2, <1>4, GiveUpChanges
    <2> QED
      BY <1>1, <1>2, <2>1 DEF GiveUpEffect, SameGraph, InGraph, Removed
  <1> QED
    BY <1>3, <1>4

LEMMA SameGraphColoring ==
  ASSUME ListInv, StopReducing \/ AssignColor \/ FinishColors
  PROVE  SameGraph /\ pc' # "reduce" /\ UNCHANGED prespilled
  <1>1. CASE StopReducing
    BY <1>1 DEF StopReducing, SameGraph, InGraph, Removed, graph_vars, node_vars
  <1>2. CASE FinishColors
    BY <1>2 DEF FinishColors, SameGraph, InGraph, Removed, graph_vars, node_vars
  <1>3. CASE AssignColor
    <2>1. /\ pc = "color" /\ pc' = "color"
          /\ UNCHANGED <<liveness, adjacent, node_rank, group, prespilled>>
          /\ \A x \in Nodes :
               \/ node_status'[x] = node_status[x]
               \/ node_status[x] = "SELECTED" /\ node_status'[x] \in {"SPILLED", "COLORED"}
      BY <1>3
         DEF AssignColor, NextSelected, Back, NodesWith, ListInv, TypeInv, TypeOK, graph_vars
    <2> QED
      BY <2>1 DEF SameGraph, InGraph, Removed
  <1> QED
    BY <1>1, <1>2, <1>3

------------------------------------------------------------------------------
LEMMA GraphInit == Init => GraphInv
  <1> SUFFICES ASSUME Init PROVE GraphInv
    OBVIOUS
  <1>1. \A n \in Nodes : ~ Removed(n)
    BY DEF Init, Removed
  <1> QED
    BY <1>1, ListInit DEF Init, GraphInv, Closed, Separated, RanksDiffer

LEMMA GraphBuild == GraphInv /\ Build => GraphInv'
  <1> SUFFICES ASSUME GraphInv, Build PROVE GraphInv'
    OBVIOUS
  <1>1. ListInv'
    BY ListBuild DEF GraphInv
  <1>2. /\ pc' = "reduce" /\ UNCHANGED <<liveness, group>>
        /\ \A n \in Nodes : /\ group[n] = n /\ adjacent'[n] = InterferingWith(liveness, n)
                            /\ InGraph(n)' /\ ~ Removed(n)'
    BY DEF Build, Classify, InGraph, Removed, GraphInv, ListInv, StatusOfPhase
  <1>3. Closed' /\ RanksDiffer'
    BY <1>2 DEF Closed, RanksDiffer
  <1>4. ASSUME NEW a \in Nodes, NEW b \in Nodes, Interferes(liveness, a, b)
        PROVE  SeparatedNodes(group[a], group[b])'
    BY <1>2, <1>4, InterferesSymmetric DEF SeparatedNodes, InterferingWith
  <1>5. Separated'
    BY <1>2, <1>4 DEF Separated
  <1> QED
    BY <1>1, <1>3, <1>5 DEF GraphInv

(****************************************************************************)
(* The node that is removed sees every group it interferes with and that is *)
(* still in the graph, and it is removed later than all the others.         *)
(****************************************************************************)
LEMMA GraphRemoveOne == GraphInv /\ RemoveOne => GraphInv'
  <1> SUFFICES ASSUME GraphInv, pc = "reduce", NEW n \in NextRemovable, Remove(n)
               PROVE  GraphInv'
    BY DEF RemoveOne
  <1>1. n \in Nodes /\ node_status[n] = "REMOVABLE" /\ InGraph(n)
    BY DEF NextRemovable, Front, NodesWith, InGraph
  <1>2. RemoveEffect(n)
    BY RemoveChanges DEF GraphInv
  <1>3. ListInv'
    BY ListRemoveOne DEF GraphInv, RemoveOne
  <1>4. \A x \in Dropped(Lowered(n)) : x \in Nodes /\ x # n /\ node_status[x] = "SPILLABLE"
    BY DroppedAreSpillable DEF GraphInv
  <1>5. \A x \in Nodes : /\ InGraph(x)' <=> InGraph(x) /\ x # n
                         /\ Removed(x)' <=> Removed(x) \/ x = n
                         /\ Removed(x) => node_rank'[x] = node_rank[x] /\ x # n
    <2> SUFFICES ASSUME NEW x \in Nodes
                 PROVE  /\ InGraph(x)' <=> InGraph(x) /\ x # n
                        /\ Removed(x)' <=> Removed(x) \/ x = n
                        /\ Removed(x) => node_rank'[x] = node_rank[x] /\ x # n
      OBVIOUS
    <2>1. CASE x = n
      BY <1>1, <1>2, <2>1 DEF RemoveEffect, InGraph, Removed
    <2>2. CASE x \in Dropped(Lowered(n))
      BY <1>2, <1>4, <2>2 DEF RemoveEffect, InGraph, Removed
    <2>3. CASE x # n /\ x \notin Dropped(Lowered(n))
      BY <1>2, <2>3 DEF RemoveEffect, InGraph, Removed
    <2> QED
      BY <2>1, <2>2, <2>3
  <1>6. \A x \in Nodes : node_rank[x] \in Nat /\ clock \in Nat /\ node_rank[x] < clock
    BY DEF GraphInv, ListInv, TypeInv, TypeOK, RanksPast
  <1>7. node_rank'[n] = clock /\ UNCHANGED <<liveness, pc, adjacent, group>>
    BY <1>2 DEF RemoveEffect
  <1>8. Closed'
    BY <1>5, <1>7 DEF GraphInv, Closed, ListInv, TypeInv, TypeOK
  <1>9. RanksDiffer'
    BY <1>1, <1>5, <1>6, <1>7 DEF GraphInv, RanksDiffer
  <1>10. ASSUME NEW r \in Nodes, NEW s \in Nodes, SeparatedNodes(r, s), group[s] = s
         PROVE  SeparatedNodes(r, s)'
    <2>1. r # s /\ (InGraph(r)' /\ InGraph(s)' => s \in adjacent'[r])
      BY <1>5, <1>7, <1>10 DEF SeparatedNodes
    <2>2. ASSUME Removed(r)', InGraph(s)'
          PROVE  Sees(r, s)
      <3>1. CASE r = n
        BY <1>1, <1>5, <1>10, <2>2, <3>1 DEF SeparatedNodes, Sees
      <3>2. CASE r # n
        BY <1>5, <1>10, <2>2, <3>2 DEF SeparatedNodes
      <3> QED
        BY <3>1, <3>2
    <2>3. ASSUME Removed(r)', Removed(s)', node_rank'[r] < node_rank'[s]
          PROVE  Sees(r, s)
      <3>1. r # n
        BY <1>5, <1>6, <1>7, <1>10, <2>3 DEF SeparatedNodes
      <3>2. CASE s = n
        BY <1>1, <1>5, <1>10, <2>3, <3>1, <3>2 DEF SeparatedNodes
      <3>3. CASE s # n
        BY <1>5, <1>10, <2>3, <3>1, <3>3 DEF SeparatedNodes
      <3> QED
        BY <3>2, <3>3
    <2>4. Sees(r, s) => Sees(r, s)'
      BY <1>7 DEF Sees
    <2> QED
      BY <2>1, <2>2, <2>3, <2>4 DEF SeparatedNodes
  <1>11. Separated'
    <2> SUFFICES ASSUME NEW a \in Nodes, NEW b \in Nodes, Interferes(liveness, a, b)
                 PROVE  SeparatedNodes(group[a], group[b])'
      BY <1>7 DEF Separated
    <2>1. PICK r, s \in Nodes : r = group[a] /\ s = group[b] /\ group[s] = s
      BY DEF GraphInv, ListInv, TypeInv, TypeOK, GroupsFlat
    <2>2. SeparatedNodes(r, s)'
      BY <1>10, <2>1 DEF GraphInv, Separated
    <2> QED
      BY <1>7, <2>1, <2>2 DEF SeparatedNodes, Sees
  <1> QED
    BY <1>3, <1>8, <1>9, <1>11 DEF GraphInv

(* What a combination is about: two nodes of the graph that are not adjacent. *)
LEMMA CombinedNodes ==
  ASSUME ListInv, NEW m \in Ins, CoalesceCombine(m), NEW remain, NEW remove,
         remain = Ends(m)[1], remove = Ends(m)[2]
  PROVE  /\ pc = "reduce" /\ pc' = "reduce"
         /\ UNCHANGED <<liveness, colors, prespilled>>
         /\ remain \in Nodes /\ remove \in Nodes /\ remain # remove
         /\ InGraph(remain) /\ InGraph(remove) /\ InGraph(remain)'
         /\ group[remain] = remain /\ group[remove] = remove
         /\ node_status[remove] # "PRECOLORED"
         /\ remain \notin adjacent[remove] /\ remove \notin adjacent[remain]
         /\ Gained(remain, remove) = {x \in adjacent[remove] \ adjacent[remain] : InGraph(x)}
         /\ \A x \in Nodes : /\ InGraph(x)' <=> InGraph(x) /\ x # remove
                             /\ Removed(x)' <=> Removed(x)
                             /\ Removed(x) => node_rank'[x] = node_rank[x] /\ ~ InGraph(x)
                             /\ group'[x] = IF group[x] = remove THEN remain ELSE group[x]
  <1>1. CombineEffect(m, remain, remove)
    BY CombineChanges
  <1>2. /\ pc = "reduce" /\ remain \in Nodes /\ remove \in Nodes /\ remain # remove
        /\ InGraph(remain) /\ InGraph(remove) /\ ~ Constrained(remain, remove)
    BY CoalescingMove DEF CoalesceCombine, Coalescing
  <1>3. \A x \in Nodes : /\ InGraph(x)' <=> InGraph(x) /\ x # remove
                         /\ Removed(x)' <=> Removed(x)
                         /\ Removed(x) => node_rank'[x] = node_rank[x] /\ ~ InGraph(x)
    BY <1>1, <1>2 DEF CombineEffect, InGraph, Removed
  <1>4. group[remain] = remain /\ group[remove] = remove
    BY <1>2 DEF ListInv, GroupsFlat, InGraph
  <1>5. /\ node_status[remove] # "PRECOLORED"
        /\ remain \notin adjacent[remove] /\ remove \notin adjacent[remain]
    BY <1>2 DEF Constrained, ListInv, Symmetric
  <1>6. adjacent[remove] \subseteq Nodes
    BY <1>2 DEF ListInv, TypeInv, TypeOK
  <1>7. \A x \in adjacent[remove] :
          InGraph(x) <=> node_status[x] \notin {"SELECTED", "COALESCED"}
    BY <1>2, <1>6 DEF ListInv, StatusOfPhase, InGraph
  <1>8. Gained(remain, remove) = {x \in adjacent[remove] \ adjacent[remain] : InGraph(x)}
    BY <1>7 DEF Gained, RemainingAdjacent
  <1> QED
    BY <1>1, <1>2, <1>3, <1>4, <1>5, <1>8 DEF CombineEffect

LEMMA GraphCombine ==
  ASSUME GraphInv, NEW m \in Ins, CoalesceCombine(m)
  PROVE  GraphInv'
  <1> SUFFICES ASSUME NEW remain, NEW remove, remain = Ends(m)[1], remove = Ends(m)[2]
               PROVE  GraphInv'
    OBVIOUS
  <1> DEFINE gained == {x \in adjacent[remove] \ adjacent[remain] : InGraph(x)}
  <1>1. /\ pc = "reduce" /\ pc' = "reduce" /\ UNCHANGED liveness
        /\ remain \in Nodes /\ remove \in Nodes /\ remain # remove
        /\ InGraph(remain) /\ InGraph(remove) /\ InGraph(remain)'
        /\ group[remain] = remain /\ group[remove] = remove
        /\ remain \notin adjacent[remove] /\ remove \notin adjacent[remain]
        /\ Gained(remain, remove) = gained
    BY CombinedNodes DEF GraphInv
  <1>2. \A x \in Nodes : /\ InGraph(x)' <=> InGraph(x) /\ x # remove
                         /\ Removed(x)' <=> Removed(x)
                         /\ Removed(x) => node_rank'[x] = node_rank[x] /\ ~ InGraph(x)
                         /\ group'[x] = IF group[x] = remove THEN remain ELSE group[x]
    BY CombinedNodes DEF GraphInv
  <1>3. \A x \in Nodes : \A y :
          y \in adjacent'[x] <=>
            \/ y \in adjacent[x]
            \/ x = remain /\ y \in gained
            \/ x \in gained /\ y = remain
    BY <1>1, CombinedEdgesHold DEF CombinedEdges, GraphInv
  <1>4. ListInv'
    BY ListCoalesceCombine DEF GraphInv
  <1>5. \A x, y \in Nodes : x \in adjacent[y] => y \in adjacent[x] /\ x # y
    BY DEF GraphInv, ListInv, Symmetric
  <1>6. \A x \in Nodes : /\ group[x] \in Nodes /\ adjacent[x] \subseteq Nodes
                         /\ InGraph(x) => group[x] = x
    BY DEF GraphInv, ListInv, TypeInv, TypeOK, GroupsFlat, InGraph
  <1>7. ASSUME NEW x \in Nodes, InGraph(x), x \in adjacent[remove]
        PROVE  x \in adjacent'[remain] /\ remain \in adjacent'[x]
    <2>1. x \in adjacent[remain] \/ x \in gained
      BY <1>7
    <2> QED
      BY <1>1, <1>3, <1>5, <1>7, <2>1
  <1>8. Closed'
    <2> SUFFICES ASSUME NEW n \in Nodes, NEW x \in Nodes, NEW g \in Nodes, g = group'[x],
                        InGraph(n), n # remove, x \in adjacent'[n], InGraph(g)'
                 PROVE  g \in adjacent'[n]
      <3>1. \A x \in Nodes : group'[x] \in Nodes
        BY <1>4 DEF ListInv, TypeInv, TypeOK
      <3> QED
        BY <1>2, <3>1 DEF Closed, InGraph
    <2>1. CASE x \in adjacent[n] /\ group[x] # remove
      <3>1. g = group[x] /\ InGraph(g)
        BY <1>2, <2>1
      <3>2. g \in adjacent[n]
        BY <1>1, <2>1, <3>1 DEF GraphInv, Closed
      <3> QED
        BY <1>3, <3>2
    <2>2. CASE x \in adjacent[n] /\ group[x] = remove
      <3>1. remove \in adjacent[n]
        BY <1>1, <2>2 DEF GraphInv, Closed
      <3>2. n \in adjacent[remove]
        BY <1>1, <1>5, <3>1
      <3> QED
        BY <1>2, <1>7, <2>2, <3>2
    <2>3. CASE x \notin adjacent[n] /\ n = remain /\ x \in gained
      <3>1. group[x] = x /\ x # remove
        BY <1>1, <1>5, <1>6, <2>3
      <3> QED
        BY <1>2, <1>3, <2>3, <3>1
    <2>4. CASE x \notin adjacent[n] /\ n \in gained /\ x = remain
      BY <1>1, <1>2, <1>3, <2>4
    <2> HIDE DEF gained
    <2> QED
      BY <1>3, <2>1, <2>2, <2>3, <2>4
  <1>9. RanksDiffer'
    BY <1>2 DEF GraphInv, RanksDiffer
  <1>10. ASSUME NEW a \in Nodes, NEW b \in Nodes, Interferes(liveness, a, b)
         PROVE  SeparatedNodes(group[a], group[b])'
    <2>1. PICK r, s \in Nodes : r = group[a] /\ s = group[b]
      BY <1>6
    <2>2. SeparatedNodes(r, s) /\ SeparatedNodes(s, r)
      BY <1>1, <1>10, <2>1, InterferesSymmetric DEF GraphInv, Separated
    <2>3. PICK q, t \in Nodes : /\ q = IF r = remove THEN remain ELSE r
                                /\ t = IF s = remove THEN remain ELSE s
      BY <1>1
    <2>4. group'[a] = q /\ group'[b] = t
      BY <1>2, <2>1, <2>3
    <2>5. q # t
      BY <1>1, <2>2, <2>3 DEF SeparatedNodes
    <2>6. ASSUME InGraph(q)', InGraph(t)' PROVE t \in adjacent'[q]
      <3>1. CASE r = remove
        <4>1. t = s /\ q = remain /\ InGraph(s) /\ s \in adjacent[remove]
          BY <1>1, <1>2, <2>2, <2>3, <2>6, <3>1 DEF SeparatedNodes
        <4> QED
          BY <1>7, <4>1
      <3>2. CASE s = remove
        <4>1. q = r /\ t = remain /\ InGraph(r) /\ r \in adjacent[remove]
          BY <1>1, <1>2, <2>2, <2>3, <2>6, <3>2 DEF SeparatedNodes
        <4> QED
          BY <1>7, <4>1
      <3>3. CASE r # remove /\ s # remove
        BY <1>2, <1>3, <2>2, <2>3, <2>6, <3>3 DEF SeparatedNodes
      <3> QED
        BY <3>1, <3>2, <3>3
    <2>7. ASSUME Removed(q)', InGraph(t)' \/ (Removed(t)' /\ node_rank'[q] < node_rank'[t])
          PROVE  Sees(q, t)'
      <3>1. q = r /\ Removed(r)
        BY <1>1, <1>2, <2>3, <2>7
      <3>2. Sees(r, s)
        <4>1. CASE s = remove
          BY <1>1, <2>2, <3>1, <4>1 DEF SeparatedNodes
        <4>2. CASE s # remove
          BY <1>2, <2>2, <2>3, <2>7, <3>1, <4>2 DEF SeparatedNodes
        <4> QED
          BY <4>1, <4>2
      <3>3. PICK x \in adjacent[r] : group[x] = s
        BY <3>2 DEF Sees
      <3>4. x \in Nodes /\ group'[x] = t
        BY <1>2, <1>6, <2>3, <3>3
      <3> QED
        BY <1>3, <3>1, <3>3, <3>4 DEF Sees
    <2>8. SeparatedNodes(q, t)'
      BY <2>5, <2>6, <2>7 DEF SeparatedNodes
    <2> QED
      BY <2>4, <2>8 DEF SeparatedNodes, Sees
  <1>11. Separated'
    BY <1>1, <1>10 DEF Separated
  <1> QED
    BY <1>4, <1>8, <1>9, <1>11 DEF GraphInv

LEMMA GraphNext == GraphInv /\ [Next]_vars => GraphInv'
  <1> SUFFICES ASSUME GraphInv, [Next]_vars PROVE GraphInv'
    OBVIOUS
  <1>1. ListInv'
    BY ListNext DEF GraphInv
  <1>2. CASE SameGraph
    BY <1>1, <1>2, GraphUnchanged DEF GraphInv
  <1>3. CASE CoalesceOne
    BY <1>2, <1>3, GraphCombine, SameGraphCoalesce DEF CoalesceOne, GraphInv
  <1>4. CASE FreezeOne \/ PrespillOne \/ StopReducing \/ AssignColor \/ FinishColors
    BY <1>2, <1>4, SameGraphGiveUp, SameGraphColoring DEF GraphInv
  <1>5. CASE UNCHANGED vars
    <2>1. UNCHANGED <<liveness, pc, adjacent, node_status, node_rank, group>>
      BY <1>5 DEF vars, graph_vars, node_vars
    <2>2. Closed' /\ RanksDiffer'
      BY <2>1 DEF GraphInv, Closed, RanksDiffer, InGraph, Removed
    <2>3. Separated'
      BY <2>1 DEF GraphInv, Separated, SeparatedNodes, Sees, InGraph, Removed
    <2> QED
      BY <1>1, <2>2, <2>3 DEF GraphInv
  <1> QED
    BY <1>3, <1>4, <1>5, GraphBuild, GraphRemoveOne DEF Next, Terminated

LEMMA GraphInvariant == Spec => []GraphInv
  BY GraphInit, GraphNext, PTL DEF Spec

(****************************************************************************)
(* Coalescing loses no interference: registers that interfere are never in  *)
(* one group, and their nodes are adjacent while both are in the graph      *)
(* (combineNodes hands over the edges of the node it removes).              *)
(****************************************************************************)
THEOREM NoInterferenceLost == Spec => []GroupsSeparated
  <1>1. GraphInv => GroupsSeparated
    <2> SUFFICES ASSUME GraphInv, pc # "build", NEW a \in Nodes, NEW b \in Nodes,
                        Interferes(liveness, a, b)
                 PROVE  /\ group[a] # group[b]
                        /\ InGraph(group[a]) /\ InGraph(group[b]) => group[a] \in adjacent[group[b]]
      BY DEF GroupsSeparated
    <2>1. SeparatedNodes(group[b], group[a])
      BY InterferesSymmetric DEF GraphInv, Separated
    <2> QED
      BY <2>1 DEF SeparatedNodes
  <1> QED
    BY <1>1, GraphInvariant, PTL

(****************************************************************************)
(* Coalescing leaves a node alone once it is on the stack of selected       *)
(* nodes: assignColors finds the neighbours and the groups as they were     *)
(* when remove_one_removable counted them.                                  *)
(****************************************************************************)
THEOREM SelectedStaySealed == Spec => SelectedSealed
  <1> DEFINE Sealed ==
        pc = "reduce" =>
          \A n \in NodesWith("SELECTED") :
            /\ adjacent'[n] = adjacent[n]
            /\ \A x \in Nodes : (group'[x] = n) = (group[x] = n)
  <1>1. ASSUME GraphInv, Next, pc = "reduce", NEW n \in Nodes, node_status[n] = "SELECTED"
        PROVE  /\ adjacent'[n] = adjacent[n]
               /\ \A x \in Nodes : (group'[x] = n) = (group[x] = n)
    <2>1. CASE UNCHANGED <<adjacent, group>>
      BY <2>1
    <2>2. CASE \E m \in Ins : CoalesceCombine(m)
      <3>1. PICK m \in Ins : CoalesceCombine(m)
        BY <2>2
      <3>2. PICK remain, remove : remain = Ends(m)[1] /\ remove = Ends(m)[2]
        OBVIOUS
      <3>3. n \notin {remain, remove} /\ n \notin Gained(remain, remove)
        BY <1>1, <3>1, <3>2, CombinedNodes DEF GraphInv, InGraph
      <3>4. adjacent'[n] = adjacent[n]
        <4>1. CombineEffect(m, remain, remove)
          BY <1>1, <3>1, <3>2, CombineChanges DEF GraphInv
        <4> QED
          BY <3>3, <4>1 DEF CombineEffect
      <3>5. \A x \in Nodes : group'[x] = IF group[x] = remove THEN remain ELSE group[x]
        BY <1>1, <3>1, <3>2, CombinedNodes DEF GraphInv
      <3> QED
        BY <3>3, <3>4, <3>5
    <2>3. CASE RemoveOne
      BY <1>1, <2>1, <2>3, RemoveChanges DEF RemoveOne, RemoveEffect, GraphInv
    <2>4. CASE \E m \in Ins : CoalesceAgain(m) \/ CoalesceConstrained(m) \/ CoalesceAfraid(m)
      BY <1>1, <2>1, <2>4, SameGraphCoalesce DEF SameGraph, GraphInv
    <2>5. CASE FreezeOne \/ PrespillOne \/ StopReducing \/ AssignColor \/ FinishColors
      BY <1>1, <2>1, <2>5, SameGraphGiveUp, SameGraphColoring DEF SameGraph, GraphInv
    <2> QED
      BY <1>1, <2>1, <2>2, <2>3, <2>4, <2>5
         DEF Next, CoalesceOne, Build, Terminated, vars, graph_vars
  <1>2. GraphInv /\ [Next]_vars => [Sealed]_vars
    BY <1>1 DEF NodesWith
  <1> HIDE DEF Sealed
  <1>3. Spec => [][Sealed]_vars
    BY <1>2, GraphInvariant, PTL DEF Spec
  <1> QED
    BY <1>3 DEF SelectedSealed, Sealed

------------------------------------------------------------------------------
(* Degrees. *)

(****************************************************************************)
(* The nodes that have a colour when assignColors comes to n: those left in *)
(* the graph and those removed after n.                                     *)
(****************************************************************************)
Later(n) == {s \in Nodes : InGraph(s) \/ (Removed(s) /\ node_rank[n] < node_rank[s])}

LaterNeighbours(n) == {group[x] : x \in adjacent[n]} \cap Later(n)

(* A node that was removed with a low degree has fewer of them than there are colours. *)
FewLater ==
  \A n \in NodesWith("SELECTED") \ prespilled : Cardinality(LaterNeighbours(n)) < colorcount

DegreeInv == GraphInv /\ DegreesBound /\ FewLater

LEMMA SubsetCardinality ==
  ASSUME NEW S \in SUBSET Nodes, NEW T, T \subseteq S
  PROVE  /\ T \in SUBSET Nodes /\ Cardinality(T) \in Nat
         /\ Cardinality(S) \in Nat /\ Cardinality(T) <= Cardinality(S)
  BY NodesFinite, FS_Subset

(* Within the loop the nodes left in the adjacency list are those in the graph. *)
LEMMA RemainingInGraph ==
  ASSUME ListInv, pc = "reduce", NEW n \in Nodes
  PROVE  /\ RemainingAdjacent(n) = {x \in adjacent[n] : InGraph(x)}
         /\ RemainingAdjacent(n) \in SUBSET Nodes
  <1>1. adjacent[n] \subseteq Nodes
    BY DEF ListInv, TypeInv, TypeOK
  <1>2. \A x \in adjacent[n] : InGraph(x) <=> node_status[x] \notin {"SELECTED", "COALESCED"}
    BY <1>1 DEF ListInv, StatusOfPhase, InGraph
  <1> QED
    BY <1>1, <1>2 DEF RemainingAdjacent

LEMMA RemainingInGraphNext ==
  ASSUME ListInv', pc' = "reduce", NEW n \in Nodes
  PROVE  RemainingAdjacent(n)' = {x \in adjacent'[n] : InGraph(x)'}
  <1>1. adjacent'[n] \subseteq Nodes
    BY DEF ListInv, TypeInv, TypeOK
  <1>2. \A x \in adjacent'[n] : InGraph(x)' <=> node_status'[x] \notin {"SELECTED", "COALESCED"}
    BY <1>1 DEF ListInv, StatusOfPhase, InGraph
  <1> QED
    BY <1>1, <1>2 DEF RemainingAdjacent

LEMMA LaterAreNodes ==
  ASSUME NEW n
  PROVE  LaterNeighbours(n) \in SUBSET Nodes
  BY DEF LaterNeighbours, Later

LEMMA DegreeInit == Init => DegreeInv
  BY GraphInit DEF Init, DegreeInv, DegreesBound, FewLater, NodesWith

LEMMA DegreeBuild == DegreeInv /\ Build => DegreeInv'
  <1> SUFFICES ASSUME DegreeInv, Build PROVE DegreeInv'
    OBVIOUS
  <1>1. GraphInv' /\ ListInv'
    BY GraphBuild DEF DegreeInv, GraphInv
  <1>2. /\ pc' = "reduce" /\ UNCHANGED liveness
        /\ \A n \in Nodes : /\ adjacent'[n] = InterferingWith(liveness, n)
                            /\ node_status'[n] \notin {"SELECTED", "COALESCED"}
                            /\ ~ Precolored(n) =>
                                 node_degrees'[n] = Cardinality(InterferingWith(liveness, n))
    BY DEF Build, Classify
  <1>3. FewLater'
    BY <1>2 DEF FewLater, NodesWith
  <1>4. ASSUME NEW n \in Nodes, ~ Precolored(n)
        PROVE  Cardinality(RemainingAdjacent(n)') <= node_degrees'[n]
    <2>1. RemainingAdjacent(n)' \subseteq InterferingWith(liveness, n)
      BY <1>2 DEF RemainingAdjacent
    <2> QED
      BY <1>2, <1>4, <2>1, SubsetCardinality, InterferingAreNodes
  <1>5. DegreesBound'
    BY <1>2, <1>4 DEF DegreesBound, Precolored
  <1> QED
    BY <1>1, <1>3, <1>5 DEF DegreeInv

(* The counts where neither the graph nor the groups change. *)
LEMMA DegreeUnchanged ==
  ASSUME DegreeInv, SameGraph, GraphInv', pc' = "reduce" => UNCHANGED node_degrees,
         prespilled \subseteq prespilled',
         \A n \in Nodes : node_status'[n] = "SELECTED" => node_status[n] = "SELECTED"
  PROVE  DegreeInv'
  <1>1. DegreesBound'
    <2> SUFFICES ASSUME pc' = "reduce", NEW n \in Nodes, InGraph(n)', ~ Precolored(n)
                 PROVE  Cardinality(RemainingAdjacent(n)') <= node_degrees'[n]
      BY DEF DegreesBound, Precolored, SameGraph
    <2>1. pc = "reduce" /\ InGraph(n)
      BY DEF SameGraph
    <2>2. RemainingAdjacent(n)' = {x \in adjacent'[n] : InGraph(x)'}
      BY RemainingInGraphNext DEF GraphInv
    <2>3. adjacent[n] \subseteq Nodes
      BY DEF DegreeInv, GraphInv, ListInv, TypeInv, TypeOK
    <2>4. RemainingAdjacent(n)' = RemainingAdjacent(n)
      BY <2>1, <2>2, <2>3, RemainingInGraph DEF SameGraph, DegreeInv, GraphInv
    <2> QED
      BY <2>1, <2>4 DEF DegreeInv, DegreesBound
  <1>2. \A n \in Nodes : Removed(n) => LaterNeighbours(n)' = LaterNeighbours(n)
    BY DEF LaterNeighbours, Later, SameGraph
  <1>3. FewLater'
    BY <1>2 DEF DegreeInv, FewLater, NodesWith, Removed
  <1> QED
    BY <1>1, <1>3 DEF DegreeInv

(****************************************************************************)
(* A node with a low degree is removed: the groups it sees that are left    *)
(* are among its remaining neighbours, since the graph is closed.           *)
(****************************************************************************)
LEMMA DegreeRemoveOne == DegreeInv /\ RemoveOne => DegreeInv'
  <1> SUFFICES ASSUME DegreeInv, pc = "reduce", NEW n \in NextRemovable, Remove(n)
               PROVE  DegreeInv'
    BY DEF RemoveOne
  <1>1. GraphInv /\ ListInv
    BY DEF DegreeInv, GraphInv
  <1>2. n \in Nodes /\ node_status[n] = "REMOVABLE" /\ InGraph(n) /\ n \notin adjacent[n]
    BY <1>1 DEF NextRemovable, Front, NodesWith, InGraph, ListInv, Symmetric
  <1>3. RemoveEffect(n)
    BY <1>1, RemoveChanges
  <1>4. GraphInv' /\ ListInv'
    BY <1>1, GraphRemoveOne DEF RemoveOne, GraphInv
  <1>5. /\ pc' = "reduce" /\ UNCHANGED <<liveness, adjacent, group, prespilled>>
        /\ node_rank'[n] = clock
        /\ \A x \in Nodes :
             node_degrees'[x] = IF x \in Lowered(n) THEN node_degrees[x] - 1 ELSE node_degrees[x]
    BY <1>3 DEF RemoveEffect
  <1>6. \A x \in Dropped(Lowered(n)) : x \in Nodes /\ x # n /\ node_status[x] = "SPILLABLE"
    BY <1>1, DroppedAreSpillable
  <1>7. ASSUME NEW x \in Nodes
        PROVE  /\ InGraph(x)' <=> InGraph(x) /\ x # n
               /\ Removed(x)' <=> Removed(x) \/ x = n
               /\ node_status'[x] = "SELECTED" => node_status[x] = "SELECTED" \/ x = n
               /\ Removed(x) => node_rank'[x] = node_rank[x]
    <2>1. CASE x = n
      BY <1>2, <1>3, <2>1 DEF RemoveEffect, InGraph, Removed
    <2>2. CASE x \in Dropped(Lowered(n))
      BY <1>3, <1>6, <2>2 DEF RemoveEffect, InGraph, Removed
    <2>3. CASE x # n /\ x \notin Dropped(Lowered(n))
      BY <1>3, <2>3 DEF RemoveEffect, InGraph, Removed
    <2> QED
      BY <2>1, <2>2, <2>3
  <1>8. \A x \in Nodes : adjacent[x] \subseteq Nodes /\ node_degrees[x] \in Int
    BY <1>1 DEF ListInv, TypeInv, TypeOK
  <1>9. DegreesBound'
    <2> SUFFICES ASSUME NEW x \in Nodes, InGraph(x)', ~ Precolored(x)
                 PROVE  Cardinality(RemainingAdjacent(x)') <= node_degrees'[x]
      BY <1>5 DEF DegreesBound, Precolored
    <2>1. InGraph(x) /\ x # n
      BY <1>7
    <2>2. Cardinality(RemainingAdjacent(x)) <= node_degrees[x]
      BY <2>1 DEF DegreeInv, DegreesBound
    <2>3. RemainingAdjacent(x)' = RemainingAdjacent(x) \ {n}
      BY <1>1, <1>4, <1>5, <1>7, <1>8, RemainingInGraph, RemainingInGraphNext
    <2>4. x \in Lowered(n) <=> n \in RemainingAdjacent(x)
      <3>1. x \in adjacent[n] <=> n \in adjacent[x]
        BY <1>1, <1>2 DEF ListInv, Symmetric
      <3>2. node_status[x] # "PRECOLORED"
        BY <1>1 DEF ListInv, MachineKept
      <3>3. node_status[x] \notin {"SELECTED", "COALESCED"}
        BY <2>1 DEF InGraph
      <3> QED
        BY <1>2, <3>1, <3>2, <3>3 DEF Lowered, RemainingAdjacent
    <2>5. RemainingAdjacent(x) \in SUBSET Nodes
      BY <1>1, RemainingInGraph
    <2>6. IsFiniteSet(RemainingAdjacent(x)) /\ Cardinality(RemainingAdjacent(x)) \in Nat
      BY <2>5, NodesFinite
    <2>7. Cardinality(RemainingAdjacent(x) \ {n}) =
            IF n \in RemainingAdjacent(x) THEN Cardinality(RemainingAdjacent(x)) - 1
            ELSE Cardinality(RemainingAdjacent(x))
      BY <2>6, FS_RemoveElement
    <2> QED
      BY <1>5, <1>8, <2>2, <2>3, <2>4, <2>6, <2>7
  <1>10. \A x \in Nodes : node_rank[x] \in Nat /\ node_rank'[x] \in Nat /\ node_rank[x] < clock
                          /\ clock \in Nat
    BY <1>1, <1>4 DEF ListInv, TypeInv, TypeOK, RanksPast
  <1>11. FewLater'
    <2> SUFFICES ASSUME NEW y \in Nodes, node_status'[y] = "SELECTED", y \notin prespilled
                 PROVE  Cardinality(LaterNeighbours(y)') < colorcount
      BY <1>5 DEF FewLater, NodesWith
    <2>1. CASE y = n
      <3>1. LaterNeighbours(n)' \subseteq RemainingAdjacent(n)
        <4> SUFFICES ASSUME NEW x \in adjacent[n], group[x] \in Later(n)'
                     PROVE  group[x] \in RemainingAdjacent(n)
          BY <1>5 DEF LaterNeighbours
        <4>1. x \in Nodes /\ group[x] \in Nodes
          BY <1>1, <1>2, <1>8 DEF ListInv, TypeInv, TypeOK
        <4>2. InGraph(group[x])
          <5>1. PICK s \in Nodes : s = group[x]
            BY <4>1
          <5>2. InGraph(s)' \/ (Removed(s)' /\ clock < node_rank'[s])
            BY <1>5, <5>1 DEF Later
          <5>3. InGraph(s)
            BY <1>5, <1>7, <1>10, <5>2
          <5> QED
            BY <5>1, <5>3
        <4>3. group[x] \in adjacent[n]
          BY <1>1, <1>2, <4>1, <4>2 DEF GraphInv, Closed
        <4> QED
          BY <1>1, <1>2, <4>2, <4>3, RemainingInGraph
      <3>2. node_degrees[n] < colorcount
        BY <1>1, <1>2, <2>1 DEF ListInv, WorklistsExact
      <3>3. ~ Precolored(n)
        BY <1>1, <1>2 DEF ListInv, MachineKept
      <3>4. Cardinality(RemainingAdjacent(n)) <= node_degrees[n]
        BY <1>2, <3>3 DEF DegreeInv, DegreesBound
      <3>5. RemainingAdjacent(n) \in SUBSET Nodes
        BY <1>1, <1>2, RemainingInGraph
      <3> QED
        BY <1>2, <1>8, <2>1, <3>1, <3>2, <3>4, <3>5, SubsetCardinality, CountsAssumption
    <2>2. CASE y # n
      <3>1. node_status[y] = "SELECTED" /\ Removed(y)
        BY <1>7, <2>2 DEF Removed
      <3>2. Later(y)' \subseteq Later(y)
        <4> SUFFICES ASSUME NEW s \in Nodes,
                            InGraph(s)' \/ (Removed(s)' /\ node_rank'[y] < node_rank'[s])
                     PROVE  InGraph(s) \/ (Removed(s) /\ node_rank[y] < node_rank[s])
          BY DEF Later
        <4> QED
          BY <1>2, <1>7, <3>1
      <3>3. LaterNeighbours(y)' \subseteq LaterNeighbours(y)
        BY <1>5, <3>2 DEF LaterNeighbours
      <3>4. Cardinality(LaterNeighbours(y)) < colorcount
        BY <3>1, <2>2 DEF DegreeInv, FewLater, NodesWith
      <3> QED
        BY <3>3, <3>4, LaterAreNodes, SubsetCardinality, CountsAssumption
    <2> QED
      BY <2>1, <2>2
  <1> QED
    BY <1>4, <1>9, <1>11 DEF DegreeInv

(* Exchanging one element adds nothing. *)
LEMMA ExchangeCardinality ==
  ASSUME NEW S \in SUBSET Nodes, NEW out \in S, NEW in \in Nodes, NEW T,
         T \subseteq (S \ {out}) \cup {in}
  PROVE  Cardinality(T) \in Nat /\ Cardinality(T) <= Cardinality(S)
  <1>1. IsFiniteSet(S) /\ Cardinality(S) \in Nat
    BY NodesFinite
  <1>2. IsFiniteSet(S \ {out}) /\ Cardinality(S \ {out}) = Cardinality(S) - 1
    BY <1>1, FS_RemoveElement
  <1>3. Cardinality((S \ {out}) \cup {in}) <= Cardinality(S)
    <2> DEFINE rest == S \ {out}
    <2> HIDE DEF rest
    <2>1. IsFiniteSet(rest) /\ Cardinality(rest) = Cardinality(S) - 1
      BY <1>2 DEF rest
    <2>2. Cardinality(rest \cup {in}) = IF in \in rest THEN Cardinality(rest)
                                       ELSE Cardinality(rest) + 1
      BY <2>1, FS_AddElement
    <2> QED
      BY <1>1, <2>1, <2>2 DEF rest
  <1>4. (S \ {out}) \cup {in} \in SUBSET Nodes
    OBVIOUS
  <1>5. /\ Cardinality(T) \in Nat /\ Cardinality((S \ {out}) \cup {in}) \in Nat
        /\ Cardinality(T) <= Cardinality((S \ {out}) \cup {in})
    BY <1>4, SubsetCardinality
  <1> QED
    BY <1>1, <1>3, <1>5

(****************************************************************************)
(* A combination.  Each neighbour that remain gains has lost remove; a      *)
(* selected node sees one group instead of another, or two groups become    *)
(* one.                                                                     *)
(****************************************************************************)
LEMMA DegreeCombine ==
  ASSUME DegreeInv, NEW m \in Ins, CoalesceCombine(m)
  PROVE  DegreeInv'
  <1> SUFFICES ASSUME NEW remain, NEW remove, remain = Ends(m)[1], remove = Ends(m)[2]
               PROVE  DegreeInv'
    OBVIOUS
  <1> DEFINE gained == {x \in adjacent[remove] \ adjacent[remain] : InGraph(x)}
  <1>1. GraphInv /\ ListInv
    BY DEF DegreeInv, GraphInv
  <1>2. /\ pc = "reduce" /\ pc' = "reduce" /\ UNCHANGED <<liveness, prespilled>>
        /\ remain \in Nodes /\ remove \in Nodes /\ remain # remove
        /\ InGraph(remain) /\ InGraph(remove)
        /\ remain \notin adjacent[remove] /\ remove \notin adjacent[remain]
        /\ Gained(remain, remove) = gained
    BY <1>1, CombinedNodes
  <1>3. \A x \in Nodes : /\ InGraph(x)' <=> InGraph(x) /\ x # remove
                         /\ Removed(x)' <=> Removed(x)
                         /\ Removed(x) => node_rank'[x] = node_rank[x] /\ ~ InGraph(x)
                         /\ group'[x] = IF group[x] = remove THEN remain ELSE group[x]
    BY <1>1, CombinedNodes
  <1>4. \A x \in Nodes : \A y :
          y \in adjacent'[x] <=>
            \/ y \in adjacent[x]
            \/ x = remain /\ y \in gained
            \/ x \in gained /\ y = remain
    BY <1>1, <1>2, CombinedEdgesHold DEF CombinedEdges
  <1>5. CombineEffect(m, remain, remove)
    BY <1>1, CombineChanges
  <1>6. GraphInv' /\ ListInv'
    BY <1>1, GraphCombine DEF GraphInv
  <1>7. \A x, y \in Nodes : x \in adjacent[y] => y \in adjacent[x] /\ x # y
    BY <1>1 DEF ListInv, Symmetric
  <1>8. \A x \in Nodes : adjacent[x] \subseteq Nodes /\ node_degrees[x] \in Int
    BY <1>1 DEF ListInv, TypeInv, TypeOK
  <1>9. \A x \in Nodes : /\ RemainingAdjacent(x) = {y \in adjacent[x] : InGraph(y)}
                         /\ RemainingAdjacent(x) \in SUBSET Nodes
                         /\ RemainingAdjacent(x)' = {y \in adjacent'[x] : InGraph(y)'}
    BY <1>1, <1>2, <1>6, RemainingInGraph, RemainingInGraphNext
  <1>10. gained \in SUBSET Nodes
    BY <1>2, <1>8
  <1>11. DegreesBound'
    <2> SUFFICES ASSUME NEW x \in Nodes, InGraph(x)', ~ Precolored(x)
                 PROVE  Cardinality(RemainingAdjacent(x)') <= node_degrees'[x]
      BY <1>2 DEF DegreesBound, Precolored
    <2>1. InGraph(x) /\ x # remove
      BY <1>3
    <2>2. Cardinality(RemainingAdjacent(x)) <= node_degrees[x]
      BY <1>2, <2>1 DEF DegreeInv, DegreesBound
    <2>3. CASE x = remain
      <3>1. RemainingAdjacent(remain)' \subseteq RemainingAdjacent(remain) \cup gained
        BY <1>2, <1>3, <1>4, <1>8, <1>9, <1>10
      <3>2. node_degrees'[x] = node_degrees[x] + Cardinality(gained)
        BY <1>1, <1>2, <1>5, <2>3 DEF CombineEffect, ListInv, MachineKept
      <3> HIDE DEF gained
      <3>3. /\ IsFiniteSet(RemainingAdjacent(x)) /\ Cardinality(RemainingAdjacent(x)) \in Nat
            /\ IsFiniteSet(gained) /\ Cardinality(gained) \in Nat
        BY <1>9, <1>10, NodesFinite
      <3>4. Cardinality(RemainingAdjacent(x) \cap gained) \in Nat
        BY <1>10, NodesFinite
      <3>5. Cardinality(RemainingAdjacent(x) \cup gained)
              = Cardinality(RemainingAdjacent(x)) + Cardinality(gained)
                - Cardinality(RemainingAdjacent(x) \cap gained)
        BY <3>3, FS_Union
      <3>6. RemainingAdjacent(x) \cup gained \in SUBSET Nodes
        BY <1>9, <1>10
      <3>7. /\ Cardinality(RemainingAdjacent(x)') \in Nat
            /\ Cardinality(RemainingAdjacent(x)') <= Cardinality(RemainingAdjacent(x) \cup gained)
        BY <2>3, <3>1, <3>6, SubsetCardinality
      <3> QED
        BY <1>8, <2>2, <3>2, <3>3, <3>4, <3>5, <3>7
    <2>4. CASE x \in gained /\ x # remain
      <3>1. remove \in RemainingAdjacent(x)
        BY <1>2, <1>7, <1>9, <2>4
      <3>2. RemainingAdjacent(x)' \subseteq (RemainingAdjacent(x) \ {remove}) \cup {remain}
        BY <1>3, <1>4, <1>8, <1>9, <2>4
      <3>3. /\ Cardinality(RemainingAdjacent(x)') \in Nat
            /\ Cardinality(RemainingAdjacent(x)') <= Cardinality(RemainingAdjacent(x))
        BY <1>2, <1>9, <3>1, <3>2, ExchangeCardinality
      <3>4. node_degrees'[x] = node_degrees[x] /\ Cardinality(RemainingAdjacent(x)) \in Nat
        BY <1>5, <1>9, <2>4, NodesFinite DEF CombineEffect
      <3> QED
        BY <1>8, <2>2, <3>3, <3>4
    <2>5. CASE x \notin gained /\ x # remain
      <3>1. RemainingAdjacent(x)' \subseteq RemainingAdjacent(x)
        <4> HIDE DEF gained
        <4> QED
          BY <1>3, <1>4, <1>8, <1>9, <2>5
      <3>2. node_degrees'[x] = node_degrees[x]
        BY <1>5, <2>5 DEF CombineEffect
      <3> QED
        BY <1>8, <1>9, <2>2, <3>1, <3>2, SubsetCardinality
    <2> QED
      BY <2>3, <2>4, <2>5
  <1>12. FewLater'
    <2> SUFFICES ASSUME NEW y \in Nodes, node_status'[y] = "SELECTED", y \notin prespilled
                 PROVE  Cardinality(LaterNeighbours(y)') < colorcount
      BY <1>2 DEF FewLater, NodesWith
    <2>1. Removed(y) /\ y \notin {remain, remove} /\ y \notin gained
      BY <1>2, <1>3 DEF Removed
    <2>2. node_status[y] = "SELECTED"
      BY <1>5, <2>1 DEF CombineEffect
    <2>3. \A x : x \in adjacent'[y] <=> x \in adjacent[y]
      <3> HIDE DEF gained
      <3> QED
        BY <1>4, <2>1
    <2>4. Later(y)' \subseteq Later(y) \ {remove}
      <3> SUFFICES ASSUME NEW s \in Nodes,
                          InGraph(s)' \/ (Removed(s)' /\ node_rank'[y] < node_rank'[s])
                   PROVE  /\ InGraph(s) \/ (Removed(s) /\ node_rank[y] < node_rank[s])
                          /\ s # remove
        BY DEF Later
      <3> QED
        BY <1>2, <1>3, <2>1
    <2>5. Cardinality(LaterNeighbours(y)) < colorcount /\ LaterNeighbours(y) \in SUBSET Nodes
      BY <2>1, <2>2, LaterAreNodes DEF DegreeInv, FewLater, NodesWith
    <2>6. \A g \in LaterNeighbours(y)' :
            /\ g \in Later(y) \ {remove}
            /\ \E x \in adjacent[y] : g = IF group[x] = remove THEN remain ELSE group[x]
      <3> SUFFICES ASSUME NEW x \in adjacent'[y], group'[x] \in Later(y)'
                   PROVE  /\ group'[x] \in Later(y) \ {remove}
                          /\ \E z \in adjacent[y] :
                               group'[x] = IF group[z] = remove THEN remain ELSE group[z]
        BY DEF LaterNeighbours
      <3>1. x \in adjacent[y] /\ x \in Nodes
        BY <1>8, <2>3
      <3> QED
        BY <1>3, <2>4, <3>1
    <2>7. CASE remove \in LaterNeighbours(y)
      <3>1. LaterNeighbours(y)' \subseteq (LaterNeighbours(y) \ {remove}) \cup {remain}
        BY <2>6 DEF LaterNeighbours
      <3>2. /\ Cardinality(LaterNeighbours(y)') \in Nat
            /\ Cardinality(LaterNeighbours(y)') <= Cardinality(LaterNeighbours(y))
        BY <1>2, <2>5, <2>7, <3>1, ExchangeCardinality
      <3> QED
        BY <2>5, <3>2, NodesFinite, CountsAssumption
    <2>8. CASE remove \notin LaterNeighbours(y)
      <3>1. \A x \in adjacent[y] : group[x] # remove
        BY <1>2, <2>8 DEF LaterNeighbours, Later
      <3>2. LaterNeighbours(y)' \subseteq LaterNeighbours(y)
        BY <2>6, <3>1 DEF LaterNeighbours
      <3> QED
        BY <2>5, <3>2, SubsetCardinality, CountsAssumption
    <2> QED
      BY <2>7, <2>8
  <1> QED
    BY <1>6, <1>11, <1>12 DEF DegreeInv

LEMMA DegreeNext == DegreeInv /\ [Next]_vars => DegreeInv'
  <1> SUFFICES ASSUME DegreeInv, [Next]_vars PROVE DegreeInv'
    OBVIOUS
  <1>1. GraphInv' /\ GraphInv /\ ListInv
    BY GraphNext DEF DegreeInv, GraphInv
  <1>2. CASE \E m \in Ins : CoalesceAgain(m) \/ CoalesceConstrained(m) \/ CoalesceAfraid(m)
    <2>1. SameGraph /\ pc = "reduce" /\ UNCHANGED <<node_degrees, prespilled>>
      BY <1>1, <1>2, SameGraphCoalesce
    <2>2. \A n \in Nodes : node_status'[n] = "SELECTED" => node_status[n] = "SELECTED"
      BY <1>1, <2>1 DEF SameGraph, Removed, ListInv, StatusOfPhase, InGraph
    <2> QED
      BY <1>1, <2>1, <2>2, DegreeUnchanged
  <1>3. CASE FreezeOne \/ PrespillOne
    <2>1. SameGraph /\ pc = "reduce" /\ UNCHANGED node_degrees /\ prespilled \subseteq prespilled'
      BY <1>1, <1>3, SameGraphGiveUp
    <2>2. \A n \in Nodes : node_status'[n] = "SELECTED" => node_status[n] = "SELECTED"
      BY <1>1, <2>1 DEF SameGraph, Removed, ListInv, StatusOfPhase, InGraph
    <2> QED
      BY <1>1, <2>1, <2>2, DegreeUnchanged
  <1>4. CASE StopReducing \/ AssignColor \/ FinishColors
    <2>1. SameGraph /\ pc' # "reduce" /\ UNCHANGED prespilled
      BY <1>1, <1>4, SameGraphColoring
    <2>2. \A n \in Nodes : node_status'[n] = "SELECTED" => node_status[n] = "SELECTED"
      BY <1>1, <1>4 DEF StopReducing, AssignColor, FinishColors, ListInv, TypeInv, TypeOK,
                        NextSelected, Back, NodesWith, node_vars
    <2> QED
      BY <1>1, <2>1, <2>2, DegreeUnchanged
  <1>5. CASE UNCHANGED vars
    BY <1>1, <1>5
       DEF vars, graph_vars, node_vars, DegreeInv, DegreesBound, FewLater, NodesWith,
           LaterNeighbours, Later, InGraph, Removed, Precolored, RemainingAdjacent
  <1> QED
    BY <1>2, <1>3, <1>4, <1>5, DegreeBuild, DegreeRemoveOne, DegreeCombine
       DEF Next, Terminated, CoalesceOne

LEMMA DegreeInvariant == Spec => []DegreeInv
  BY DegreeInit, DegreeNext, PTL DEF Spec

(****************************************************************************)
(* node_degrees never counts a neighbour too few, although combineNodes     *)
(* does not count anew.                                                     *)
(****************************************************************************)
THEOREM DegreesNeverTooLow == Spec => []DegreesBound
  <1>1. DegreeInv => DegreesBound
    BY DEF DegreeInv
  <1> QED
    BY <1>1, DegreeInvariant, PTL

------------------------------------------------------------------------------
(* Colours. *)

(* Until they are copied to the coalesced nodes, colours belong to the nodes that have them. *)
Colored ==
  pc \in {"build", "reduce", "color"} =>
    \A n \in Nodes :
      /\ colors[n] # NoColor <=> node_status[n] \in {"PRECOLORED", "COLORED"}
      /\ Precolored(n) => colors[n] = liveness.machine[n]

(* assignColors takes the nodes in the opposite order of their removal. *)
SelectedFirst ==
  \A x, y \in Nodes :
    node_status[x] = "SELECTED" /\ node_status[y] \in {"COLORED", "SPILLED"}
      => node_rank[x] < node_rank[y]

ProperGroups ==
  pc \notin {"build", "reduce"} =>
    \A a, b \in Nodes :
      Interferes(liveness, a, b) /\ colors[group[a]] # NoColor
        => colors[group[a]] # colors[group[b]]

ColorInv ==
  /\ DegreeInv /\ Colored /\ SelectedFirst /\ ProperGroups
  /\ OnlyPrespilledAreSpilled /\ SimplifyAssertsHold /\ CoalescedMovesVanish

(* The groups of machine registers have different colours, and no other has one yet. *)
LEMMA MachineColorsDiffer ==
  ASSUME ListInv, Colored, pc = "reduce", NEW r \in Nodes, NEW s \in Nodes, r # s,
         colors[r] # NoColor
  PROVE  colors[r] # colors[s]
  <1>1. \A n \in Nodes : colors[n] # NoColor <=> Precolored(n)
    BY DEF Colored, ListInv, MachineKept, StatusOfPhase, InGraph
  <1>2. \A n \in Nodes : Precolored(n) => colors[n] = liveness.machine[n]
    BY DEF Colored
  <1>3. liveness \in Inputs
    BY DEF ListInv, TypeInv, InputKnown
  <1>4. CASE Precolored(s)
    BY <1>1, <1>2, <1>3, <1>4, InputsAssumption DEF Precolored
  <1>5. CASE ~ Precolored(s)
    BY <1>1, <1>5
  <1> QED
    BY <1>4, <1>5

LEMMA ReducedProper ==
  ASSUME GraphInv, Colored, pc = "reduce", NEW a \in Nodes, NEW b \in Nodes,
         Interferes(liveness, a, b), colors[group[a]] # NoColor
  PROVE  colors[group[a]] # colors[group[b]]
  <1>1. group[a] \in Nodes /\ group[b] \in Nodes
    BY DEF GraphInv, ListInv, TypeInv, TypeOK
  <1>2. group[a] # group[b]
    BY DEF GraphInv, Separated, SeparatedNodes
  <1> QED
    BY <1>1, <1>2, MachineColorsDiffer DEF GraphInv

LEMMA ColorInit == Init => ColorInv
  <1> SUFFICES ASSUME Init PROVE ColorInv
    OBVIOUS
  <1>1. Colored
    BY DEF Init, Colored, Precolored
  <1> QED
    BY <1>1, DegreeInit
       DEF Init, ColorInv, SelectedFirst, ProperGroups, OnlyPrespilledAreSpilled, NodesWith,
           SimplifyAssertsHold, CoalescedMovesVanish

(* A pass of the loop of tryColoring gives no colour. *)
LEMMA ColorReduce ==
  ASSUME ColorInv, DegreeInv', pc \in {"build", "reduce"}, pc' = "reduce",
         UNCHANGED <<liveness, colors>>
  PROVE  ColorInv'
  <1>1. ListInv /\ ListInv'
    BY DEF ColorInv, DegreeInv, GraphInv
  <1>2. \A n \in Nodes : /\ node_status[n] # "COLORED"
                         /\ node_status'[n] \notin {"COLORED", "SPILLED"}
                         /\ node_status[n] = "PRECOLORED" <=> Precolored(n)
                         /\ node_status'[n] = "PRECOLORED" <=> Precolored(n)
    BY <1>1 DEF ListInv, StatusOfPhase, InGraph, MachineKept, Precolored
  <1>3. Colored'
    BY <1>2 DEF ColorInv, Colored, Precolored
  <1> QED
    BY <1>2, <1>3
       DEF ColorInv, SelectedFirst, ProperGroups, OnlyPrespilledAreSpilled, NodesWith,
           SimplifyAssertsHold, CoalescedMovesVanish

(* An assert of freezeMoves, or the end of the loop. *)
LEMMA ColorStop ==
  ASSUME ColorInv, DegreeInv', pc = "reduce",
         pc' \in {"freezeMoves830", "freezeMoves834", "color"},
         UNCHANGED <<liveness, group, node_status, node_rank, colors, prespilled>>
  PROVE  ColorInv'
  <1>1. ProperGroups'
    BY ReducedProper DEF ColorInv, DegreeInv, ProperGroups
  <1> QED
    BY <1>1 DEF ColorInv, Colored, SelectedFirst, OnlyPrespilledAreSpilled, NodesWith,
                SimplifyAssertsHold, CoalescedMovesVanish, Precolored

(* What has a colour when n gets one was in the graph or removed after n. *)
LEMMA ColoredAreLater ==
  ASSUME ColorInv, pc = "color", NEW n \in NextSelected, NEW h \in Nodes,
         node_status[h] \in {"PRECOLORED", "COLORED"}
  PROVE  h \in Later(n)
  BY DEF ColorInv, SelectedFirst, NextSelected, Back, NodesWith, Later, InGraph, Removed

(* A colour that is free for n is not that of a group n interferes with. *)
LEMMA FreeColorsAvoid ==
  ASSUME ColorInv, pc = "color", NEW n \in NextSelected, NEW c \in FreeColors(n),
         NEW a \in Nodes, NEW b \in Nodes, Interferes(liveness, a, b), group[a] = n
  PROVE  group[b] # n /\ colors[group[b]] # c
  <1>1. n \in Nodes /\ node_status[n] = "SELECTED"
    BY DEF NextSelected, Back, NodesWith
  <1>2. PICK s \in Nodes : s = group[b]
    BY DEF ColorInv, DegreeInv, GraphInv, ListInv, TypeInv, TypeOK
  <1>3. SeparatedNodes(n, s)
    BY <1>2 DEF ColorInv, DegreeInv, GraphInv, Separated
  <1>4. c \in Colors /\ c # NoColor
    BY CountsAssumption DEF FreeColors, Colors, NoColor
  <1>5. CASE node_status[s] \in {"PRECOLORED", "COLORED"}
    <2>1. Sees(n, s)
      BY <1>1, <1>3, <1>5, ColoredAreLater DEF SeparatedNodes, Later, Removed
    <2> QED
      BY <1>2, <1>3, <1>5, <2>1 DEF SeparatedNodes, Sees, FreeColors
  <1>6. CASE node_status[s] \notin {"PRECOLORED", "COLORED"}
    BY <1>2, <1>3, <1>4, <1>6 DEF SeparatedNodes, ColorInv, Colored
  <1> QED
    BY <1>5, <1>6

(****************************************************************************)
(* A node that was removed with a low degree finds a colour: the coloured   *)
(* groups it sees are fewer than the colours.                               *)
(****************************************************************************)
LEMMA LowDegreeFindsColor ==
  ASSUME ColorInv, pc = "color", NEW n \in NextSelected, n \notin prespilled
  PROVE  FreeColors(n) # {}
  <1> DEFINE groups == {h \in {group[x] : x \in adjacent[n]} :
                           node_status[h] \in {"PRECOLORED", "COLORED"}}
             taken  == {colors[g] : g \in groups}
             f      == [g \in groups |-> colors[g]]
  <1>1. n \in Nodes /\ node_status[n] = "SELECTED"
    BY DEF NextSelected, Back, NodesWith
  <1>2. groups \subseteq LaterNeighbours(n)
    <2>1. \A x \in adjacent[n] : group[x] \in Nodes
      BY <1>1 DEF ColorInv, DegreeInv, GraphInv, ListInv, TypeInv, TypeOK
    <2> QED
      BY <2>1, ColoredAreLater DEF LaterNeighbours
  <1>3. Cardinality(LaterNeighbours(n)) < colorcount
    BY <1>1 DEF ColorInv, DegreeInv, FewLater, NodesWith
  <1>4. /\ Cardinality(groups) \in Nat /\ Cardinality(LaterNeighbours(n)) \in Nat
        /\ Cardinality(groups) <= Cardinality(LaterNeighbours(n))
        /\ groups \in SUBSET Nodes
    <2> HIDE DEF groups
    <2> QED
      BY <1>2, LaterAreNodes, SubsetCardinality
  <1>5. FreeColors(n) = Colors \ taken
    BY DEF FreeColors
  <1> HIDE DEF groups
  <1>6. IsFiniteSet(taken) /\ Cardinality(taken) <= Cardinality(groups)
    <2>1. f \in Surjection(groups, taken)
      BY DEF Surjection
    <2>2. IsFiniteSet(groups)
      BY <1>4, NodesFinite
    <2> HIDE DEF f, taken
    <2> QED
      BY <2>1, <2>2, FS_Surjection
  <1>7. Cardinality(Colors) = colorcount
    BY CountsAssumption, FS_Interval DEF Colors
  <1> HIDE DEF taken
  <1>8. ASSUME FreeColors(n) = {} PROVE FALSE
    <2>1. Colors \subseteq taken
      BY <1>5, <1>8
    <2>2. Cardinality(Colors) <= Cardinality(taken)
      BY <1>6, <2>1, FS_Subset
    <2>3. Cardinality(taken) \in Nat
      BY <1>6, FS_CardinalityType
    <2> QED
      BY <1>3, <1>4, <1>6, <1>7, <2>2, <2>3, CountsAssumption
  <1> QED
    BY <1>8

LEMMA ColorAssign == ColorInv /\ AssignColor => ColorInv'
  <1> SUFFICES ASSUME ColorInv, AssignColor PROVE ColorInv'
    OBVIOUS
  <1>1. DegreeInv' /\ ListInv /\ RanksDiffer
    BY DegreeNext DEF Next, ColorInv, DegreeInv, GraphInv
  <1>2. PICK n \in NextSelected :
          \/ /\ FreeColors(n) = {}
             /\ node_status' = [node_status EXCEPT ![n] = "SPILLED"]
             /\ UNCHANGED colors
          \/ \E c \in FreeColors(n) :
             /\ node_status' = [node_status EXCEPT ![n] = "COLORED"]
             /\ colors' = [colors EXCEPT ![n] = c]
    BY DEF AssignColor
  <1>3. /\ n \in Nodes /\ node_status[n] = "SELECTED"
        /\ \A x \in Nodes : node_status[x] = "SELECTED" => node_rank[n] >= node_rank[x]
    BY DEF NextSelected, Back, NodesWith
  <1>4. /\ pc = "color" /\ pc' = "color"
        /\ UNCHANGED <<liveness, node_rank, move_status, group, prespilled>>
    BY DEF AssignColor, move_vars
  <1>5. /\ \A x \in Nodes \ {n} : node_status'[x] = node_status[x] /\ colors'[x] = colors[x]
        /\ \/ /\ FreeColors(n) = {} /\ node_status'[n] = "SPILLED" /\ colors'[n] = colors[n]
           \/ /\ node_status'[n] = "COLORED" /\ colors'[n] \in FreeColors(n)
    BY <1>1, <1>2, <1>3 DEF ListInv, TypeInv, TypeOK
  <1>6. \A c \in FreeColors(n) : c # NoColor
    BY CountsAssumption DEF FreeColors, Colors, NoColor
  <1>7. ~ Precolored(n) /\ colors[n] = NoColor
    BY <1>1, <1>3, <1>4 DEF ListInv, MachineKept, ColorInv, Colored
  <1>8. Colored'
    BY <1>3, <1>4, <1>5, <1>6, <1>7 DEF ColorInv, Colored, Precolored
  <1>9. SelectedFirst'
    <2> SUFFICES ASSUME NEW x \in Nodes, NEW y \in Nodes, node_status'[x] = "SELECTED",
                        node_status'[y] \in {"COLORED", "SPILLED"}
                 PROVE  node_rank[x] < node_rank[y]
      BY <1>4 DEF SelectedFirst
    <2>1. node_status[x] = "SELECTED" /\ x # n
      BY <1>5
    <2>2. CASE y = n
      <3>1. node_rank[x] # node_rank[n]
        BY <1>1, <1>3, <2>1 DEF RanksDiffer, Removed
      <3>2. node_rank[x] \in Nat /\ node_rank[n] \in Nat
        BY <1>1, <1>3 DEF ListInv, TypeInv, TypeOK
      <3> QED
        BY <1>3, <2>1, <2>2, <3>1, <3>2
    <2>3. CASE y # n
      BY <1>5, <2>1, <2>3 DEF ColorInv, SelectedFirst
    <2> QED
      BY <2>2, <2>3
  <1>10. ProperGroups'
    <2> SUFFICES ASSUME NEW a \in Nodes, NEW b \in Nodes, Interferes(liveness, a, b),
                        colors'[group[a]] # NoColor
                 PROVE  colors'[group[a]] # colors'[group[b]]
      BY <1>4 DEF ProperGroups
    <2>1. /\ group[a] \in Nodes /\ group[b] \in Nodes
          /\ colors[group[a]] # NoColor => colors[group[a]] # colors[group[b]]
          /\ Interferes(liveness, b, a)
      BY <1>1, <1>4, InterferesSymmetric DEF ListInv, TypeInv, TypeOK, ColorInv, ProperGroups
    <2>2. CASE colors' = colors
      BY <2>1, <2>2
    <2>3. CASE colors'[n] \in FreeColors(n)
      <3>1. CASE group[a] = n
        BY <1>4, <1>5, <2>1, <2>3, <3>1, FreeColorsAvoid
      <3>2. CASE group[b] = n
        BY <1>4, <1>5, <2>1, <2>3, <3>2, FreeColorsAvoid
      <3>3. CASE group[a] # n /\ group[b] # n
        BY <1>5, <2>1, <3>3
      <3> QED
        BY <3>1, <3>2, <3>3
    <2> QED
      BY <1>2, <1>5, <2>2, <2>3
  <1>11. OnlyPrespilledAreSpilled'
    BY <1>4, <1>5, LowDegreeFindsColor DEF ColorInv, OnlyPrespilledAreSpilled, NodesWith
  <1> QED
    BY <1>1, <1>4, <1>8, <1>9, <1>10, <1>11
       DEF ColorInv, SimplifyAssertsHold, CoalescedMovesVanish

(* Every register ends with the colour of its group, hence checkColors has nothing to find. *)
LEMMA FinishChanges ==
  ASSUME ColorInv, FinishColors
  PROVE  /\ \A n \in Nodes : colors'[n] = colors[group[n]]
         /\ pc' = "done"
         /\ UNCHANGED <<liveness, node_status, node_rank, move_status, group, prespilled>>
  <1>1. \A n \in Nodes : FinalColors[n] = colors[group[n]]
    BY DEF FinalColors, ColorInv, DegreeInv, GraphInv, ListInv, GroupsFlat
  <1>2. /\ pc = "color" /\ colors' = FinalColors
        /\ UNCHANGED <<liveness, node_status, node_rank, move_status, group, prespilled>>
        /\ pc' = IF CheckFails(colors') THEN "checkColors971" ELSE "done"
    BY DEF FinishColors, node_vars, move_vars
  <1>3. liveness \in Inputs
    BY DEF ColorInv, DegreeInv, GraphInv, ListInv, TypeInv, InputKnown
  <1>4. ASSUME NEW i \in Ins, IsMove(liveness, i), Dst(liveness, i) \in liveness.live[i],
               NEW n \in liveness.live[i] \ {Src(liveness, i), Dst(liveness, i)},
               colors'[n] >= 0, colors'[n] = colors'[Dst(liveness, i)]
        PROVE  FALSE
    <2>1. Dst(liveness, i) \in Nodes /\ Dst(liveness, i) \in liveness.assigned[i]
      <3>1. PICK d \in Nodes : liveness.assigned[i] = {d}
        BY <1>3, <1>4, InputsAssumption DEF IsMove
      <3> QED
        BY <3>1 DEF Dst
    <2>2. n \in Nodes /\ DOMAIN liveness.live = Ins
      BY <1>3, InputsAssumption DEF LivenessType
    <2>3. Interferes(liveness, Dst(liveness, i), n)
      BY <1>4, <2>1, <2>2 DEF Interferes, CollidesAt
    <2>4. Interferes(liveness, n, Dst(liveness, i))
      BY <2>3, InterferesSymmetric
    <2>5. colors[group[n]] = colors[group[Dst(liveness, i)]] /\ colors[group[n]] # NoColor
      BY <1>1, <1>2, <1>4, <2>1, <2>2 DEF NoColor
    <2> QED
      BY <1>2, <2>1, <2>2, <2>4, <2>5 DEF ColorInv, ProperGroups
  <1>5. ~ CheckFails(colors')
    BY <1>4 DEF CheckFails
  <1> QED
    BY <1>1, <1>2, <1>5

LEMMA ColorFinish == ColorInv /\ FinishColors => ColorInv'
  <1> SUFFICES ASSUME ColorInv, FinishColors PROVE ColorInv'
    OBVIOUS
  <1>1. DegreeInv' /\ ListInv /\ pc = "color"
    BY DegreeNext DEF Next, ColorInv, DegreeInv, GraphInv, FinishColors
  <1>2. /\ \A n \in Nodes : colors'[n] = colors[group[n]]
        /\ pc' = "done"
        /\ UNCHANGED <<liveness, node_status, node_rank, move_status, group, prespilled>>
    BY FinishChanges
  <1>3. \A n \in Nodes : group[n] \in Nodes /\ group[group[n]] = group[n]
    BY <1>1 DEF ListInv, TypeInv, TypeOK, GroupsFlat
  <1>4. ProperGroups'
    BY <1>1, <1>2, <1>3 DEF ColorInv, ProperGroups
  <1>5. CoalescedMovesVanish'
    BY <1>1, <1>2, RemainingMove DEF CoalescedMovesVanish, MovesWith, ListInv, CoalescedTogether
  <1> QED
    BY <1>1, <1>2, <1>4, <1>5
       DEF ColorInv, Colored, SelectedFirst, OnlyPrespilledAreSpilled, NodesWith,
           SimplifyAssertsHold

LEMMA ColorNext == ColorInv /\ [Next]_vars => ColorInv'
  <1> SUFFICES ASSUME ColorInv, [Next]_vars PROVE ColorInv'
    OBVIOUS
  <1>1. DegreeInv' /\ ListInv
    BY DegreeNext DEF ColorInv, DegreeInv, GraphInv
  <1>2. CASE Build
    BY <1>1, <1>2, ColorReduce DEF Build
  <1>3. CASE RemoveOne
    <2>1. PICK n \in NextRemovable : pc = "reduce" /\ Remove(n)
      BY <1>3 DEF RemoveOne
    <2> QED
      BY <1>1, <2>1, RemoveChanges, ColorReduce DEF RemoveEffect
  <1>4. CASE \E m \in Ins : CoalesceAgain(m) \/ CoalesceConstrained(m) \/ CoalesceAfraid(m)
    BY <1>1, <1>4, SameGraphCoalesce, ColorReduce DEF SameGraph
  <1>5. CASE \E m \in Ins : CoalesceCombine(m)
    <2>1. PICK m \in Ins : CoalesceCombine(m)
      BY <1>5
    <2>2. PICK remain, remove : remain = Ends(m)[1] /\ remove = Ends(m)[2]
      OBVIOUS
    <2> QED
      BY <1>1, <2>1, <2>2, CombinedNodes, ColorReduce
  <1>6. CASE FreezeOne \/ PrespillOne
    BY <1>1, <1>6, SameGraphGiveUp, ColorReduce, ColorStop DEF SameGraph
  <1>7. CASE StopReducing
    BY <1>1, <1>7, ColorStop DEF StopReducing, node_vars
  <1>8. CASE UNCHANGED vars
    BY <1>1, <1>8
       DEF vars, node_vars, move_vars, ColorInv, Colored, SelectedFirst, ProperGroups,
           OnlyPrespilledAreSpilled, NodesWith, SimplifyAssertsHold, CoalescedMovesVanish,
           MovesWith, Precolored
  <1> QED
    BY <1>2, <1>3, <1>4, <1>5, <1>6, <1>7, <1>8, ColorAssign, ColorFinish
       DEF Next, CoalesceOne, Terminated

LEMMA ColorInvariant == Spec => []ColorInv
  BY ColorInit, ColorNext, PTL DEF Spec

(****************************************************************************)
(* A register is spilled only if prespillOne has chosen it: whatever the    *)
(* input, simplifying and coalescing cost no spill.                         *)
(****************************************************************************)
THEOREM SpillsAreChosen == Spec => []OnlyPrespilledAreSpilled
  <1>1. ColorInv => OnlyPrespilledAreSpilled
    BY DEF ColorInv
  <1> QED
    BY <1>1, ColorInvariant, PTL

(****************************************************************************)
(* The asserts of decrementDegree, possiblyUnfreeze and combineNodes never  *)
(* fail, and checkColors never finds two live registers of one colour.      *)
(****************************************************************************)
THEOREM AssertsNeverFail == Spec => []SimplifyAssertsHold
  <1>1. ColorInv => SimplifyAssertsHold
    BY DEF ColorInv
  <1> QED
    BY <1>1, ColorInvariant, PTL

(* Both registers of a coalesced move end with one colour: the move can be dropped. *)
THEOREM MovesVanish == Spec => []CoalescedMovesVanish
  <1>1. ColorInv => CoalescedMovesVanish
    BY DEF ColorInv
  <1> QED
    BY <1>1, ColorInvariant, PTL

------------------------------------------------------------------------------
(* The allocator implements the colouring of its interference graph. *)

LEMMA AbstractInit == Init => Graph!Init
  <1> SUFFICES ASSUME Init PROVE Graph!Init
    OBVIOUS
  <1>1. /\ liveness \in Inputs /\ liveness \in LivenessType
        /\ \A n \in Nodes : colors[group[n]] = liveness.machine[n]
    BY InputsAssumption DEF Init
  <1>2. \A n \in Nodes : liveness.machine[n] \in Colors \cup {NoColor}
    BY <1>1 DEF LivenessType
  <1>3. Graph!TypeOK
    BY <1>1, <1>2 DEF Graph!TypeOK, Graph!Uncolored, NoColor
  <1>4. \A a, b \in Nodes : Interferes(liveness, a, b) => a # b /\ Interferes(liveness, b, a)
    BY InterferesSymmetric
  <1> QED
    BY <1>1, <1>3, <1>4, InputsAssumption DEF Graph!Init, Graph!Uncolored, NoColor

LEMMA AbstractStutter ==
  ASSUME UNCHANGED liveness, \A n \in Nodes : colors'[group'[n]] = colors[group[n]]
  PROVE  UNCHANGED Graph!vars
  BY DEF Graph!vars

(* Every register of S, and no other, gets the colour c. *)
LEMMA AbstractStep ==
  ASSUME UNCHANGED liveness, NEW S \in SUBSET Nodes, NEW c \in Colors,
         \A n \in Nodes : colors'[group'[n]] = IF n \in S THEN c ELSE colors[group[n]],
         \A n \in S : colors[group[n]] = NoColor,
         \A a \in S, b \in Nodes :
           Interferes(liveness, a, b) => b \notin S /\ colors[group[b]] # c
  PROVE  Graph!Next
  <1>1. Graph!ColorGroup(S, c)
    BY DEF Graph!ColorGroup, Graph!Uncolored, NoColor
  <1> QED
    BY <1>1 DEF Graph!Next

(* When a node joins a machine register all its registers get that register's colour. *)
LEMMA AbstractCombine ==
  ASSUME ColorInv, ColorInv', NEW m \in Ins, CoalesceCombine(m)
  PROVE  Graph!Next \/ UNCHANGED Graph!vars
  <1> SUFFICES ASSUME NEW remain, NEW remove, remain = Ends(m)[1], remove = Ends(m)[2]
               PROVE  Graph!Next \/ UNCHANGED Graph!vars
    OBVIOUS
  <1>1. ListInv /\ ListInv' /\ GraphInv'
    BY DEF ColorInv, DegreeInv, GraphInv
  <1>2. /\ pc = "reduce" /\ pc' = "reduce" /\ UNCHANGED <<liveness, colors>>
        /\ remain \in Nodes /\ remove \in Nodes /\ remain # remove
        /\ InGraph(remain) /\ node_status[remove] # "PRECOLORED" /\ InGraph(remove)
        /\ \A x \in Nodes : group'[x] = IF group[x] = remove THEN remain ELSE group[x]
    BY <1>1, CombinedNodes
  <1>3. colors[remove] = NoColor
    BY <1>2 DEF ColorInv, Colored, InGraph
  <1>4. CASE colors[remain] = NoColor
    BY <1>2, <1>3, <1>4, AbstractStutter
  <1>5. CASE colors[remain] # NoColor
    <2> DEFINE S == {x \in Nodes : group[x] = remove}
    <2>1. colors[remain] \in Colors
      BY <1>1, <1>2, <1>5 DEF ListInv, TypeInv, TypeOK
    <2>2. ASSUME NEW a \in S, NEW b \in Nodes, Interferes(liveness, a, b)
          PROVE  b \notin S /\ colors[group[b]] # colors[remain]
      <3>1. group'[a] # group'[b]
        BY <1>1, <1>2, <2>2 DEF GraphInv, Separated, SeparatedNodes
      <3>2. group[b] # remain /\ group[b] # remove /\ group[b] \in Nodes
        BY <1>1, <1>2, <2>2, <3>1 DEF ListInv, TypeInv, TypeOK
      <3> QED
        BY <1>1, <1>2, <1>5, <3>2, MachineColorsDiffer DEF ColorInv
    <2>3. \A n \in Nodes : colors'[group'[n]] = IF n \in S THEN colors[remain] ELSE colors[group[n]]
      BY <1>2
    <2>4. S \in SUBSET Nodes /\ \A n \in S : colors[group[n]] = NoColor
      BY <1>3
    <2> HIDE DEF S
    <2> QED
      BY <1>2, <2>1, <2>2, <2>3, <2>4, AbstractStep
  <1> QED
    BY <1>4, <1>5

LEMMA AbstractAssign ==
  ASSUME ColorInv, AssignColor
  PROVE  Graph!Next \/ UNCHANGED Graph!vars
  <1>1. ListInv
    BY DEF ColorInv, DegreeInv, GraphInv
  <1>2. pc = "color" /\ UNCHANGED <<liveness, group>>
    BY DEF AssignColor
  <1>3. PICK n \in NextSelected :
          \/ UNCHANGED colors
          \/ \E c \in FreeColors(n) : colors' = [colors EXCEPT ![n] = c]
    BY DEF AssignColor
  <1>4. n \in Nodes /\ node_status[n] = "SELECTED"
    BY DEF NextSelected, Back, NodesWith
  <1>5. CASE UNCHANGED colors
    BY <1>2, <1>5, AbstractStutter
  <1>6. ASSUME NEW c \in FreeColors(n), colors' = [colors EXCEPT ![n] = c]
        PROVE  Graph!Next
    <2> DEFINE S == {x \in Nodes : group[x] = n}
    <2>1. \A x \in Nodes : group[x] \in Nodes
      BY <1>1 DEF ListInv, TypeInv, TypeOK
    <2>2. \A x \in Nodes : colors'[group'[x]] = IF x \in S THEN c ELSE colors[group[x]]
      BY <1>1, <1>2, <1>4, <1>6, <2>1 DEF ListInv, TypeInv, TypeOK
    <2>3. S \in SUBSET Nodes /\ \A x \in S : colors[group[x]] = NoColor
      BY <1>2, <1>4 DEF ColorInv, Colored
    <2>4. c \in Colors
      BY DEF FreeColors
    <2>5. ASSUME NEW a \in S, NEW b \in Nodes, Interferes(liveness, a, b)
          PROVE  b \notin S /\ colors[group[b]] # c
      BY <1>2, <2>5, FreeColorsAvoid
    <2> HIDE DEF S
    <2> QED
      BY <1>2, <2>2, <2>3, <2>4, <2>5, AbstractStep
  <1> QED
    BY <1>3, <1>5, <1>6

LEMMA AbstractNext == ColorInv /\ ColorInv' /\ [Next]_vars => [Graph!Next]_(Graph!vars)
  <1> SUFFICES ASSUME ColorInv, ColorInv', [Next]_vars
               PROVE  Graph!Next \/ UNCHANGED Graph!vars
    OBVIOUS
  <1>1. ListInv
    BY DEF ColorInv, DegreeInv, GraphInv
  <1>2. CASE UNCHANGED <<liveness, group, colors>>
    BY <1>2, AbstractStutter
  <1>3. CASE Build \/ RemoveOne
    <2>1. UNCHANGED <<liveness, group, colors>>
      BY <1>1, <1>3, RemoveChanges DEF Build, RemoveOne, RemoveEffect
    <2> QED
      BY <1>2, <2>1
  <1>4. CASE \E m \in Ins : CoalesceAgain(m) \/ CoalesceConstrained(m) \/ CoalesceAfraid(m)
    BY <1>1, <1>2, <1>4, SameGraphCoalesce DEF SameGraph
  <1>5. CASE FreezeOne \/ PrespillOne
    BY <1>1, <1>2, <1>5, SameGraphGiveUp DEF SameGraph
  <1>6. CASE StopReducing \/ UNCHANGED vars
    BY <1>2, <1>6 DEF StopReducing, vars
  <1>7. CASE FinishColors
    <2>1. /\ \A n \in Nodes : colors'[n] = colors[group[n]]
          /\ UNCHANGED <<liveness, group>>
      BY <1>7, FinishChanges
    <2>2. \A n \in Nodes : group[n] \in Nodes /\ group[group[n]] = group[n]
      BY <1>1 DEF ListInv, TypeInv, TypeOK, GroupsFlat
    <2> QED
      BY <2>1, <2>2, AbstractStutter
  <1> QED
    BY <1>2, <1>3, <1>4, <1>5, <1>6, <1>7, AbstractCombine, AbstractAssign
       DEF Next, CoalesceOne, Terminated

(****************************************************************************)
(* The allocator implements GraphColoring: seen through its groups, it      *)
(* starts from the colours of the machine registers, gives a colour to      *)
(* registers that have none, never one that a register they interfere with  *)
(* has, and takes none back.  Coalescing with a machine register and        *)
(* assignColors are its steps, everything else is invisible.                *)
(****************************************************************************)
THEOREM AllocatorColorsGraph == Spec => ImplementsColoring
  BY AbstractInit, AbstractNext, ColorInvariant, PTL DEF Spec, ImplementsColoring, Graph!Spec

(* What GraphColoring promises, said of the groups: at no time do two that interfere agree. *)
LEMMA ProperAlways == ColorInv => Graph!ColoringProper
  <1> SUFFICES ASSUME ColorInv, NEW a \in Nodes, NEW b \in Nodes,
                      Interferes(liveness, a, b), colors[group[a]] # NoColor
               PROVE  colors[group[a]] # colors[group[b]]
    BY DEF Graph!ColoringProper, Graph!Proper, Graph!Uncolored, NoColor
  <1> USE DEF ColorInv, DegreeInv
  <1>1. CASE pc = "build"
    <2>1. group[a] = a /\ group[b] = b /\ a # b
      BY <1>1, InterferesSymmetric DEF GraphInv, ListInv, StatusOfPhase
    <2>2. \A n \in Nodes : colors[n] # NoColor <=> Precolored(n)
      BY <1>1 DEF Colored, GraphInv, ListInv, MachineKept, StatusOfPhase
    <2>3. \A n \in Nodes : Precolored(n) => colors[n] = liveness.machine[n]
      BY <1>1 DEF Colored
    <2>4. liveness \in Inputs
      BY DEF GraphInv, ListInv, TypeInv, InputKnown
    <2>5. CASE Precolored(b)
      BY <2>1, <2>2, <2>3, <2>4, <2>5, InputsAssumption DEF Precolored
    <2>6. CASE ~ Precolored(b)
      BY <2>1, <2>2, <2>6
    <2> QED
      BY <2>5, <2>6
  <1>2. CASE pc = "reduce"
    BY <1>2, ReducedProper
  <1>3. CASE pc \notin {"build", "reduce"}
    BY <1>3 DEF ProperGroups
  <1> QED
    BY <1>1, <1>2, <1>3

(* At no time have two registers that interfere the same colour. *)
THEOREM ColoringIsProper == Spec => []Graph!ColoringProper
  BY ProperAlways, ColorInvariant, PTL

------------------------------------------------------------------------------
(* What AssignRegisters is handed at the end. *)

ColorsHandedOver ==
  /\ \A n \in Nodes : colors[n] = NoColor => group[n] \in prespilled
  /\ \A n \in Nodes : Precolored(n) => colors[n] = liveness.machine[n]
  /\ \A a, b \in Nodes :
       Interferes(liveness, a, b) /\ colors[a] # NoColor => colors[a] # colors[b]

LEMMA HandOver ==
  ASSUME ColorInv, FinishColors
  PROVE  ColorsHandedOver'
  <1>1. /\ \A n \in Nodes : colors'[n] = colors[group[n]]
        /\ pc' = "done" /\ pc = "color"
        /\ UNCHANGED <<liveness, group, prespilled>>
    BY FinishChanges DEF FinishColors
  <1>2. ListInv
    BY DEF ColorInv, DegreeInv, GraphInv
  <1>3. \A n \in Nodes : group[n] \in Nodes /\ node_status[group[n]] # "COALESCED"
    BY <1>2 DEF ListInv, TypeInv, TypeOK, GroupsFlat
  <1>4. ASSUME NEW n \in Nodes, colors'[n] = NoColor
        PROVE  group[n] \in prespilled
    <2>1. node_status[group[n]] \notin {"PRECOLORED", "COLORED", "COALESCED", "SELECTED"}
      BY <1>1, <1>3, <1>4 DEF ColorInv, Colored, FinishColors, NodesWith
    <2>2. node_status[group[n]] = "SPILLED"
      BY <1>1, <1>2, <1>3, <2>1 DEF ListInv, StatusOfPhase, Removed
    <2> QED
      BY <1>3, <2>2 DEF ColorInv, OnlyPrespilledAreSpilled, NodesWith
  <1>5. ASSUME NEW n \in Nodes, Precolored(n)
        PROVE  colors'[n] = liveness.machine[n]
    <2>1. group[n] = n
      BY <1>2, <1>5 DEF ListInv, MachineKept, GroupsFlat
    <2> QED
      BY <1>1, <1>5, <2>1 DEF ColorInv, Colored
  <1>6. ASSUME NEW a \in Nodes, NEW b \in Nodes, Interferes(liveness, a, b), colors'[a] # NoColor
        PROVE  colors'[a] # colors'[b]
    BY <1>1, <1>6 DEF ColorInv, ProperGroups
  <1> QED
    BY <1>1, <1>4, <1>5, <1>6 DEF ColorsHandedOver, Precolored

(****************************************************************************)
(* When tryColoring returns, a register without a colour is in a group that *)
(* prespillOne has chosen, a machine register is its own colour, and        *)
(* registers that interfere have different colours.  So if nothing was      *)
(* spilled, what AssignRegisters gets is one of the colourings that module  *)
(* AllocatedCode runs the function with.                                    *)
(****************************************************************************)
THEOREM ColoringIsComplete == Spec => [](pc = "done" => ColorsHandedOver)
  <1> DEFINE AtTheEnd == pc = "done" => ColorsHandedOver
  <1>1. Init => AtTheEnd
    BY DEF Init
  <1>2. ColorInv /\ AtTheEnd /\ [Next]_vars => AtTheEnd'
    <2> SUFFICES ASSUME ColorInv, AtTheEnd, [Next]_vars, pc' = "done"
                 PROVE  ColorsHandedOver'
      OBVIOUS
    <2>1. CASE FinishColors
      BY <2>1, HandOver
    <2>2. CASE UNCHANGED vars
      BY <2>2 DEF vars, node_vars, ColorsHandedOver, Precolored
    <2>3. ListInv
      BY DEF ColorInv, DegreeInv, GraphInv
    <2>4. CASE Build \/ RemoveOne \/ StopReducing \/ AssignColor
      BY <2>3, <2>4, RemoveChanges
         DEF Build, RemoveOne, RemoveEffect, StopReducing, AssignColor, FinishColors
    <2>5. CASE \E m \in Ins : CoalesceAgain(m) \/ CoalesceConstrained(m) \/ CoalesceAfraid(m)
      BY <2>3, <2>5, SameGraphCoalesce
    <2>6. CASE \E m \in Ins : CoalesceCombine(m)
      <3>1. PICK m \in Ins : CoalesceCombine(m)
        BY <2>6
      <3>2. PICK remain, remove : remain = Ends(m)[1] /\ remove = Ends(m)[2]
        OBVIOUS
      <3> QED
        BY <3>1, <3>2, <2>3, CombinedNodes DEF ColorInv, DegreeInv
    <2>7. CASE FreezeOne \/ PrespillOne
      BY <2>3, <2>7, SameGraphGiveUp
    <2> QED
      BY <2>1, <2>2, <2>4, <2>5, <2>6, <2>7 DEF Next, CoalesceOne, Terminated
  <1> QED
    BY <1>1, <1>2, ColorInvariant, PTL DEF Spec
==============================================================================
