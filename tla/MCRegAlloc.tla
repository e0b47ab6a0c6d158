----------------------------- MODULE MCRegAlloc -----------------------------
(* RegAlloc on small graphs with every short list of moves, and on every     *)
(* graph of five registers with a ring of moves.                             *)
EXTENDS RegAllocInputs

CONSTANT MCMachines   \* how many of the registers may be machine registers

SmallPairs == {e \in Pairs : e[2] < 4}
SmallMoves == {e \in MovePairs : e[1] < 4 /\ e[2] < 4}

MoveLists == UNION {[1 .. k -> SmallMoves] : k \in 0 .. 2}

(* The first move, up to the numbering of registers that are not machine registers. *)
FirstMove(k, e) ==
  /\ e[1] <= k
  /\ e[2] <= IF e[1] = k THEN k + 1 ELSE k

(* Every graph of four registers, and every list of at most two moves up to that numbering. *)
Choices ==
  {c \in MCMachines \X (SUBSET SmallPairs) \X MoveLists :
     c[3] = <<>> \/ FirstMove(c[1], c[3][1])}

(****************************************************************************)
(* Register 0 is a machine register.  The moves tie 1 to it and 2, 3 and 4  *)
(* to each other in a ring; every graph over the five.                      *)
(****************************************************************************)
RingMoves == <<<<2, 3>>, <<1, 0>>, <<3, 4>>, <<4, 2>>>>

RingInputs == {Liveness(edges, RingMoves, Machine(1)) : edges \in SUBSET Pairs}

AllInputs == RingInputs \cup {Liveness(c[2], c[3], Machine(c[1])) : c \in Choices}
==============================================================================
