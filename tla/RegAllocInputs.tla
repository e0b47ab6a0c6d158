---------------------------- MODULE RegAllocInputs ----------------------------
(****************************************************************************)
(* Small inputs for RegAlloc.  A function is made of blocks that only share *)
(* their registers: for an interference of a and b a block that sets b and  *)
(* a and then has "a := a op b", both being used after it; for a move from  *)
(* s to d a block that sets s, has "d := s" and uses d.  Any graph and any  *)
(* list of moves is the liveness information of such a function.  The       *)
(* instructions that only set or only use registers are left out: they add  *)
(* no interference, and only raise the counts of uses.                      *)
(****************************************************************************)
EXTENDS RegAlloc, Sequences

CONSTANT MCMoveCount   \* moves of a function, at most

Pairs == {e \in Nodes \X Nodes : e[1] < e[2]}
MovePairs == {e \in Nodes \X Nodes : e[1] # e[2]}

(* Registers 0 .. k - 1 are the first k machine registers. *)
Machine(k) == [n \in Nodes |-> IF n < k THEN n ELSE NoColor]

(****************************************************************************)
(* Live after the move from s to d: d, and the last register that           *)
(* interferes with both, if there is one (it is set before s and used after *)
(* the move).                                                               *)
(****************************************************************************)
LiveWith(edges, s, d) ==
  LET others == {n \in Nodes : {<<n, d>>, <<d, n>>} \cap edges # {}
                             /\ {<<n, s>>, <<s, n>>} \cap edges # {}}
  IN {d} \cup {n \in others : \A x \in others : x <= n}

(* The pairs before this one, by their first register and then their second. *)
PairsBefore(e) == (e[1] * (2 * nodecount - e[1] - 1)) \div 2 + e[2] - e[1] - 1

(* The first instructions are the moves, the others the blocks of the interferences. *)
IsCopy(i, moves) == i < Len(moves)
Block(i, edges) == {e \in edges : MCMoveCount + PairsBefore(e) = i}

Liveness(edges, moves, machine) ==
  [move     |-> [i \in Ins |-> IsCopy(i, moves)],
   used     |-> [i \in Ins |-> IF IsCopy(i, moves) THEN {moves[i + 1][1]}
                               ELSE UNION {{e[1], e[2]} : e \in Block(i, edges)}],
   assigned |-> [i \in Ins |-> IF IsCopy(i, moves) THEN {moves[i + 1][2]}
                               ELSE {e[1] : e \in Block(i, edges)}],
   live     |-> [i \in Ins |-> IF IsCopy(i, moves)
                               THEN LiveWith(edges, moves[i + 1][1], moves[i + 1][2])
                               ELSE UNION {{e[1], e[2]} : e \in Block(i, edges)}],
   machine  |-> machine]
==============================================================================
