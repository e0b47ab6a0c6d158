----------------------------- MODULE Interference -----------------------------
(****************************************************************************)
(* Which registers may not share a machine register, as buildGraph of       *)
(* src/regallocator.cpp reads it off the liveness information l: per        *)
(* instruction, whether it is a move, what it uses and assigns, and what is *)
(* live after it.                                                           *)
(****************************************************************************)

Src(l, i) == CHOOSE n \in l.used[i] : TRUE
Dst(l, i) == CHOOSE n \in l.assigned[i] : TRUE

(* A register-to-register move between two different registers. *)
IsMove(l, i) == l.move[i] /\ Src(l, i) # Dst(l, i)

CollidesAt_NoInputs(l, i, a, b) ==
  /\ a # b
  /\ a \in l.assigned[i]
  /\ b \in l.live[i]
  /\ b \notin l.used[i]

(* Instruction i assigns a while b is live; the source of a move is no obstacle. *)
CollidesAt(l, i, a, b) ==
  /\ a # b
  /\ a \in l.assigned[i]
  /\ b \in l.live[i]
  /\ ~ (IsMove(l, i) /\ b = Src(l, i))

Interferes(l, a, b) == \E i \in DOMAIN l.live : CollidesAt(l, i, a, b) \/ CollidesAt(l, i, b, a)
==============================================================================
