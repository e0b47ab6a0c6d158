--------------------------- MODULE MCAllocatedCode ---------------------------
(****************************************************************************)
(* Every function of a few instructions over one machine register and two   *)
(* others, that may end in a jump back to a label.                          *)
(****************************************************************************)
EXTENDS AllocatedCode, TLC

CONSTANTS Machine, Temporaries, Label

Instruction(inputs, outputs, move) ==
  [label |-> NoLabel, destinations |-> {FallThrough}, inputs |-> inputs, outputs |-> outputs,
   is_reg_to_reg_assign |-> move]

MCColor == [m \in {Machine} |-> 0]

All == {Machine} \cup Temporaries

Operations ==
  {Instruction({s}, {d}, TRUE) : s \in All, d \in All}
  \cup {Instruction({}, {d}, FALSE) : d \in All}
  \cup {Instruction(All \ {d}, {d}, FALSE) : d \in Temporaries}
  \cup {Instruction({FramePointer, r}, {}, FALSE) : r \in All}
  \cup {Instruction({Machine}, {Machine, d}, FALSE) : d \in Temporaries}

(* The last instruction may jump back, on a condition. *)
Back(r) == [Instruction({r}, {}, FALSE) EXCEPT !.destinations = {Label, FallThrough}]

Labelled(i) == [i EXCEPT !.label = Label]

Straight == [0 .. inscount - 2 -> Operations]

MCCodes ==
  {[i \in Ins |-> IF i = inscount - 1 THEN Back(r)
                  ELSE IF i = target THEN Labelled(ops[i]) ELSE ops[i]] :
     ops \in Straight, target \in {0, inscount - 2}, r \in Temporaries}

Symmetry == Permutations(Temporaries)
==============================================================================
