------------------------------ MODULE MCLiveness ------------------------------
(****************************************************************************)
(* Liveness on every small function.  Registers do not meet in the walk, so *)
(* one register and the frame pointer are enough.  An instruction is a      *)
(* label, a jump, a conditional jump, or one that reads or writes.          *)
(****************************************************************************)
EXTENDS Liveness

CONSTANT MCRegister   \* the register that is read and written

Instruction(label, destinations, inputs, outputs) ==
  [label |-> label, destinations |-> destinations, inputs |-> inputs, outputs |-> outputs,
   is_reg_to_reg_assign |-> FALSE]

Placement(l) == Instruction(l, {FallThrough}, {}, {})

Jumps == {Instruction(NoLabel, {l} \cup fall, {}, {}) : l \in Labels, fall \in {{}, {FallThrough}}}

Operations ==
  {Instruction(NoLabel, {FallThrough}, {MCRegister, FramePointer}, {}),
   Instruction(NoLabel, {FallThrough}, {FramePointer}, {MCRegister}),
   Instruction(NoLabel, {FallThrough}, {MCRegister}, {MCRegister})}

AllCodes ==
  {c \in [Ins -> {Placement(l) : l \in Labels} \cup Jumps \cup Operations] :
     \A l \in Labels : \E i \in Ins :
       c[i].label = l /\ \A j \in Ins : c[j].label = l => j = i}
==============================================================================
