------------------------------ MODULE FlowGraph ------------------------------
(****************************************************************************)
(* FlowGraph of src/flowgraph.cpp: the instructions of a function, numbered *)
(* in their order, and the edges along which control passes from one to     *)
(* another.  An instruction names the registers it reads and writes and its *)
(* destinations, labels or the instruction that follows.                    *)
(****************************************************************************)
EXTENDS Integers

CONSTANTS
  inscount,        \* number of instructions
  Registers,       \* virtual registers, the frame pointer among them
  FramePointer,    \* the register that is not allocated (ignored_register)
  Labels,
  NoLabel,         \* label of an instruction that has none
  FallThrough      \* the NULL of Instruction.destinations

ASSUME InstructionsAssumption == inscount \in Nat

Ins == 0 .. inscount - 1

InstructionType ==
  [label        : Labels \cup {NoLabel},
   destinations : SUBSET (Labels \cup {FallThrough}),
   inputs       : SUBSET Registers,
   outputs      : SUBSET Registers,
   is_reg_to_reg_assign : BOOLEAN]

(* label_positions: the last instruction that has the label. *)
HasPosition(code, label, i) ==
  /\ code[i].label = label
  /\ \A j \in Ins : code[j].label = label => j <= i

(****************************************************************************)
(* What the constructors take for granted: a destination is placed          *)
(* somewhere (label_positions.at), nothing writes the frame pointer, and a  *)
(* move has one source.                                                     *)
(****************************************************************************)
WellFormed(code) ==
  /\ code \in [Ins -> InstructionType]
  /\ \A i \in Ins :
       /\ \A label \in code[i].destinations \ {FallThrough} :
            \E j \in Ins : code[j].label = label
       /\ FramePointer \notin code[i].outputs
       /\ code[i].is_reg_to_reg_assign =>
            \E s, d \in Registers : code[i].inputs = {s} /\ code[i].outputs = {d}

next(code, i) ==
  {j \in Ins : \/ FallThrough \in code[i].destinations /\ j = i + 1
               \/ \E label \in code[i].destinations \ {FallThrough} :
                    HasPosition(code, label, j)}

previous(code, i) == {j \in Ins : i \in next(code, j)}

used(code, i) == code[i].inputs \ {FramePointer}

assigned(code, i) == code[i].outputs

(* Reading the frame pointer makes a move something else. *)
isRegToRegAssignment(code, i) ==
  code[i].is_reg_to_reg_assign /\ FramePointer \notin code[i].inputs

(****************************************************************************)
(* The equations of liveness: a register is live after an instruction if    *)
(* and only if an instruction that may come next uses it, or lets a         *)
(* register through that is live after it.                                  *)
(****************************************************************************)
LiveThrough(code, live, i) ==
  {r \in Registers : \E s \in next(code, i) :
     r \in used(code, s) \/ (r \in live[s] /\ r \notin assigned(code, s))}

Solves(code, live) == \A i \in Ins : live[i] = LiveThrough(code, live, i)
==============================================================================
