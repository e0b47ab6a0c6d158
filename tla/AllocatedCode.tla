---------------------------- MODULE AllocatedCode ----------------------------
(****************************************************************************)
(* What AssignRegisters of src/regallocator.cpp is for.  A function is run  *)
(* twice, in step: as it was translated, with its virtual registers, and as *)
(* outputCode writes it, every register replaced by the machine register    *)
(* that is its colour and moves inside one machine register left out.       *)
(*                                                                          *)
(* The colouring is any that the interference graph allows (what RegAlloc   *)
(* arrives at, see GraphColoring), for the liveness that findLiveness has   *)
(* computed (module Liveness).                                              *)
(****************************************************************************)
EXTENDS Liveness, Interference

CONSTANTS
  Colors,
  Values,             \* what a register can hold
  MachineRegisters,   \* the registers AssignRegisters calls precolor for
  MachineColor        \* and their colours

(* A machine register is its own colour. *)
ASSUME MachineAssumption ==
  /\ Values # {}
  /\ FramePointer \in Registers
  /\ MachineRegisters \subseteq Registers \ {FramePointer}
  /\ MachineColor \in [MachineRegisters -> Colors]
  /\ \A a, b \in MachineRegisters : MachineColor[a] = MachineColor[b] => a = b

VARIABLES
  coloring,   \* id_to_machine_map
  position,   \* the instruction to execute next, or why there is none
  values,     \* contents of the virtual registers
  contents    \* contents of the machine registers

runVars == <<coloring, position, values, contents>>
allVars == <<vars, runVars>>

Allocation == -1     \* position while the allocator is at work
End == inscount      \* position after the last instruction

Allocatable == Registers \ {FramePointer}

(* What the allocator reads off the code. *)
LivenessOf(c, live) ==
  [move     |-> [i \in Ins |-> isRegToRegAssignment(c, i)],
   used     |-> [i \in Ins |-> used(c, i)],
   assigned |-> [i \in Ins |-> assigned(c, i)],
   live     |-> live]

Edges(c, live) ==
  {e \in Allocatable \X Allocatable : Interferes(LivenessOf(c, live), e[1], e[2])}

ProperColorings(c, live) ==
  LET edges == Edges(c, live)
  IN {color \in [Allocatable -> Colors] :
        /\ \A m \in MachineRegisters : color[m] = MachineColor[m]
        /\ \A e \in edges : color[e[1]] # color[e[2]]}

LiveBefore(c, live, i) == used(c, i) \cup (live[i] \ assigned(c, i))

(****************************************************************************)
(* The two runs begin with the same contents of the machine registers:      *)
(* parameters, callee-save registers, the frame of the enclosing function.  *)
(* Another register that is read before it is set has no value of its own;  *)
(* it holds what its machine register happens to hold.                      *)
(****************************************************************************)
Enters(c, live, color, v, w) ==
  \A r \in MachineRegisters \cup (IF inscount > 0 THEN LiveBefore(c, live, 0) ELSE {}) :
    w[color[r]] = v[r]

------------------------------------------------------------------------------
AllocInit ==
  /\ Init
  /\ coloring = <<>>
  /\ position = Allocation
  /\ values = <<>>
  /\ contents = <<>>

FindLiveness ==
  /\ \E r \in Registers, i \in Ins : Visit(r, i)
  /\ UNCHANGED runVars

LivenessKnown_Assumed == TRUE

LivenessKnown == Done

(* The allocator has coloured the function, and it is called. *)
Enter ==
  /\ position = Allocation
  /\ LivenessKnown
  /\ coloring' \in ProperColorings(code, live_after_node)
  /\ values' \in [Allocatable -> Values]
  /\ contents' \in [Colors -> Values]
  /\ Enters(code, live_after_node, coloring', values', contents')
  /\ position' = 0
  /\ UNCHANGED vars

(* There are too few machine registers: the allocator must spill (not here). *)
GiveUp ==
  /\ position = Allocation
  /\ LivenessKnown
  /\ ProperColorings(code, live_after_node) = {}
  /\ UNCHANGED allVars

(* The output leaves a move out when both registers are one machine register. *)
LeftOut(i) ==
  /\ isRegToRegAssignment(code, i)
  /\ \A s \in used(code, i), d \in assigned(code, i) : coloring[s] = coloring[d]

(****************************************************************************)
(* An instruction computes from what it reads; a move copies.  As long as   *)
(* both runs read the same they compute the same and go the same way.  When *)
(* two results share a machine register, either may be the one that stays.  *)
(****************************************************************************)
Computes(i, result) ==
  isRegToRegAssignment(code, i) =>
    \A s \in used(code, i), d \in assigned(code, i) : result[d] = values[s]

Stores(i, result, color, v) ==
  IF ~ LeftOut(i) /\ \E r \in assigned(code, i) : coloring[r] = color
  THEN \E r \in assigned(code, i) : coloring[r] = color /\ v = result[r]
  ELSE v = contents[color]

(* Control passes on, or leaves at the end. *)
Successors(i) ==
  next(code, i) \cup
    (IF next(code, i) = {} \/ (i = inscount - 1 /\ FallThrough \in code[i].destinations)
     THEN {End} ELSE {})

Execute(i) ==
  /\ position = i
  /\ \E result \in [assigned(code, i) -> Values] :
       /\ Computes(i, result)
       /\ values' = [r \in Allocatable |->
                       IF r \in assigned(code, i) THEN result[r] ELSE values[r]]
       /\ contents' \in [Colors -> Values]
       /\ \A color \in Colors : Stores(i, result, color, contents'[color])
  /\ position' \in Successors(i)
  /\ UNCHANGED <<vars, coloring>>

Stopped == position = End /\ UNCHANGED allVars

AllocNext == FindLiveness \/ Enter \/ GiveUp \/ (\E i \in Ins : Execute(i)) \/ Stopped

AllocSpec == AllocInit /\ [][AllocNext]_allVars

------------------------------------------------------------------------------
Running == position # Allocation

AllocTypeOK ==
  /\ TypeOK
  /\ position \in Allocation .. End
  /\ Running => /\ Done
                /\ coloring \in [Allocatable -> Colors]
                /\ values \in [Allocatable -> Values]
                /\ contents \in [Colors -> Values]

(****************************************************************************)
(* Wherever the function goes, the next instruction reads in the machine    *)
(* registers what it would have read in its virtual registers: a value that *)
(* is still needed has not been overwritten, and a move between registers   *)
(* that share a machine register was not needed.                            *)
(****************************************************************************)
ReadsTheSame ==
  position \in Ins => \A r \in used(code, position) : contents[coloring[r]] = values[r]
==============================================================================
