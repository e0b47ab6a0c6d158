---------------------------- MODULE GraphColoring ----------------------------
(****************************************************************************)
(* What the register allocator promises: a partial colouring of the         *)
(* interference graph.  Registers receive a colour once, several at a time  *)
(* when they share a machine register (coalesced moves), and never a colour *)
(* that a register they interfere with already has.  How the order and the  *)
(* groups are found is left to the implementation (module RegAlloc).        *)
(****************************************************************************)
EXTENDS Integers

CONSTANTS
  Nodes,    \* the virtual registers of one function
  Colors    \* the machine registers

VARIABLES
  edges,    \* the pairs <<a, b>> of registers that interfere
  coloring  \* the colour of each register, or Uncolored

vars == <<edges, coloring>>

Uncolored == -1

Proper(e, c) ==
  \A a, b \in Nodes :
    <<a, b>> \in e /\ c[a] # Uncolored => c[a] # c[b]

TypeOK ==
  /\ edges \subseteq Nodes \X Nodes
  /\ coloring \in [Nodes -> Colors \cup {Uncolored}]

(* At the start only machine registers have a colour, their own. *)
Init ==
  /\ TypeOK
  /\ \A a, b \in Nodes :
       /\ <<a, b>> \in edges => a # b /\ <<b, a>> \in edges
       /\ a # b /\ coloring[a] # Uncolored => coloring[a] # coloring[b]

(* A group of uncoloured registers that may share a machine register gets one. *)
ColorGroup(group, color) ==
  /\ \A n \in group : coloring[n] = Uncolored
  /\ coloring' = [n \in Nodes |-> IF n \in group THEN color ELSE coloring[n]]
  /\ \A a \in group, b \in Nodes :
       <<a, b>> \in edges => b \notin group /\ coloring[b] # color
  /\ UNCHANGED edges

Next == \E group \in SUBSET Nodes, color \in Colors : ColorGroup(group, color)

Spec == Init /\ [][Next]_vars

(* No two registers that are needed at the same time share a machine register. *)
ColoringProper == Proper(edges, coloring)
==============================================================================
