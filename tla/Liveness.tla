------------------------------- MODULE Liveness -------------------------------
(****************************************************************************)
(* LivenessInfo of src/regallocator.cpp: which registers are still needed   *)
(* after an instruction.  For every use of a register findLiveness walks    *)
(* backwards over the flow graph, until an instruction that assigns the     *)
(* register or one where it is known to be live.                            *)
(*                                                                          *)
(* visits holds the <<register, instruction>> pairs the calls that are      *)
(* under way have still to look at.  Their order, given by the order of     *)
(* lists and by the recursion, is left open.                                *)
(****************************************************************************)
EXTENDS FlowGraph

CONSTANT Codes   \* the functions considered

ASSUME CodesAssumption == \A c \in Codes : WellFormed(c)

VARIABLES
  code,
  live_after_node,
  visits

vars == <<code, live_after_node, visits>>

Before(r, i) == {<<r, p>> : p \in previous(code, i)}

Init ==
  /\ code \in Codes
  /\ live_after_node = [i \in Ins |-> {}]
  /\ visits = UNION {UNION {Before(r, i) : r \in used(code, i)} : i \in Ins}

(* The walk goes on above an instruction that does not assign the register. *)
GoesOn_Always(r, i) == TRUE

GoesOn(r, i) == r \notin assigned(code, i)

isLiveAfterNode_AtUse(i, r) == r \in live_after_node[i] \/ r \in used(code, i)

isLiveAfterNode_Unchecked(i, r) == FALSE

isLiveAfterNode(i, r) == r \in live_after_node[i]

(* One pass of the loop of findLiveness, at instruction i. *)
Visit(r, i) ==
  /\ <<r, i>> \in visits
  /\ IF isLiveAfterNode(i, r)
     THEN /\ visits' = visits \ {<<r, i>>}
          /\ UNCHANGED live_after_node
     ELSE /\ live_after_node' = [live_after_node EXCEPT ![i] = @ \cup {r}]
          /\ visits' = (visits \ {<<r, i>>}) \cup (IF GoesOn(r, i) THEN Before(r, i) ELSE {})
  /\ UNCHANGED code

Done == visits = {}

Terminated == Done /\ UNCHANGED vars

Next == (\E r \in Registers, i \in Ins : Visit(r, i)) \/ Terminated

Spec == Init /\ [][Next]_vars

(* The recursion goes on while a call is under way. *)
FairSpec == Spec /\ WF_vars(Next)

------------------------------------------------------------------------------
TypeOK ==
  /\ code \in [Ins -> InstructionType]
  /\ live_after_node \in [Ins -> SUBSET Registers]
  /\ visits \subseteq Registers \X Ins

(****************************************************************************)
(* When no call is left the result solves the equations, and no solution is *)
(* smaller, whatever the order of the visits: the walk that stops at known  *)
(* registers has missed no path, and around loops it has invented nothing.  *)
(****************************************************************************)
LeastSolution ==
  Done => /\ Solves(code, live_after_node)
          /\ \A live \in [Ins -> SUBSET Registers] :
               Solves(code, live) => \A i \in Ins : live_after_node[i] \subseteq live[i]

(****************************************************************************)
(* The same result in terms of executions: a register is live after an      *)
(* instruction exactly if some path from there comes to a use of it before  *)
(* it comes to an assignment.                                               *)
(****************************************************************************)
(* The instructions that k + 1 or fewer steps from i reach with the value r has after i. *)
Reached(r, i) ==
  LET reached[k \in Nat] ==
        IF k = 0 THEN next(code, i)
        ELSE LET before == reached[k - 1]
             IN before \cup UNION {next(code, s) : s \in {x \in before : r \notin assigned(code, x)}}
  IN reached[inscount]

UsedLater(r, i) == \E s \in Reached(r, i) : r \in used(code, s)

LiveIsUsedLater ==
  Done => \A i \in Ins : live_after_node[i] = {r \in Registers : UsedLater(r, i)}

(****************************************************************************)
(* The recursion of findLiveness ends, on loops too.                        *)
(****************************************************************************)
Terminates == <>Done
==============================================================================
