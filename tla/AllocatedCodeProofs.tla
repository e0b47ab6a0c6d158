------------------------- MODULE AllocatedCodeProofs -------------------------
(****************************************************************************)
(* What findLiveness computes is what the paths to the uses say, and        *)
(* register allocation keeps the meaning of a function: for every function, *)
(* every number of machine registers and every colouring of its             *)
(* interference graph.                                                      *)
(****************************************************************************)
EXTENDS AllocatedCode, Iteration

------------------------------------------------------------------------------
(* What findLiveness computes: the least solution of the equations. *)

(****************************************************************************)
(* Between two visits: whatever must be live above a use, or above a        *)
(* register that is known to be live, is live or still to be visited.       *)
(****************************************************************************)
NothingForgotten ==
  /\ \A i \in Ins : \A r \in used(code, i), p \in previous(code, i) :
       r \in live_after_node[p] \/ <<r, p>> \in visits
  /\ \A i \in Ins : \A r \in live_after_node[i] \ assigned(code, i), p \in previous(code, i) :
       r \in live_after_node[p] \/ <<r, p>> \in visits

(* And whatever is live or still to be visited has its reason. *)
NothingInvented ==
  \A i \in Ins, r \in Registers :
    r \in live_after_node[i] \/ <<r, i>> \in visits => r \in LiveThrough(code, live_after_node, i)

(* In particular it is in every solution. *)
BelowSolutions ==
  \A live \in [Ins -> SUBSET Registers] :
    Solves(code, live) =>
      \A i \in Ins, r \in Registers :
        r \in live_after_node[i] \/ <<r, i>> \in visits => r \in live[i]

LiveInv == TypeOK /\ NothingForgotten /\ NothingInvented /\ BelowSolutions

------------------------------------------------------------------------------
(* Uses and neighbours of a well-formed function are registers and instructions. *)
LEMMA FlowFacts ==
  ASSUME TypeOK, NEW i \in Ins
  PROVE  /\ used(code, i) \subseteq Registers
         /\ previous(code, i) \subseteq Ins
         /\ \A p \in Ins : p \in previous(code, i) <=> i \in next(code, p)
  BY DEF TypeOK, InstructionType, used, previous

(* The initial state: only the instructions before a use are to be visited. *)
LEMMA LiveInit == Init => LiveInv
  <1> SUFFICES ASSUME Init PROVE LiveInv
    OBVIOUS
  <1>1. \A r, p : <<r, p>> \in visits <=>
          \E i \in Ins : r \in used(code, i) /\ p \in previous(code, i)
    BY DEF Init, Before
  <1>2. TypeOK
    BY CodesAssumption DEF Init, TypeOK, Before, WellFormed, InstructionType, used, previous
  <1>3. NothingForgotten
    BY <1>1 DEF NothingForgotten, Init
  <1>4. NothingInvented
    BY <1>1, <1>2, FlowFacts DEF NothingInvented, LiveThrough, Init
  <1>5. BelowSolutions
    BY <1>1, <1>2, FlowFacts DEF BelowSolutions, Solves, LiveThrough, Init
  <1> QED
    BY <1>2, <1>3, <1>4, <1>5 DEF LiveInv

(* A visit keeps the invariant. *)
LEMMA LiveVisit ==
  ASSUME LiveInv, NEW r \in Registers, NEW i \in Ins, Visit(r, i)
  PROVE  LiveInv'
  <1> USE DEF LiveInv
  <1>1. code' = code /\ \A s, j : used(code', j) = used(code, j)
                              /\ assigned(code', j) = assigned(code, j)
                              /\ previous(code', j) = previous(code, j)
                              /\ next(code', j) = next(code, j)
    BY DEF Visit
  <1>2. CASE isLiveAfterNode(i, r)
    <2>1. live_after_node' = live_after_node /\ visits' = visits \ {<<r, i>>}
      BY <1>2 DEF Visit
    <2>2. TypeOK'
      BY <2>1, <1>1 DEF TypeOK
    <2>3. NothingForgotten'
      BY <2>1, <1>1, <1>2 DEF NothingForgotten, isLiveAfterNode
    <2>4. NothingInvented'
      BY <2>1, <1>1 DEF NothingInvented, LiveThrough
    <2>5. BelowSolutions'
      BY <2>1, <1>1 DEF BelowSolutions, Solves, LiveThrough
    <2> QED
      BY <2>2, <2>3, <2>4, <2>5
  <1>3. CASE ~ isLiveAfterNode(i, r)
    <2> DEFINE above == IF GoesOn(r, i) THEN Before(r, i) ELSE {}
    <2>1. /\ live_after_node' = [live_after_node EXCEPT ![i] = @ \cup {r}]
          /\ visits' = (visits \ {<<r, i>>}) \cup above
          /\ <<r, i>> \in visits
      BY <1>3 DEF Visit
    <2>2. \A s, p : <<s, p>> \in above <=>
            s = r /\ r \notin assigned(code, i) /\ p \in previous(code, i)
      BY DEF GoesOn, Before
    <2>3. TypeOK'
      BY <2>1, <2>2, <1>1, FlowFacts DEF TypeOK, Before
    <2>4. \A j \in Ins : \A s : s \in live_after_node'[j] <=> s \in live_after_node[j] \/ (s = r /\ j = i)
      BY <2>1 DEF TypeOK
    <2>5. \A s, p : <<s, p>> \in visits' <=>
            (<<s, p>> \in visits /\ <<s, p>> # <<r, i>>) \/ <<s, p>> \in above
      BY <2>1
    <2> HIDE DEF above
    <2>6. NothingForgotten'
      <3>1. \A s, p : s \in live_after_node[p] \/ <<s, p>> \in visits =>
              (p \in Ins => s \in live_after_node'[p] \/ <<s, p>> \in visits')
        BY <2>4, <2>5
      <3>2. ASSUME NEW j \in Ins, NEW s \in used(code, j), NEW p \in previous(code, j)
            PROVE  s \in live_after_node'[p] \/ <<s, p>> \in visits'
        BY <3>1, FlowFacts DEF NothingForgotten
      <3>3. ASSUME NEW j \in Ins, NEW s \in live_after_node'[j] \ assigned(code, j),
                   NEW p \in previous(code, j)
            PROVE  s \in live_after_node'[p] \/ <<s, p>> \in visits'
        <4>1. CASE s \in live_after_node[j]
          BY <3>1, <4>1, FlowFacts DEF NothingForgotten
        <4>2. CASE s = r /\ j = i
          BY <4>2, <2>2, <2>5
        <4> QED
          BY <4>1, <4>2, <2>4
      <3> QED
        BY <3>2, <3>3, <1>1 DEF NothingForgotten
    <2>7. NothingInvented'
      <3>1. \A j \in Ins : LiveThrough(code, live_after_node, j) \subseteq LiveThrough(code, live_after_node, j)'
        BY <1>1, <2>4 DEF LiveThrough, next
      <3>2. ASSUME NEW j \in Ins, NEW s \in Registers,
                   s \in live_after_node'[j] \/ <<s, j>> \in visits'
            PROVE  s \in LiveThrough(code, live_after_node, j)'
        <4>1. CASE s \in live_after_node[j] \/ <<s, j>> \in visits
          BY <4>1, <3>1 DEF NothingInvented
        <4>2. CASE s = r /\ j = i
          BY <4>2, <2>1, <3>1 DEF NothingInvented
        <4>3. CASE <<s, j>> \in above
          <5>1. s = r /\ r \notin assigned(code, i) /\ i \in next(code, j)
            BY <4>3, <2>2, FlowFacts
          <5>2. r \in live_after_node'[i]
            BY <2>4
          <5> QED
            BY <5>1, <5>2, <1>1 DEF LiveThrough
        <4> QED
          BY <3>2, <4>1, <4>2, <4>3, <2>4, <2>5
      <3> QED
        BY <3>2 DEF NothingInvented
    <2>8. BelowSolutions'
      <3> SUFFICES ASSUME NEW live \in [Ins -> SUBSET Registers], Solves(code, live),
                          NEW j \in Ins, NEW s \in Registers,
                          s \in live_after_node'[j] \/ <<s, j>> \in visits'
                   PROVE  s \in live[j]
        BY <1>1 DEF BelowSolutions, Solves, LiveThrough
      <3>1. r \in live[i]
        BY <2>1 DEF BelowSolutions
      <3>2. CASE <<s, j>> \in above
        BY <3>2, <3>1, <2>2, FlowFacts DEF Solves, LiveThrough
      <3>3. CASE s \in live_after_node[j] \/ <<s, j>> \in visits
        BY <3>3 DEF BelowSolutions
      <3> QED
        BY <3>1, <3>2, <3>3, <2>4, <2>5
    <2> QED
      BY <2>3, <2>6, <2>7, <2>8
  <1> QED
    BY <1>2, <1>3

(* So does every step. *)
LEMMA LiveNext == LiveInv /\ [Next]_vars => LiveInv'
  <1> SUFFICES ASSUME LiveInv, [Next]_vars PROVE LiveInv'
    OBVIOUS
  <1>1. CASE UNCHANGED vars
    <2>1. code' = code /\ live_after_node' = live_after_node /\ visits' = visits
      BY <1>1 DEF vars
    <2>2. TypeOK'
      BY <2>1 DEF LiveInv, TypeOK
    <2>3. NothingForgotten'
      BY <2>1 DEF LiveInv, NothingForgotten, used, assigned, previous, next, HasPosition
    <2>4. NothingInvented'
      BY <2>1 DEF LiveInv, NothingInvented, LiveThrough, used, assigned, next, HasPosition
    <2>5. BelowSolutions'
      BY <2>1 DEF LiveInv, BelowSolutions, Solves, LiveThrough, used, assigned, next, HasPosition
    <2> QED
      BY <2>2, <2>3, <2>4, <2>5 DEF LiveInv
  <1>2. CASE \E r \in Registers, i \in Ins : Visit(r, i)
    BY <1>2, LiveVisit
  <1> QED
    BY <1>1, <1>2 DEF Next, Terminated

(* When the walks are over the result solves the equations. *)
LEMMA DoneSolves ==
  ASSUME LiveInv, Done
  PROVE  Solves(code, live_after_node)
  <1>1. ASSUME NEW i \in Ins, NEW r \in LiveThrough(code, live_after_node, i)
        PROVE  r \in live_after_node[i]
    <2>1. PICK s \in next(code, i) :
            r \in used(code, s) \/ (r \in live_after_node[s] /\ r \notin assigned(code, s))
      BY <1>1 DEF LiveThrough
    <2>2. s \in Ins /\ i \in previous(code, s)
      BY <2>1 DEF next, previous
    <2> QED
      BY <2>1, <2>2 DEF LiveInv, NothingForgotten, Done
  <1>2. ASSUME NEW i \in Ins, NEW r \in live_after_node[i]
        PROVE  r \in LiveThrough(code, live_after_node, i)
    BY DEF LiveInv, TypeOK, NothingInvented
  <1> QED
    BY <1>1, <1>2 DEF Solves

(****************************************************************************)
(* When the last call of findLiveness returns, live_after_node is the least *)
(* solution of the equations of liveness.                                   *)
(****************************************************************************)
THEOREM LivenessCorrect == Spec => []LeastSolution
  <1>1. LiveInv => LeastSolution
    BY DoneSolves DEF LeastSolution, LiveInv, BelowSolutions, TypeOK
  <1> QED
    BY LiveInit, LiveNext, <1>1, PTL DEF Spec

------------------------------------------------------------------------------
(* The instructions that are reached from i with the value that r has after i. *)

Widened(r, before) ==
  before \cup UNION {next(code, s) : s \in {x \in before : r \notin assigned(code, x)}}

(* Once r has its value nothing else is reached from the instructions of C. *)
ClosedFor(r, C) == \A x \in C : r \notin assigned(code, x) => next(code, x) \subseteq C

LEMMA NextAreIns ==
  ASSUME NEW i
  PROVE  next(code, i) \in SUBSET Ins
  BY DEF next

(* The sets that the definition of Reached goes through. *)
LEMMA ReachedSteps ==
  ASSUME NEW r, NEW i
  PROVE  \E f \in [Nat -> SUBSET Ins] :
           /\ f[0] = next(code, i)
           /\ \A k \in Nat : f[k + 1] = Widened(r, f[k])
           /\ Reached(r, i) = f[inscount]
  <1> DEFINE Defines(g) ==
               g = [k \in Nat |->
                      IF k = 0 THEN next(code, i)
                      ELSE LET before == g[k - 1]
                           IN before \cup UNION {next(code, s) :
                                                   s \in {x \in before : r \notin assigned(code, x)}}]
             F == [A \in SUBSET Ins |-> Widened(r, A)]
             g0 == CHOOSE g : Defines(g)
  <1>1. F \in [SUBSET Ins -> SUBSET Ins]
    BY NextAreIns DEF Widened
  <1>2. PICK f \in [Nat -> SUBSET Ins] :
          f[0] = next(code, i) /\ \A k \in Nat : f[k + 1] = F[f[k]]
    <2>1. next(code, i) \in SUBSET Ins
      BY NextAreIns
    <2> HIDE DEF F
    <2> QED
      BY <1>1, <2>1, Iteration
  <1>3. \A k \in Nat : f[k + 1] = Widened(r, f[k])
    BY <1>2
  <1>4. Defines(f)
    <2>1. \A k \in Nat : k # 0 => k - 1 \in Nat /\ (k - 1) + 1 = k
      OBVIOUS
    <2>2. \A k \in Nat : k # 0 => f[k] = Widened(r, f[k - 1])
      BY <1>3, <2>1
    <2> QED
      BY <1>2, <2>2 DEF Widened
  <1>5. Defines(g0)
    <2> HIDE DEF Defines
    <2> QED
      BY <1>4
  <1>6. Reached(r, i) = g0[inscount]
    BY DEF Reached
  <1>7. g0[0] = next(code, i) /\ \A k \in Nat : g0[k + 1] = Widened(r, g0[k])
    <2> HIDE DEF g0
    <2> QED
      BY <1>5 DEF Widened
  <1>8. \A k \in Nat : g0[k] = f[k]
    <2> DEFINE S == {k \in Nat : g0[k] = f[k]}
    <2>1. 0 \in S /\ \A k \in Nat : k \in S => k + 1 \in S
      <3> HIDE DEF g0
      <3> QED
        BY <1>2, <1>3, <1>7
    <2>2. Nat \subseteq S
      <3> HIDE DEF S
      <3> QED
        BY <2>1, SetInduction
    <2> QED
      BY <2>2
  <1> HIDE DEF g0, F
  <1> QED
    BY <1>2, <1>3, <1>6, <1>8, InstructionsAssumption

(* Reached is the smallest set with what comes next that is closed. *)
LEMMA ReachedLeast ==
  ASSUME NEW r, NEW i
  PROVE  /\ Reached(r, i) \in SUBSET Ins
         /\ next(code, i) \subseteq Reached(r, i)
         /\ ClosedFor(r, Reached(r, i))
         /\ \A C \in SUBSET Ins :
              next(code, i) \subseteq C /\ ClosedFor(r, C) => Reached(r, i) \subseteq C
  <1>1. PICK f \in [Nat -> SUBSET Ins] :
          /\ f[0] = next(code, i)
          /\ \A k \in Nat : f[k + 1] = Widened(r, f[k])
          /\ Reached(r, i) = f[inscount]
    BY ReachedSteps
  <1> DEFINE F == [A \in SUBSET Ins |-> Widened(r, A)]
  <1>2. Reached(r, i) \in SUBSET Ins
    BY <1>1, InstructionsAssumption
  <1>3. F[f[inscount]] = f[inscount]
    <2>1. Grows(F, Ins)
      BY NextAreIns DEF Widened, Grows
    <2>2. Orbit(f, F, SUBSET Ins)
      BY <1>1 DEF Orbit
    <2>3. IsFiniteSet(Ins) /\ Cardinality(Ins) = inscount
      BY InstructionsAssumption, FS_Interval DEF Ins
    <2> HIDE DEF F
    <2> QED
      BY <2>1, <2>2, <2>3, GrowthStops
  <1>4. Widened(r, Reached(r, i)) = Reached(r, i)
    BY <1>1, <1>2, <1>3
  <1>5. ClosedFor(r, Reached(r, i))
    BY <1>4 DEF Widened, ClosedFor
  <1>6. next(code, i) \subseteq Reached(r, i)
    <2> DEFINE S == {k \in Nat : next(code, i) \subseteq f[k]}
    <2>1. 0 \in S /\ \A k \in Nat : k \in S => k + 1 \in S
      BY <1>1 DEF Widened
    <2>2. Nat \subseteq S
      <3> HIDE DEF S
      <3> QED
        BY <2>1, SetInduction
    <2> QED
      BY <1>1, <2>2, InstructionsAssumption
  <1>7. ASSUME NEW C \in SUBSET Ins, next(code, i) \subseteq C, ClosedFor(r, C)
        PROVE  Reached(r, i) \subseteq C
    <2> DEFINE S == {k \in Nat : f[k] \subseteq C}
    <2>1. 0 \in S
      BY <1>1, <1>7
    <2>2. ASSUME NEW k \in Nat, k \in S
          PROVE  k + 1 \in S
      BY <1>1, <1>7, <2>2 DEF Widened, ClosedFor
    <2>3. Nat \subseteq S
      <3> HIDE DEF S
      <3> QED
        BY <2>1, <2>2, SetInduction
    <2> QED
      BY <1>1, <2>3, InstructionsAssumption
  <1> QED
    BY <1>2, <1>5, <1>6, <1>7

(* The registers that are used later solve the equations. *)
LEMMA UsedLaterSolves ==
  ASSUME TypeOK
  PROVE  Solves(code, [i \in Ins |-> {r \in Registers : UsedLater(r, i)}])
  <1> DEFINE live == [i \in Ins |-> {r \in Registers : UsedLater(r, i)}]
  <1> SUFFICES ASSUME NEW i \in Ins, NEW r \in Registers
               PROVE  UsedLater(r, i) <=>
                        \E s \in next(code, i) :
                          r \in used(code, s) \/ (UsedLater(r, s) /\ r \notin assigned(code, s))
    <2>1. \A i \in Ins : next(code, i) \subseteq Ins
      BY NextAreIns
    <2> QED
      BY <2>1 DEF Solves, LiveThrough
  <1>1. ASSUME NEW s \in next(code, i), r \notin assigned(code, s)
        PROVE  Reached(r, s) \subseteq Reached(r, i)
    BY <1>1, ReachedLeast DEF ClosedFor
  <1>2. ASSUME UsedLater(r, i)
        PROVE  \E s \in next(code, i) :
                 r \in used(code, s) \/ (UsedLater(r, s) /\ r \notin assigned(code, s))
    <2> DEFINE C == {t \in Ins : \E s \in next(code, i) :
                                   t = s \/ (r \notin assigned(code, s) /\ t \in Reached(r, s))}
    <2>1. next(code, i) \subseteq C
      BY NextAreIns
    <2>2. ASSUME NEW t \in C, r \notin assigned(code, t), NEW u \in next(code, t)
          PROVE  u \in C
      <3>1. PICK s \in next(code, i) : t = s \/ (r \notin assigned(code, s) /\ t \in Reached(r, s))
        OBVIOUS
      <3>2. u \in Ins
        BY NextAreIns
      <3>3. r \notin assigned(code, s) /\ u \in Reached(r, s)
        BY <2>2, <3>1, ReachedLeast DEF ClosedFor
      <3> QED
        BY <3>2, <3>3
    <2>3. Reached(r, i) \subseteq C
      <3>1. C \in SUBSET Ins /\ ClosedFor(r, C)
        BY <2>2 DEF ClosedFor
      <3> HIDE DEF C
      <3> QED
        BY <2>1, <3>1, ReachedLeast
    <2>4. PICK t \in C : r \in used(code, t)
      BY <1>2, <2>3 DEF UsedLater
    <2> QED
      BY <2>4 DEF UsedLater
  <1>3. ASSUME NEW s \in next(code, i),
               r \in used(code, s) \/ (UsedLater(r, s) /\ r \notin assigned(code, s))
        PROVE  UsedLater(r, i)
    <2>1. s \in Reached(r, i)
      BY ReachedLeast
    <2> QED
      BY <1>1, <1>3, <2>1 DEF UsedLater
  <1> QED
    BY <1>2, <1>3

(* In every solution what is used later is live. *)
LEMMA UsedLaterIsLive ==
  ASSUME NEW live \in [Ins -> SUBSET Registers], Solves(code, live), NEW i \in Ins,
         NEW r \in Registers, UsedLater(r, i)
  PROVE  r \in live[i]
  <1> DEFINE Through(s) == r \in used(code, s) \/ (r \in live[s] /\ r \notin assigned(code, s))
             C == {s \in Ins : Through(s) => r \in live[i]}
  <1>1. \A x \in Ins : \A s \in next(code, x) : s \in Ins /\ (Through(s) => r \in live[x])
    BY NextAreIns DEF Solves, LiveThrough
  <1>2. next(code, i) \subseteq C
    BY <1>1
  <1>3. C \in SUBSET Ins /\ ClosedFor(r, C)
    BY <1>1 DEF ClosedFor
  <1>4. Reached(r, i) \subseteq C
    <2> HIDE DEF C
    <2> QED
      BY <1>2, <1>3, ReachedLeast
  <1> QED
    BY <1>4 DEF UsedLater

(****************************************************************************)
(* A register that findLiveness has found live after an instruction is used *)
(* on some path from there before it is assigned, and no register that is   *)
(* so used is missing.                                                      *)
(****************************************************************************)
THEOREM LivenessMeansUse == Spec => []LiveIsUsedLater
  <1>1. ASSUME LiveInv, Done, NEW i \in Ins
        PROVE  live_after_node[i] = {r \in Registers : UsedLater(r, i)}
    <2> DEFINE live == [j \in Ins |-> {r \in Registers : UsedLater(r, j)}]
    <2>1. live_after_node \in [Ins -> SUBSET Registers]
      BY <1>1 DEF LiveInv, TypeOK
    <2>2. Solves(code, live_after_node)
      BY <1>1, DoneSolves
    <2>3. live \in [Ins -> SUBSET Registers] /\ Solves(code, live)
      BY <1>1, UsedLaterSolves DEF LiveInv
    <2>4. live_after_node[i] \subseteq live[i]
      <3> HIDE DEF live
      <3> QED
        BY <1>1, <2>1, <2>3 DEF LiveInv, BelowSolutions
    <2> QED
      BY <2>1, <2>2, <2>4, UsedLaterIsLive
  <1>2. LiveInv => LiveIsUsedLater
    BY <1>1 DEF LiveIsUsedLater
  <1> QED
    BY LiveInit, LiveNext, <1>2, PTL DEF Spec

------------------------------------------------------------------------------
(* The two runs. *)

(* Before an instruction the two runs agree on every register that is live there. *)
LiveAgrees ==
  position \in Ins =>
    \A r \in LiveBefore(code, live_after_node, position) : contents[coloring[r]] = values[r]

Colored == Running => coloring \in ProperColorings(code, live_after_node)

AllocInv == LiveInv /\ WellFormed(code) /\ AllocTypeOK /\ Colored /\ LiveAgrees

------------------------------------------------------------------------------
(* A move that touches no frame pointer has one source and one destination. *)
LEMMA MoveShape ==
  ASSUME WellFormed(code), NEW i \in Ins, isRegToRegAssignment(code, i)
  PROVE  \E s, d \in Registers : used(code, i) = {s} /\ assigned(code, i) = {d}
  <1>1. PICK s, d \in Registers : code[i].inputs = {s} /\ code[i].outputs = {d}
    BY DEF WellFormed, isRegToRegAssignment
  <1>2. used(code, i) = {s}
    BY <1>1 DEF isRegToRegAssignment, used
  <1> QED
    BY <1>1, <1>2 DEF assigned

(* Only registers that can be allocated are live, used or assigned. *)
LEMMA AllocatableFacts ==
  ASSUME AllocInv, Done, NEW i \in Ins
  PROVE  /\ used(code, i) \subseteq Allocatable
         /\ assigned(code, i) \subseteq Allocatable
         /\ live_after_node[i] \subseteq Allocatable
         /\ LiveBefore(code, live_after_node, i) \subseteq Allocatable
  <1>1. \A j \in Ins : used(code, j) \subseteq Allocatable /\ assigned(code, j) \subseteq Allocatable
    BY DEF AllocInv, WellFormed, InstructionType, used, assigned, Allocatable
  <1>2. live_after_node[i] \subseteq Allocatable
    <2> DEFINE live == [j \in Ins |-> live_after_node[j] \ {FramePointer}]
    <2>1. live \in [Ins -> SUBSET Registers]
      BY DEF AllocInv, LiveInv, TypeOK
    <2>2. Solves(code, live_after_node)
      BY DoneSolves DEF AllocInv
    <2>3. ASSUME NEW j \in Ins
          PROVE  live[j] = LiveThrough(code, live, j)
      <3>1. live[j] = LiveThrough(code, live_after_node, j) \ {FramePointer}
        BY <2>2 DEF Solves
      <3>2. next(code, j) \subseteq Ins
        BY DEF next
      <3> HIDE DEF live
      <3>3. \A s \in Ins : live[s] = live_after_node[s] \ {FramePointer}
        BY DEF live
      <3> QED
        BY <3>1, <3>2, <3>3, <1>1 DEF LiveThrough, Allocatable
    <2>4. Solves(code, live)
      BY <2>3 DEF Solves
    <2>5. live_after_node[i] \subseteq live[i]
      <3> HIDE DEF live
      <3> QED
        BY <2>1, <2>4 DEF AllocInv, LiveInv, BelowSolutions, TypeOK
    <2> QED
      BY <2>1, <2>5 DEF Allocatable, AllocInv, LiveInv, TypeOK
  <1> QED
    BY <1>1, <1>2 DEF LiveBefore

(* What an instruction overwrites is not the machine register of a register it leaves live. *)
LEMMA Overwritten ==
  ASSUME AllocInv, Running, NEW i \in Ins,
         NEW a \in assigned(code, i), NEW b \in live_after_node[i],
         a # b, coloring[a] = coloring[b]
  PROVE  isRegToRegAssignment(code, i) /\ b \in used(code, i)
  <1> DEFINE l == LivenessOf(code, live_after_node)
  <1>1. a \in Allocatable /\ b \in Allocatable
    BY AllocatableFacts DEF AllocInv, AllocTypeOK
  <1>2. ~ Interferes(l, a, b)
    <2> SUFFICES ASSUME Interferes(l, a, b) PROVE FALSE
      OBVIOUS
    <2>1. <<a, b>> \in Edges(code, live_after_node)
      BY <1>1, Zenon DEF Edges
    <2>2. \A e \in Edges(code, live_after_node) : coloring[e[1]] # coloring[e[2]]
      BY DEF AllocInv, Colored, ProperColorings
    <2> QED
      BY <2>1, <2>2
  <1>3. l.live = live_after_node /\ DOMAIN live_after_node = Ins
    BY DEF LivenessOf, AllocInv, LiveInv, TypeOK
  <1>4. /\ l.assigned[i] = assigned(code, i)
        /\ l.used[i] = used(code, i)
        /\ l.move[i] = isRegToRegAssignment(code, i)
    BY DEF LivenessOf
  <1> HIDE DEF l
  <1>5. ~ CollidesAt(l, i, a, b)
    BY <1>2, <1>3 DEF Interferes
  <1>6. IsMove(l, i) /\ b = Src(l, i)
    BY <1>3, <1>4, <1>5 DEF CollidesAt
  <1>7. isRegToRegAssignment(code, i)
    BY <1>4, <1>6 DEF IsMove
  <1>8. PICK s \in Registers : used(code, i) = {s}
    BY <1>7, MoveShape DEF AllocInv
  <1> QED
    BY <1>4, <1>6, <1>7, <1>8 DEF Src

(* Enter: the runs agree on what is live at the beginning. *)
LEMMA AllocEnter == AllocInv /\ Enter => AllocInv'
  <1> SUFFICES ASSUME AllocInv, Enter PROVE AllocInv'
    OBVIOUS
  <1>1. UNCHANGED vars /\ position' = 0 /\ Done
    BY DEF Enter, LivenessKnown
  <1>2. code' = code /\ live_after_node' = live_after_node /\ visits' = visits
    BY <1>1 DEF vars
  <1>3. LiveInv'
    BY <1>1, LiveNext DEF AllocInv
  <1>4. WellFormed(code)'
    BY <1>2 DEF AllocInv, WellFormed, InstructionType
  <1>5. AllocTypeOK'
    <2>1. position' \in Allocation .. End
      BY <1>1, InstructionsAssumption DEF Allocation, End
    <2>2. Done'
      BY <1>1, <1>2 DEF Done
    <2>3. coloring' \in [Allocatable -> Colors]
      BY DEF Enter, ProperColorings
    <2>4. values' \in [Allocatable -> Values] /\ contents' \in [Colors -> Values]
      BY DEF Enter
    <2> QED
      BY <1>3, <2>1, <2>2, <2>3, <2>4 DEF AllocTypeOK, LiveInv, AllocInv
  <1>6. Colored'
    BY <1>2 DEF Colored, Enter
  <1>7. LiveAgrees'
    <2>1. ASSUME 0 \in Ins, NEW r \in LiveBefore(code, live_after_node, 0)
          PROVE  contents'[coloring'[r]] = values'[r]
      BY <2>1, InstructionsAssumption DEF Enter, Enters, Ins
    <2> QED
      BY <1>1, <1>2, <2>1 DEF LiveAgrees, LiveBefore, used, assigned
  <1> QED
    BY <1>3, <1>4, <1>5, <1>6, <1>7 DEF AllocInv

(* Execute: they go on agreeing. *)
LEMMA AllocExecute ==
  ASSUME AllocInv, NEW i \in Ins, Execute(i)
  PROVE  AllocInv'
  <1>1. position = i /\ Running /\ Done
    BY DEF Execute, Running, Allocation, Ins, AllocInv, AllocTypeOK
  <1>2. /\ code' = code /\ live_after_node' = live_after_node /\ visits' = visits
        /\ coloring' = coloring /\ UNCHANGED vars
    BY DEF Execute, vars
  <1>3. PICK result \in [assigned(code, i) -> Values] :
          /\ Computes(i, result)
          /\ values' = [r \in Allocatable |->
                          IF r \in assigned(code, i) THEN result[r] ELSE values[r]]
          /\ contents' \in [Colors -> Values]
          /\ \A color \in Colors : Stores(i, result, color, contents'[color])
    BY DEF Execute
  <1>4. LiveInv'
    BY <1>2, LiveNext DEF AllocInv
  <1>5. WellFormed(code)'
    BY <1>2 DEF AllocInv, WellFormed, InstructionType
  <1>6. AllocTypeOK'
    <2>1. position' \in Allocation .. End
      BY InstructionsAssumption DEF Execute, Successors, next, Ins, Allocation, End
    <2>2. Done'
      BY <1>1, <1>2 DEF Done
    <2>3. values' \in [Allocatable -> Values]
      BY <1>1, <1>3 DEF AllocInv, AllocTypeOK
    <2>4. coloring' \in [Allocatable -> Colors]
      BY <1>1, <1>2 DEF AllocInv, AllocTypeOK
    <2> QED
      BY <1>3, <1>4, <2>1, <2>2, <2>3, <2>4 DEF AllocTypeOK, LiveInv
  <1>7. Colored'
    BY <1>1, <1>2 DEF AllocInv, Colored
  <1>8. LiveAgrees'
    <2> SUFFICES ASSUME position' \in Ins,
                        NEW r \in LiveBefore(code, live_after_node, position')
                 PROVE  contents'[coloring[r]] = values'[r]
      BY <1>2 DEF LiveAgrees, LiveBefore, used, assigned
    <2>1. position' \in next(code, i)
      BY InstructionsAssumption DEF Execute, Successors, End, Ins
    <2>2. r \in live_after_node[i]
      <3>1. r \in Registers
        BY <1>1, AllocatableFacts DEF Allocatable
      <3>2. Solves(code, live_after_node)
        BY <1>1, DoneSolves DEF AllocInv
      <3> QED
        BY <2>1, <3>1, <3>2 DEF Solves, LiveThrough, LiveBefore
    <2>3. r \in Allocatable /\ coloring[r] \in Colors
      BY <1>1, <2>2, AllocatableFacts DEF AllocInv, AllocTypeOK
    <2>4. \A s \in LiveBefore(code, live_after_node, i) : contents[coloring[s]] = values[s]
      BY <1>1 DEF AllocInv, LiveAgrees
    <2>5. Stores(i, result, coloring[r], contents'[coloring[r]])
      BY <1>3, <2>3
    <2>6. CASE r \in assigned(code, i)
      <3>1. values'[r] = result[r]
        BY <1>3, <2>3, <2>6
      <3>2. CASE LeftOut(i)
        <4>1. contents'[coloring[r]] = contents[coloring[r]]
          BY <2>5, <3>2 DEF Stores
        <4>2. PICK s \in Registers : used(code, i) = {s}
          BY <3>2, MoveShape DEF LeftOut, AllocInv
        <4>3. coloring[s] = coloring[r] /\ result[r] = values[s]
          BY <1>3, <2>6, <3>2, <4>2 DEF LeftOut, Computes
        <4> QED
          BY <2>4, <3>1, <4>1, <4>2, <4>3 DEF LiveBefore
      <3>3. CASE ~ LeftOut(i)
        <4>1. PICK a \in assigned(code, i) :
                coloring[a] = coloring[r] /\ contents'[coloring[r]] = result[a]
          BY <2>5, <2>6, <3>3 DEF Stores
        <4>2. a = r
          <5> SUFFICES ASSUME a # r PROVE FALSE
            OBVIOUS
          <5>1. isRegToRegAssignment(code, i)
            BY <1>1, <2>2, <4>1, Overwritten
          <5> QED
            BY <2>6, <5>1, MoveShape DEF AllocInv
        <4> QED
          BY <3>1, <4>1, <4>2
      <3> QED
        BY <3>2, <3>3
    <2>7. CASE r \notin assigned(code, i)
      <3>1. values'[r] = values[r]
        BY <1>3, <2>3, <2>7
      <3>2. contents[coloring[r]] = values[r]
        BY <2>2, <2>4, <2>7 DEF LiveBefore
      <3>3. CASE contents'[coloring[r]] = contents[coloring[r]]
        BY <3>1, <3>2, <3>3
      <3>4. ASSUME NEW a \in assigned(code, i), coloring[a] = coloring[r],
                   contents'[coloring[r]] = result[a]
            PROVE  contents'[coloring[r]] = values'[r]
        <4>1. isRegToRegAssignment(code, i) /\ r \in used(code, i)
          BY <1>1, <2>2, <2>7, <3>4, Overwritten
        <4> QED
          BY <1>3, <3>1, <3>4, <4>1 DEF Computes
      <3> QED
        BY <2>5, <3>3, <3>4 DEF Stores
    <2> QED
      BY <2>6, <2>7
  <1> QED
    BY <1>4, <1>5, <1>6, <1>7, <1>8 DEF AllocInv

(* So does the search for live registers, which comes before both runs. *)
LEMMA AllocStep == AllocInv /\ [AllocNext]_allVars => AllocInv'
  <1> SUFFICES ASSUME AllocInv, [AllocNext]_allVars PROVE AllocInv'
    OBVIOUS
  <1>1. CASE FindLiveness
    <2>1. PICK r \in Registers, i \in Ins : Visit(r, i)
      BY <1>1 DEF FindLiveness
    <2>2. /\ code' = code /\ visits # {}
          /\ coloring' = coloring /\ position' = position
          /\ values' = values /\ contents' = contents
      BY <1>1, <2>1 DEF FindLiveness, Visit, runVars
    <2>3. position = Allocation
      BY <2>2 DEF AllocInv, AllocTypeOK, Running, Done
    <2>4. LiveInv'
      BY <2>1, LiveVisit DEF AllocInv
    <2>5. ~ Running' /\ position' \notin Ins
      BY <2>2, <2>3 DEF Running, Allocation, Ins
    <2> QED
      BY <2>2, <2>4, <2>5
      DEF AllocInv, AllocTypeOK, LiveInv, Colored, LiveAgrees, WellFormed, InstructionType
  <1>2. CASE Enter
    BY <1>2, AllocEnter
  <1>3. CASE \E i \in Ins : Execute(i)
    BY <1>3, AllocExecute
  <1>4. CASE UNCHANGED allVars
    <2>1. /\ code' = code /\ live_after_node' = live_after_node /\ visits' = visits
          /\ coloring' = coloring /\ position' = position
          /\ values' = values /\ contents' = contents /\ UNCHANGED vars
      BY <1>4 DEF allVars, vars, runVars
    <2>2. LiveInv'
      BY <2>1, LiveNext DEF AllocInv
    <2>3. WellFormed(code)'
      BY <2>1 DEF AllocInv
    <2>4. AllocTypeOK'
      BY <2>1, <2>2 DEF AllocInv, AllocTypeOK, LiveInv, Running, Done
    <2>5. Colored'
      BY <2>1 DEF AllocInv, Colored, Running
    <2>6. LiveAgrees'
      BY <2>1 DEF AllocInv, LiveAgrees, LiveBefore, used, assigned
    <2> QED
      BY <2>2, <2>3, <2>4, <2>5, <2>6 DEF AllocInv
  <1> QED
    BY <1>1, <1>2, <1>3, <1>4 DEF AllocNext, GiveUp, Stopped

LEMMA AllocStart == AllocInit => AllocInv
  <1> SUFFICES ASSUME AllocInit PROVE AllocInv
    OBVIOUS
  <1>1. LiveInv
    BY LiveInit DEF AllocInit
  <1>2. WellFormed(code)
    BY CodesAssumption DEF AllocInit, Init
  <1>3. ~ Running /\ position \notin Ins /\ position \in Allocation .. End
    BY InstructionsAssumption DEF AllocInit, Running, Allocation, End, Ins
  <1> QED
    BY <1>1, <1>2, <1>3 DEF AllocInv, AllocTypeOK, LiveInv, Colored, LiveAgrees

------------------------------------------------------------------------------
(****************************************************************************)
(* The machine registers and the values of the two runs keep their types.   *)
(****************************************************************************)
THEOREM AllocTypeCorrect == AllocSpec => []AllocTypeOK
  <1>1. AllocInv => AllocTypeOK
    BY DEF AllocInv
  <1> QED
    BY AllocStart, AllocStep, <1>1, PTL DEF AllocSpec

(****************************************************************************)
(* The instructions of the coloured function read what those of the         *)
(* translated function read, in every execution of every function, with any *)
(* number of machine registers and any values.                              *)
(****************************************************************************)
THEOREM AllocationKeepsMeaning == AllocSpec => []ReadsTheSame
  <1>1. AllocInv => ReadsTheSame
    BY DEF AllocInv, LiveAgrees, LiveBefore, ReadsTheSame
  <1> QED
    BY AllocStart, AllocStep, <1>1, PTL DEF AllocSpec
==============================================================================
