------------------------- MODULE MCNestedFunctions -------------------------
(***************************************************************************)
(* Nested functions in the compiler and in the compiled program: programs  *)
(* of a few elements (Escape), and the calls of a program with functions   *)
(* four levels deep, siblings at three of them (StaticLinks):              *)
(*   main ( f ( g ( h ), k ), p ( q ) )                                    *)
(* The two share no state and run at different times: one is left at its   *)
(* start while the other runs.                                             *)
(***************************************************************************)
EXTENDS Escape, StaticLinks, TLC

NamesSymmetry == Permutations(Names)

MCFunctions == {"main", "f", "g", "h", "k", "p", "q"}

MCParent ==
    [f \in MCFunctions \ {"main"} |->
        CASE f \in {"f", "p"} -> "main"
          [] f \in {"g", "k"} -> "f"
          [] f = "h" -> "g"
          [] f = "q" -> "p"]

MCInside ==
    { <<f, MCParent[f]>> : f \in MCFunctions \ {"main"} }
      \cup { <<f, MCParent[MCParent[f]]>> : f \in {"g", "h", "k", "q"} }
      \cup {<<"h", "main">>}

NothingWritten == elements = 0
NothingCalled == TopFrame = 1 /\ goal = NoGoal

NestedInit == Init /\ LinksInit

NestedNext ==
    \/ NothingCalled /\ Next /\ UNCHANGED linkVars
    \/ NothingWritten /\ LinksNext /\ UNCHANGED vars

NestedSpec == NestedInit /\ [][NestedNext]_<<vars, linkVars>>
=============================================================================
