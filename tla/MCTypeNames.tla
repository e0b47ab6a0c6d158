----------------------------- MODULE MCTypeNames -----------------------------
(* Programs of a few declarations of types; names do not matter by themselves. *)
EXTENDS TypeNames, TLC

NamesSymmetry == Permutations(TypeIds)
=============================================================================
