----------------------------- MODULE MCRegAlloc -----------------------------
(***************************************************************************)
(* Symmetry for model checking RegAlloc: no action and no property tells   *)
(* two temporaries, or two locals, apart.                                  *)
(***************************************************************************)
EXTENDS RegAlloc, TLC

NameSymmetry == Permutations(Temps) \cup Permutations(Locals)

=============================================================================
