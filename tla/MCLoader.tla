----------------------------- MODULE MCLoader -----------------------------
(* Loader for TLC: model values and the symmetry of the names and variables. *)
EXTENDS Loader, TLC

NameSymmetry == Permutations(Names) \cup Permutations(Variables)
===========================================================================
