---------------------------- MODULE MCBladePSGI ----------------------------
(* BladePSGI for TLC: model values and the symmetry of the workers. *)
EXTENDS BladePSGI, TLC

WorkerSymmetry == Permutations(Workers)
===========================================================================
