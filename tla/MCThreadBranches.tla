--------------------------- MODULE MCThreadBranches ---------------------------
(* ThreadBranches on small instances: turns are interchangeable.           *)
EXTENDS ThreadBranches, TLC

TurnSymmetry == Permutations(Turns)
=============================================================================
