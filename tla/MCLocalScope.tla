---------------------------- MODULE MCLocalScope ----------------------------
(* Model-checking instance of LocalScope; thieves are interchangeable.     *)
EXTENDS LocalScope, TLC

ThiefSymmetry == Permutations(Thieves)
=============================================================================
