-------------------------- MODULE MCChaseLevDeque --------------------------
(* Model-checking instance of ChaseLevDeque.  Thieves are interchangeable *)
(* model values, so runs may use symmetry over them.                       *)
EXTENDS ChaseLevDeque, TLC

ThiefSymmetry == Permutations(Thieves)
=============================================================================
