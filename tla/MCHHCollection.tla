--------------------------- MODULE MCHHCollection ---------------------------
(* Model-checking instance of HHCollection: five objects over three       *)
(* levels; levels 2 and 3 are collected, level 1 stays.                    *)
EXTENDS HHCollection

CONSTANTS S, T, A, B, C

MCObjects == {S, T, A, B, C}
MCLevel == [o \in MCObjects |-> CASE o \in {S, T, A} -> 3
                                  [] o = B -> 2
                                  [] o = C -> 1]
=============================================================================
