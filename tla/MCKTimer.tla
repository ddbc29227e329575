------------------------------ MODULE MCKTimer ------------------------------
(* KTimer for model checking: the threads that start and stop the timer are  *)
(* alike.                                                                    *)
EXTENDS KTimer, TLC

Symmetry == Permutations(Starters)
=============================================================================
