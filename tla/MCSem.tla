------------------------------- MODULE MCSem -------------------------------
(* Sem for model checking: two waiters of one priority and a more urgent one. *)
EXTENDS Sem, TLC

CONSTANTS t1, t2, t3

\* t1 and t2 are alike.
Symmetry == Permutations({t1, t2})

MCPrio == t1 :> 1 @@ t2 :> 1 @@ t3 :> 0
=============================================================================
