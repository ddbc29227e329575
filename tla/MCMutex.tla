------------------------------ MODULE MCMutex ------------------------------
(* Mutex and Condvar for model checking: threads of three priorities, and   *)
(* two alike.                                                               *)
EXTENDS Condvar, TLC

CONSTANTS t1, t2, t3, t4

MCPrio == t1 :> 0 @@ t2 :> 1 @@ t3 :> 2 @@ t4 :> 2

\* The default of CONFIG_PRIORITY_CEILING.
NoCeiling == -127
=============================================================================
