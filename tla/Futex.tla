------------------------------- MODULE Futex -------------------------------
(***************************************************************************)
(* Futexes, kernel/futex.c, and their users, who change the value and then *)
(* wake everybody.  obj.val is the value and obj.due says that a user has  *)
(* changed it and not called k_futex_wake yet.  A waiting thread's data is *)
(* the value it expects.  held has the threads that went to wait although  *)
(* the value had changed since they had looked at it.                      *)
(***************************************************************************)
EXTENDS WaitQ

\* k_futex_wait looks at the value without the lock,
FutexTest(t) ==
    /\ Runs(t)
    /\ th' = [th EXCEPT ![t] = [Running EXCEPT !.st = "tested", !.data = obj.val]]
    /\ UNCHANGED <<wait_q, obj, held>>

\* and then waits, whatever it is now.
FutexWait(t, timed) ==
    /\ th[t].st = "tested"
    /\ th' = [th EXCEPT ![t] = Pended("wait", th[t].data, timed)]
    /\ wait_q' = InsertByPrio(wait_q, t)
    /\ held' = IF th[t].data = obj.val THEN held ELSE held \union {t}
    /\ UNCHANGED obj

FutexReturn(t) ==
    /\ Woken(t)
    /\ th' = [th EXCEPT ![t] = Running]
    /\ held' = held \ {t}
    /\ UNCHANGED <<wait_q, obj>>

FutexChange(v) ==
    /\ ~obj.due /\ v # obj.val
    /\ obj' = [val |-> v, due |-> TRUE]
    /\ UNCHANGED <<th, wait_q, held>>

\* k_futex_wake: everybody, or the first.
FutexWakeAll ==
    /\ obj.due
    /\ th' = WokenAll(Waiters, "0")
    /\ wait_q' = <<>>
    /\ obj' = [obj EXCEPT !.due = FALSE]
    /\ UNCHANGED held

FutexWakeOne ==
    /\ wait_q # <<>>
    /\ th' = WokenAll({Head(wait_q)}, "0")
    /\ wait_q' = Tail(wait_q)
    /\ UNCHANGED <<obj, held>>

FutexInit == WaitInit /\ (\E v \in Items : obj = [val |-> v, due |-> FALSE]) /\ held = {}

FutexNext ==
    \/ FutexWakeAll \/ FutexWakeOne
    \/ \E v \in Items : FutexChange(v)
    \/ \E t \in Threads :
          FutexTest(t) \/ FutexReturn(t) \/ Timeout(t) \/ \E timed \in BOOLEAN : FutexWait(t, timed)

-----------------------------------------------------------------------------
(* Properties. *)

\* A thread waits for a value that is gone only until the wake-up that is due, or
\* because the value changed between its look and its wait.
FutexNobodyStranded ==
    \A t \in Waiters : th[t].data = obj.val \/ obj.due \/ t \in held
=============================================================================
