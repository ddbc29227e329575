------------------------------- MODULE KHeap -------------------------------
(***************************************************************************)
(* Heaps with waiting, kernel/kheap.c.  obj is the number of units free in *)
(* the sys_heap, held the number of allocated chunks of each size.  A      *)
(* waiting thread's data is the size it asked for and its op the timeout.  *)
(* How sys_heap finds a chunk is not modelled: a request succeeds when     *)
(* enough units are free.                                                  *)
(***************************************************************************)
EXTENDS WaitQ

CONSTANT HeapUnits, MaxRequest

ASSUME HeapAssumption == HeapUnits \in Nat /\ MaxRequest \in 1..HeapUnits

Sizes == 1..MaxRequest

\* sys_heap_aligned_alloc succeeds.
Allocate(n) ==
    /\ n <= obj
    /\ obj' = obj - n
    /\ held' = [held EXCEPT ![n] = @ + 1]

\* k_heap_aligned_alloc: the first turn of its loop,
HeapAlloc(n) == Allocate(n) /\ UNCHANGED <<th, wait_q>>

\* end - now <= 0.  The deadline of K_FOREVER is UINT64_MAX, which is -1 in the
\* int64_t that holds it.
DeadlinePassed(timeout) == timeout = "forever"

HeapFail(t, n, timeout) ==
    /\ Runs(t) /\ n > obj
    /\ DeadlinePassed(timeout)
    /\ th' = [th EXCEPT ![t] = [Running EXCEPT !.st = "woken", !.op = timeout, !.ret = "NULL"]]
    /\ UNCHANGED <<wait_q, obj, held>>

HeapReturn(t) ==
    /\ Woken(t) /\ th[t].ret = "NULL"
    /\ th' = [th EXCEPT ![t] = Running]
    /\ UNCHANGED <<wait_q, obj, held>>

HeapWait(t, n, timeout) ==
    /\ n > obj
    /\ ~DeadlinePassed(timeout)
    /\ z_pend_curr(t, timeout, n, TRUE)
    /\ UNCHANGED <<obj, held>>

\* and the others.  The result of z_pend_curr is not looked at: a thread that
\* timed out tries once more.
RetryTake(t) ==
    /\ Woken(t) /\ th[t].ret # "NULL"
    /\ Allocate(th[t].data)
    /\ th' = [th EXCEPT ![t] = Running]
    /\ UNCHANGED wait_q

RetryGiveUp(t) ==
    /\ Woken(t) /\ th[t].ret # "NULL"
    /\ th[t].data > obj
    /\ th' = [th EXCEPT ![t] = Running]
    /\ UNCHANGED <<wait_q, obj, held>>

\* The deadline is still to come.
RetryWait(t) ==
    /\ Woken(t) /\ th[t].ret = "retry"
    /\ th[t].data > obj
    /\ th' = [th EXCEPT ![t] = Pended(th[t].op, th[t].data, TRUE)]
    /\ wait_q' = InsertByPrio(wait_q, t)
    /\ UNCHANGED <<obj, held>>

\* Variant: as for the other objects, one thread is woken.
k_heap_free_one(n) ==
    /\ held[n] > 0
    /\ obj' = obj + n
    /\ held' = [held EXCEPT ![n] = @ - 1]
    /\ th' = IF wait_q = <<>> THEN th ELSE WokenAll({Head(wait_q)}, "retry")
    /\ wait_q' = IF wait_q = <<>> THEN wait_q ELSE Tail(wait_q)

\* k_heap_free: z_unpend_all, everybody tries again.
k_heap_free(n) ==
    /\ held[n] > 0
    /\ obj' = obj + n
    /\ held' = [held EXCEPT ![n] = @ - 1]
    /\ th' = WokenAll(Waiters, "retry")
    /\ wait_q' = <<>>

HeapInit == WaitInit /\ obj = HeapUnits /\ held = [n \in Sizes |-> 0]

HeapNext ==
    \/ \E n \in Sizes : HeapAlloc(n) \/ k_heap_free(n)
    \/ \E t \in Threads :
          \/ RetryTake(t) \/ RetryGiveUp(t) \/ RetryWait(t) \/ HeapReturn(t) \/ Timeout(t)
          \/ \E n \in Sizes, timeout \in {"timed", "forever"} :
                HeapFail(t, n, timeout) \/ HeapWait(t, n, timeout)

-----------------------------------------------------------------------------
(* Properties. *)

\* Nobody waits for what is there, however many chunks were freed and whoever
\* was faster.
HeapNobodyStranded == \A t \in Waiters : th[t].data > obj

\* k_heap_alloc() with K_FOREVER waits for memory: it does not come back without.
ForeverWaits == \A t \in Threads : Woken(t) /\ th[t].op = "forever" => th[t].ret # "NULL"
=============================================================================
