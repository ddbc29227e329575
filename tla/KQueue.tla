------------------------------- MODULE KQueue -------------------------------
(***************************************************************************)
(* Queues, and the FIFOs and LIFOs made of them, kernel/queue.c.  obj is   *)
(* data_q; a node that alloc_append allocates is the item it carries.      *)
(* held is the set of items that were handed to the queue and that no      *)
(* caller has got.                                                         *)
(***************************************************************************)
EXTENDS WaitQ

\* queue_insert behind the i-th item: k_queue_prepend, _insert and _append, and
\* the allocating ones unless they are out of memory.
InsertAfter(i, x) ==
    /\ x \notin held /\ i <= Len(obj)
    /\ wait_q = <<>>
    /\ obj' = InsertAt(obj, i + 1, x)
    /\ held' = held \union {x}
    /\ UNCHANGED <<th, wait_q>>

\* queue_insert with a thread waiting, whatever the place.
InsertHand(x) ==
    /\ x \notin held
    /\ wait_q # <<>>
    /\ th' = [th EXCEPT ![Head(wait_q)] = WokenWith(Head(wait_q), "0", x)]
    /\ wait_q' = Tail(wait_q)
    /\ held' = held \union {x}
    /\ UNCHANGED obj

\* z_unpend_first_thread alone: out of the wait queue, the timeout cancelled, and
\* not made ready.  Nothing wakes such a thread any more.
Unready(t) == [th[t] EXCEPT !.st = "lost", !.armed = FALSE]

\* k_queue_append_list and k_queue_merge_slist: to the waiting threads first,
\* one item each, and what is left to the end of the queue.  Each turn of the
\* loop ends by unpending the next thread, the turn that hands over the last item
\* too.
k_queue_append_list(s) ==
    LET served == Min({Len(s), Len(wait_q)})
        unpended == Min({Len(s) + 1, Len(wait_q)})
    IN  /\ Range(s) \intersect held = {}
        /\ th' = [t \in Threads |->
                     IF \E i \in 1..served : wait_q[i] = t
                     THEN WokenWith(t, "0", s[CHOOSE i \in 1..served : wait_q[i] = t])
                     ELSE IF \E i \in served + 1..unpended : wait_q[i] = t THEN Unready(t)
                     ELSE th[t]]
        /\ wait_q' = SubSeq(wait_q, unpended + 1, Len(wait_q))
        /\ obj' = obj \o SubSeq(s, served + 1, Len(s))
        /\ held' = held \union Range(s)

k_queue_cancel_wait ==
    /\ wait_q # <<>>
    /\ th' = [th EXCEPT ![Head(wait_q)] = WokenWith(Head(wait_q), "0", NULL)]
    /\ wait_q' = Tail(wait_q)
    /\ UNCHANGED <<obj, held>>

\* k_queue_get
GetHead ==
    /\ obj # <<>>
    /\ obj' = Tail(obj)
    /\ held' = held \ {Head(obj)}
    /\ UNCHANGED <<th, wait_q>>

GetWait(t, timed) ==
    /\ obj = <<>>
    /\ z_pend_curr(t, "get", NULL, timed)
    /\ UNCHANGED <<obj, held>>

\* The call returns, with swap_data if the result is 0.
GetReturn(t) ==
    /\ Woken(t)
    /\ th' = [th EXCEPT ![t] = Running]
    /\ held' = IF th[t].ret = "0" THEN held \ {th[t].data} ELSE held
    /\ UNCHANGED <<wait_q, obj>>

\* k_queue_remove.  It takes no lock: nobody else may use the queue meanwhile.
k_queue_remove(x) ==
    /\ x \in Range(obj)
    /\ obj' = Without(obj, x)
    /\ held' = held \ {x}
    /\ UNCHANGED <<th, wait_q>>

QueueInit == WaitInit /\ obj = <<>> /\ held = {}

ItemLists == {s \in [1..2 -> Items] : s[1] # s[2]}

QueueNext ==
    \/ GetHead \/ k_queue_cancel_wait
    \/ \E x \in Items :
          InsertHand(x) \/ k_queue_remove(x) \/ \E i \in 0..Cardinality(Items) : InsertAfter(i, x)
    \/ \E s \in ItemLists : k_queue_append_list(s)
    \/ \E t \in Threads :
          GetReturn(t) \/ Timeout(t) \/ \E timed \in BOOLEAN : GetWait(t, timed)

-----------------------------------------------------------------------------
(* Properties. *)

HandedItems(t) == IF Woken(t) /\ th[t].ret = "0" THEN {th[t].data} \ {NULL} ELSE {}

\* Every item handed to the queue is in the list or with one thread that is on
\* its way out of k_queue_get(), and in one place only.
QueueContents ==
    /\ IsInjective(obj)
    /\ held = Range(obj) \union UNION {HandedItems(t) : t \in Threads}
    /\ \A t, u \in Threads : t # u => HandedItems(t) \intersect HandedItems(u) = {}
    /\ \A t \in Threads : HandedItems(t) \intersect Range(obj) = {}

\* Nobody is in the wait queue while there is an item.
QueueNobodyStranded == wait_q # <<>> => obj = <<>>

\* A thread in k_queue_get() is in the wait queue, where an item, the end of the
\* waiting time or k_queue_cancel_wait() reaches it, or was made ready.
QueueNoWaiterLost ==
    \A t \in Threads : ~Runs(t) => t \in Waiters \/ Woken(t)
=============================================================================
