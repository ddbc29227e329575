------------------------------ MODULE MemSlab ------------------------------
(***************************************************************************)
(* Memory slabs, kernel/mem_slab.c.  The items are the blocks.  obj is the *)
(* free list with num_used; held the set of blocks that callers own.       *)
(***************************************************************************)
EXTENDS WaitQ

\* k_mem_slab_alloc
AllocBlock ==
    /\ obj.free_list # <<>>
    /\ obj' = [free_list |-> Tail(obj.free_list), num_used |-> obj.num_used + 1]
    /\ held' = held \union {Head(obj.free_list)}
    /\ UNCHANGED <<th, wait_q>>

AllocWait(t, timed) ==
    /\ obj.free_list = <<>>
    /\ z_pend_curr(t, "alloc", NULL, timed)
    /\ UNCHANGED <<obj, held>>

AllocReturn(t) ==
    /\ Woken(t)
    /\ th' = [th EXCEPT ![t] = Running]
    /\ held' = IF th[t].ret = "0" THEN held \union {th[t].data} ELSE held
    /\ UNCHANGED <<wait_q, obj>>

\* k_mem_slab_free: the block goes to the first waiting thread and stays used,
FreeHand(b) ==
    /\ b \in held
    /\ obj.free_list = <<>> /\ wait_q # <<>>
    /\ th' = [th EXCEPT ![Head(wait_q)] = WokenWith(Head(wait_q), "0", b)]
    /\ wait_q' = Tail(wait_q)
    /\ held' = held \ {b}
    /\ UNCHANGED obj

\* or to the front of the free list.
FreeBlock(b) ==
    /\ b \in held
    /\ obj.free_list # <<>> \/ wait_q = <<>>
    /\ obj' = [free_list |-> <<b>> \o obj.free_list, num_used |-> obj.num_used - 1]
    /\ held' = held \ {b}
    /\ UNCHANGED <<th, wait_q>>

\* k_mem_slab_init, create_free_list
SlabInit ==
    /\ WaitInit
    /\ \E s \in SetToSeqs(Items) : obj = [free_list |-> s, num_used |-> 0]
    /\ held = {}

SlabNext ==
    \/ AllocBlock
    \/ \E b \in Items : FreeHand(b) \/ FreeBlock(b)
    \/ \E t \in Threads :
          AllocReturn(t) \/ Timeout(t) \/ \E timed \in BOOLEAN : AllocWait(t, timed)

-----------------------------------------------------------------------------
(* Properties. *)

\* The blocks with threads on their way out of k_mem_slab_alloc.
HandedBlocks == {th[t].data : t \in {u \in Threads : Woken(u) /\ th[u].ret = "0"}}

\* Every block is free, handed over or owned, one of these and once, and num_used
\* counts the last two.
SlabContents ==
    /\ IsInjective(obj.free_list)
    /\ Range(obj.free_list) \union HandedBlocks \union held = Items
    /\ obj.num_used = Cardinality(HandedBlocks \union held)
    /\ obj.num_used + Len(obj.free_list) = Cardinality(Items)
    /\ \A t \in Threads : Woken(t) /\ th[t].ret = "0" =>
          \A u \in Threads \ {t} : th[u].data # th[t].data

\* Nobody waits while a block is free.
SlabNobodyStranded == wait_q # <<>> => obj.free_list = <<>>
=============================================================================
