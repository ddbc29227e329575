------------------------------- MODULE KStack -------------------------------
(***************************************************************************)
(* Stacks, kernel/stack.c.  obj is the struct k_stack with next counted in *)
(* entries from base; held the sequence of values that were pushed and not *)
(* popped.                                                                 *)
(***************************************************************************)
EXTENDS WaitQ

CONSTANT MaxEntries     \* num_entries

ASSUME StackAssumption == MaxEntries \in Nat \ {0}

\* k_stack_push.  To a full stack it is refused with -ENOMEM.
PushHand(x) ==
    /\ obj.next < MaxEntries /\ wait_q # <<>>
    /\ th' = [th EXCEPT ![Head(wait_q)] = WokenWith(Head(wait_q), "0", x)]
    /\ wait_q' = Tail(wait_q)
    /\ UNCHANGED <<obj, held>>

PushStore(x) ==
    /\ obj.next < MaxEntries /\ wait_q = <<>>
    /\ obj' = [obj EXCEPT !.data[obj.next] = x, !.next = @ + 1]
    /\ held' = Append(held, x)
    /\ UNCHANGED <<th, wait_q>>

\* k_stack_pop
Pop ==
    /\ obj.next > 0
    /\ obj' = [obj EXCEPT !.next = @ - 1]
    /\ held' = Front(held)
    /\ UNCHANGED <<th, wait_q>>

PopWait(t, timed) ==
    /\ obj.next = 0
    /\ z_pend_curr(t, "pop", NULL, timed)
    /\ UNCHANGED <<obj, held>>

PopReturn(t) ==
    /\ Woken(t)
    /\ th' = [th EXCEPT ![t] = Running]
    /\ UNCHANGED <<wait_q, obj, held>>

StackInit ==
    /\ WaitInit
    /\ obj = [data |-> [i \in 0..MaxEntries - 1 |-> NULL], next |-> 0]
    /\ held = <<>>

StackNext ==
    \/ Pop
    \/ \E x \in Items : PushHand(x) \/ PushStore(x)
    \/ \E t \in Threads :
          PopReturn(t) \/ Timeout(t) \/ \E timed \in BOOLEAN : PopWait(t, timed)

-----------------------------------------------------------------------------
(* Properties. *)

\* The entries below next are the values pushed and not popped.
StackContents == held = [i \in 1..obj.next |-> obj.data[i - 1]]

\* Nobody waits while there is a value, and who was given one has it.
StackNobodyStranded ==
    /\ wait_q # <<>> => obj.next = 0
    /\ \A t \in Threads : Woken(t) => (th[t].data # NULL) = (th[t].ret = "0")
=============================================================================
