-------------------------------- MODULE MsgQ --------------------------------
(***************************************************************************)
(* Message queues, kernel/msg_q.c: a ring of max_msgs messages and one     *)
(* wait queue, on which readers wait while the ring is empty and writers   *)
(* while it is full.  obj is the struct k_msgq, with the pointers counted  *)
(* in messages.  held is the sequence of messages that were taken in and   *)
(* not yet given out.                                                      *)
(***************************************************************************)
EXTENDS WaitQ

CONSTANT MaxMsgs     \* max_msgs

ASSUME MsgQAssumption == MaxMsgs \in Nat \ {0}

Advance(i) == IF i + 1 = MaxMsgs THEN 0 ELSE i + 1

Store(o, msg) ==
    [o EXCEPT !.buffer[o.write_ptr] = msg, !.write_ptr = Advance(@), !.used = @ + 1]

\* The messages that a caller can own: not in the ring or another's hands.
Free(msg) ==
    /\ \A i \in 1..Len(held) : held[i] # msg
    /\ \A t \in Threads : th[t].data # msg

\* k_msgq_put.  To a full ring with K_NO_WAIT it is refused.
PutHand(msg) ==
    /\ Free(msg)
    /\ obj.used < MaxMsgs /\ wait_q # <<>>
    /\ th' = [th EXCEPT ![Head(wait_q)] = WokenWith(Head(wait_q), "0", msg)]
    /\ wait_q' = Tail(wait_q)
    /\ UNCHANGED <<obj, held>>

PutStore(msg) ==
    /\ Free(msg)
    /\ obj.used < MaxMsgs /\ wait_q = <<>>
    /\ obj' = Store(obj, msg)
    /\ held' = Append(held, msg)
    /\ UNCHANGED <<th, wait_q>>

PutPend(t, msg, timed) ==
    /\ Free(msg)
    /\ obj.used = MaxMsgs
    /\ z_pend_curr(t, "put", msg, timed)
    /\ UNCHANGED <<obj, held>>

\* k_msgq_get.  The first of the waiting writers gets the place.
Take == [obj EXCEPT !.read_ptr = Advance(@), !.used = @ - 1]

Get ==
    /\ obj.used > 0
    /\ IF wait_q = <<>>
       THEN obj' = Take /\ held' = Tail(held) /\ UNCHANGED <<th, wait_q>>
       ELSE LET w == Head(wait_q)
            IN  /\ obj' = Store(Take, th[w].data)
                /\ held' = Append(Tail(held), th[w].data)
                /\ th' = [th EXCEPT ![w] = WokenWith(w, "0", NULL)]
                /\ wait_q' = Tail(wait_q)

GetPend(t, timed) ==
    /\ obj.used = 0
    /\ z_pend_curr(t, "get", NULL, timed)
    /\ UNCHANGED <<obj, held>>

k_msgq_purge(t) ==
    /\ Runs(t) /\ (obj.used > 0 \/ wait_q # <<>>)
    /\ th' = WokenAll(Waiters, "ENOMSG")
    /\ wait_q' = <<>>
    /\ obj' = [obj EXCEPT !.used = 0, !.read_ptr = obj.write_ptr]
    /\ held' = <<>>

\* z_pend_curr returns and so does the call.
MsgQReturn(t) ==
    /\ Woken(t)
    /\ th' = [th EXCEPT ![t] = Running]
    /\ UNCHANGED <<wait_q, obj, held>>

\* k_msgq_init
MsgQInit ==
    /\ WaitInit
    /\ obj = [buffer |-> [i \in 0..MaxMsgs - 1 |-> NULL],
              read_ptr |-> 0, write_ptr |-> 0, used |-> 0]
    /\ held = <<>>

MsgQNext ==
    \/ Get
    \/ \E msg \in Items : PutHand(msg) \/ PutStore(msg)
    \/ \E t \in Threads :
          \/ k_msgq_purge(t) \/ MsgQReturn(t) \/ Timeout(t)
          \/ \E timed \in BOOLEAN :
                GetPend(t, timed) \/ \E msg \in Items : PutPend(t, msg, timed)

-----------------------------------------------------------------------------
(* Properties. *)

\* The ring holds the messages taken in and not given out, in that order.
MsgQContents ==
    held = [i \in 1..obj.used |-> obj.buffer[(obj.read_ptr + i - 1) % MaxMsgs]]

\* Readers wait only for an empty ring and writers only for a full one, although
\* they share a wait queue.
MsgQNobodyStranded ==
    \A t \in Waiters : IF th[t].op = "get" THEN obj.used = 0 ELSE obj.used = MaxMsgs

\* A reader that returns 0 has a message of its own, one that does not has none;
\* a writer whose put failed still has its message to itself.
MsgQResults ==
    \A t \in Threads : Woken(t) =>
        LET mine == th[t].data
        IN  /\ (mine # NULL) = ((th[t].op = "get") = (th[t].ret = "0"))
            /\ mine # NULL => /\ mine \notin Range(held)
                              /\ \A u \in Threads \ {t} : th[u].data # mine
=============================================================================
