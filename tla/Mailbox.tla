------------------------------- MODULE Mailbox ------------------------------
(***************************************************************************)
(* Mailboxes, kernel/mailbox.c.  wait_q is rx_msg_queue; a receiver's data *)
(* is the sender it asks for and then the message it has got.  A message   *)
(* sent with k_mbox_put() keeps its sender waiting, first in tx_msg_queue  *)
(* and then in none, until the receiver has taken the data;                *)
(* k_mbox_async_put() lets a descriptor wait instead.  NULL is K_ANY.      *)
(* held keeps what each receiver asked for.  A wait with K_FOREVER is one  *)
(* whose timeout does not expire.                                          *)
(***************************************************************************)
EXTENDS WaitQ

CONSTANT AsyncMsgs     \* the CONFIG_NUM_MBOX_ASYNC_MSGS descriptors

ASSUME MboxAssumption == NULL \notin AsyncMsgs

\* A message: its sender, the receiver it is for, and its descriptor or NULL.
Message(t, to, async) == [src |-> t, to |-> to, async |-> async]

\* Variant of mbox_message_match: the receiver's wish is not looked at.
Matches_target(msg, r, from) == msg.to \in {NULL, r}

\* mbox_message_match
Matches(msg, r, from) == msg.to \in {NULL, r} /\ from \in {NULL, msg.src}

\* z_priq_dumb_add on tx_msg_queue; a descriptor has its sender's priority.
InsertMsg(s, msg) ==
    LET worse == {i \in 1..Len(s) : Prio[msg.src] < Prio[s[i].src]}
    IN  InsertAt(s, IF worse = {} THEN Len(s) + 1 ELSE Min(worse), msg)

\* The first index of a sequence that satisfies a test, and 0 if there is none.
FirstOf(S) == IF S = {} THEN 0 ELSE Min(S)
ReceiverFor(msg) == FirstOf({i \in 1..Len(wait_q) : Matches(msg, wait_q[i], th[wait_q[i]].data)})
MessageFor(r, from) == FirstOf({i \in 1..Len(obj.tx) : Matches(obj.tx[i], r, from)})
MessageOf(t) == FirstOf({i \in 1..Len(obj.tx) : obj.tx[i].src = t /\ obj.tx[i].async = NULL})

-----------------------------------------------------------------------------
(* Sending: mbox_message_put. *)

\* A waiting receiver gets the message; a sender that is a thread waits on.
PutMatch(msg) ==
    LET i == ReceiverFor(msg)
        r == wait_q[i]
    IN  /\ i # 0
        /\ wait_q' = RemoveAt(wait_q, i)
        /\ th' = [t \in Threads |->
                     IF t = r THEN WokenWith(r, "0", msg)
                     ELSE IF t = msg.src /\ msg.async = NULL
                     THEN [Pended("sync", NULL, FALSE) EXCEPT !.st = "sync"]
                     ELSE th[t]]

k_mbox_put(t, to) ==
    LET msg == Message(t, to, NULL)
    IN  /\ Runs(t) /\ to # t
        /\ \/ PutMatch(msg) /\ UNCHANGED obj
           \/ /\ ReceiverFor(msg) = 0
              /\ th' = [th EXCEPT ![t] = Pended("put", NULL, TRUE)]
              /\ obj' = [obj EXCEPT !.tx = InsertMsg(@, msg)]
              /\ UNCHANGED wait_q
        /\ UNCHANGED held

\* With all descriptors in use the caller waits.
k_mbox_async_put(t, to, a) ==
    LET msg == Message(t, to, a)
    IN  /\ Runs(t) /\ to # t /\ a \in obj.pool
        /\ \/ /\ PutMatch(msg)
              /\ obj' = [obj EXCEPT !.pool = @ \ {a}]
           \/ /\ ReceiverFor(msg) = 0
              /\ obj' = [obj EXCEPT !.tx = InsertMsg(@, msg), !.pool = @ \ {a}]
              /\ UNCHANGED <<th, wait_q>>
        /\ UNCHANGED held

\* z_thread_timeout of a sender in tx_msg_queue.
PutTimeout(t) ==
    /\ Pends(t) /\ th[t].op = "put" /\ th[t].armed
    /\ th' = [th EXCEPT ![t].st = "woken", ![t].armed = FALSE]
    /\ obj' = [obj EXCEPT !.tx = RemoveAt(@, MessageOf(t))]
    /\ UNCHANGED <<wait_q, held>>

PutReturn(t) ==
    /\ Woken(t) /\ th[t].op \in {"put", "sync"}
    /\ th' = [th EXCEPT ![t] = Running]
    /\ UNCHANGED <<wait_q, obj, held>>

-----------------------------------------------------------------------------
(* Receiving. *)

\* k_mbox_get: a waiting message is unpended and its sender left to wait, in no
\* queue; or the caller waits.
k_mbox_get(t, from) ==
    LET i == MessageFor(t, from)
        s == obj.tx[i].src
    IN  /\ Runs(t) /\ from # t
        /\ held' = [held EXCEPT ![t] = from]
        /\ \/ /\ i # 0
              /\ obj' = [obj EXCEPT !.tx = RemoveAt(@, i)]
              /\ th' = [u \in Threads |->
                           IF u = t
                           THEN [Running EXCEPT !.st = "woken", !.op = "get", !.data = obj.tx[i]]
                           ELSE IF u = s /\ obj.tx[i].async = NULL
                           THEN [th[s] EXCEPT !.st = "sync", !.armed = FALSE]
                           ELSE th[u]]
              /\ UNCHANGED wait_q
           \/ i = 0 /\ z_pend_curr(t, "get", from, TRUE) /\ UNCHANGED obj

\* mbox_message_dispose on the threads f: the sender is released.
Dispose(msg, f) ==
    IF msg.async # NULL THEN f
    ELSE [f EXCEPT ![msg.src] = WokenWith(msg.src, "0", NULL)]

\* mbox_async_free
DisposePool(msg) == IF msg.async = NULL THEN obj.pool ELSE obj.pool \union {msg.async}

\* mbox_message_data_check: the data is taken at once,
GetData(t) ==
    /\ Woken(t) /\ th[t].op = "get" /\ th[t].ret = "0"
    /\ th' = Dispose(th[t].data, [th EXCEPT ![t] = Running])
    /\ obj' = [obj EXCEPT !.pool = DisposePool(th[t].data)]
    /\ held' = [held EXCEPT ![t] = NULL]
    /\ UNCHANGED wait_q

\* or the call returns without it, with the message addressed to the caller,
GetOpen(t) ==
    /\ Woken(t) /\ th[t].op = "get" /\ th[t].ret = "0"
    /\ th' = [th EXCEPT ![t] = Running]
    /\ obj' = [obj EXCEPT !.open = @ \union {[th[t].data EXCEPT !.to = t]}]
    /\ held' = [held EXCEPT ![t] = NULL]
    /\ UNCHANGED wait_q

\* and k_mbox_data_get follows.
k_mbox_data_get(msg) ==
    /\ msg \in obj.open /\ Runs(msg.to)
    /\ th' = Dispose(msg, th)
    /\ obj' = [obj EXCEPT !.open = @ \ {msg}, !.pool = DisposePool(msg)]
    /\ UNCHANGED <<wait_q, held>>

GetTimedOut(t) ==
    /\ Woken(t) /\ th[t].op = "get" /\ th[t].ret # "0"
    /\ th' = [th EXCEPT ![t] = Running]
    /\ held' = [held EXCEPT ![t] = NULL]
    /\ UNCHANGED <<wait_q, obj>>

-----------------------------------------------------------------------------
MboxInit ==
    /\ WaitInit
    /\ obj = [tx |-> <<>>, pool |-> AsyncMsgs, open |-> {}]
    /\ held = [t \in Threads |-> NULL]

MboxNext ==
    \/ \E msg \in obj.open : k_mbox_data_get(msg)
    \/ \E t \in Threads :
          \/ PutTimeout(t) \/ PutReturn(t)
          \/ th[t].op = "get" /\ Timeout(t)
          \/ GetData(t) \/ GetOpen(t) \/ GetTimedOut(t)
          \/ \E u \in Threads \union {NULL} :
                \/ k_mbox_put(t, u) \/ k_mbox_get(t, u)
                \/ \E a \in AsyncMsgs : k_mbox_async_put(t, u, a)

-----------------------------------------------------------------------------
(* Properties. *)

\* The messages that threads in k_mbox_get have got, and all there are.
Received == {th[t].data : t \in {u \in Threads : Woken(u) /\ th[u].op = "get" /\ th[u].ret = "0"}}
Outstanding == Range(obj.tx) \union Received \union obj.open

\* A message is in one place.  A sender waits exactly as long as its message is
\* out and has not been taken, and a descriptor is in use exactly as long.
MboxContents ==
    /\ IsInjective(obj.tx)
    /\ Cardinality(Outstanding) = Len(obj.tx) + Cardinality(obj.open)
            + Cardinality({t \in Threads : Woken(t) /\ th[t].op = "get" /\ th[t].ret = "0"})
    /\ \A t \in Threads :
          LET mine(S) == \E msg \in S : msg.src = t /\ msg.async = NULL
          IN  /\ mine(Range(obj.tx)) <=> Pends(t) /\ th[t].op = "put"
              /\ mine(Received \union obj.open) <=> th[t].st = "sync"
    /\ \A a \in AsyncMsgs :
          a \in obj.pool <=> \A msg \in Outstanding : msg.async # a

\* Nobody waits for a message that waits for it.
MboxNobodyStranded ==
    \A r \in Waiters : \A msg \in Range(obj.tx) : ~Matches(msg, r, th[r].data)

\* What a receiver got is for it, and from whom it asked for.
MboxResults ==
    \A t \in Threads : Woken(t) /\ th[t].op = "get" /\ th[t].ret = "0" =>
        th[t].data.to \in {NULL, t} /\ held[t] \in {NULL, th[t].data.src}
=============================================================================
