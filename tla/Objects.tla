------------------------------ MODULE Objects ------------------------------
(***************************************************************************)
(* The kernel objects that threads wait for, each on its own: kind says    *)
(* which.                                                                  *)
(***************************************************************************)
EXTENDS MsgQ, KQueue, KStack, MemSlab, KEvent, KHeap, Mailbox, Pipe, Futex, Poll

CONSTANT Kinds      \* the kinds of object explored

VARIABLE kind

Init ==
    /\ kind \in Kinds
    /\ \/ kind = "msgq" /\ MsgQInit
       \/ kind = "queue" /\ QueueInit
       \/ kind = "stack" /\ StackInit
       \/ kind = "slab" /\ SlabInit
       \/ kind = "event" /\ EventInit
       \/ kind = "heap" /\ HeapInit
       \/ kind = "mbox" /\ MboxInit
       \/ kind = "pipe" /\ PipeInit
       \/ kind = "futex" /\ FutexInit
       \/ kind = "poll" /\ PollInit

Next ==
    /\ UNCHANGED kind
    /\ \/ kind = "msgq" /\ MsgQNext
       \/ kind = "queue" /\ QueueNext
       \/ kind = "stack" /\ StackNext
       \/ kind = "slab" /\ SlabNext
       \/ kind = "event" /\ EventNext
       \/ kind = "heap" /\ HeapNext
       \/ kind = "mbox" /\ MboxNext
       \/ kind = "pipe" /\ PipeNext
       \/ kind = "futex" /\ FutexNext
       \/ kind = "poll" /\ PollNext

Spec == Init /\ [][Next]_<<wqVars, kind>>

-----------------------------------------------------------------------------
(* Properties: for each kind of object what its module says. *)

\* What was put into a message queue or stack, and the bytes stored in a pipe's
\* ring, are there in order until they are taken; an item of a queue, a block and
\* a mailbox message are in one place at a time; and no poll event is left behind:
\* across ring ends, direct hand-overs, timeouts, purges and cancelled waits.
ContentsKept ==
    /\ kind = "msgq" => MsgQContents
    /\ kind = "queue" => QueueContents
    /\ kind = "stack" => StackContents
    /\ kind = "slab" => SlabContents
    /\ kind = "mbox" => MboxContents
    /\ kind = "pipe" => PipeContents
    /\ kind = "poll" => PollContents

\* No thread is in a wait queue for what the object could give it: the code that
\* puts, frees, posts or sends wakes whom it can serve, and who comes to wait looks
\* first.  (A thread that left the wait queue and was not made ready is not among
\* those this is about: see NoWaiterLost.)
NobodyStranded ==
    /\ kind = "msgq" => MsgQNobodyStranded
    /\ kind = "queue" => QueueNobodyStranded
    /\ kind = "stack" => StackNobodyStranded
    /\ kind = "slab" => SlabNobodyStranded
    /\ kind = "event" => EventNobodyStranded
    /\ kind = "heap" => HeapNobodyStranded
    /\ kind = "mbox" => MboxNobodyStranded
    /\ kind = "pipe" => PipeNobodyStranded
    /\ kind = "futex" => FutexNobodyStranded
    /\ kind = "poll" => PollNobodyStranded

\* What a call reports when it returns after a wait is true: a message, events
\* that meet the condition, a letter from the sender asked for, bytes moved, a
\* ready or a cancelled event.
ResultsHold ==
    /\ kind = "msgq" => MsgQResults
    /\ kind = "event" => EventResults
    /\ kind = "mbox" => MboxResults
    /\ kind = "pipe" => PipeResults
    /\ kind = "poll" => PollResults

\* A thread that waits in k_queue_get() stays in the wait queue until it is made
\* ready: it returns with an item, or with NULL when its waiting time is over.
NoWaiterLost == kind = "queue" => QueueNoWaiterLost
=============================================================================
