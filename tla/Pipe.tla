-------------------------------- MODULE Pipe --------------------------------
(***************************************************************************)
(* Pipes, kernel/pipes.c.  A byte is its number in the call that writes it *)
(* and an entry of the ring that was read is NULL.  wait_q is              *)
(* wait_q.readers; obj is the ring buffer with wait_q.writers.  The data   *)
(* of a thread in a call is its struct k_pipe_desc, the bytes still to be  *)
(* written or the number still to be read, and lacking, the bytes missing  *)
(* from min_xfer.  held is the sequence of bytes that were stored and not  *)
(* read.  A wait with K_FOREVER is one whose timeout does not expire.      *)
(*                                                                         *)
(* The bytes are copied with interrupts on and the scheduler locked.  Only *)
(* a timeout can come in between, and the thread it readies does not run   *)
(* before the copying is over: it is as if the timeout had come after it.  *)
(***************************************************************************)
EXTENDS WaitQ

CONSTANTS PipeSize, MaxXfer     \* bytes in the ring, and in one call

ASSUME PipeAssumption == PipeSize \in Nat \ {0} /\ MaxXfer \in Nat \ {0}

\* What a thread that waits still has to move.
Rest(t) == IF th[t].op = "write" THEN Len(th[t].data.bytes) ELSE th[t].data.left
Before(q, i) == SumFunctionOnSet([j \in 1..Len(q) |-> Rest(q[j])], 1..(i - 1))
Total(q) == Before(q, Len(q) + 1)

\* pipe_xfer_prepare: the first so many are served in full by n bytes,
Served(q, n) == Cardinality({i \in 1..Len(q) : Before(q, i + 1) <= n})

\* and the i-th has this many of the n bytes, which are moved in order.
Share(q, i, n) == Min({Rest(q[i]), Max({0, n - Before(q, i)})})

Dropped(s, n) == SubSeq(s, n + 1, Len(s))

\* The threads of the queue q after n bytes went to or came from it: those
\* served in full were unpended and are readied.
Transferred(q, n, served, t) ==
    LET i == CHOOSE j \in 1..Len(q) : q[j] = t
        k == Share(q, i, n)
        d == IF th[t].op = "write"
             THEN [th[t].data EXCEPT !.bytes = Dropped(@, k), !.lacking = Max({0, @ - k})]
             ELSE [th[t].data EXCEPT !.left = @ - k, !.lacking = Max({0, @ - k})]
    IN  IF i <= served THEN WokenWith(t, "served", d) ELSE [th[t] EXCEPT !.data = d]

\* Variant: one run of the ring, up to its end.
RingPut_once(o, s) ==
    LET n == Min({Len(s), o.size - o.write_index})
    IN  [o EXCEPT !.buffer = [i \in DOMAIN @ |->
                                 IF i - o.write_index \in 0..n - 1
                                 THEN s[i - o.write_index + 1] ELSE @[i]],
                  !.write_index = IF @ + n = o.size THEN 0 ELSE @ + n,
                  !.bytes_used = @ + n]

\* pipe_buffer_put of bytes for which there is room: one run or two.
RingPut(o, s) ==
    IF s = <<>> THEN o
    ELSE [o EXCEPT !.buffer = [i \in DOMAIN @ |->
                                  LET k == ((i - o.write_index) % o.size) + 1
                                  IN  IF k <= Len(s) THEN s[k] ELSE @[i]],
                   !.write_index = (@ + Len(s)) % o.size,
                   !.bytes_used = @ + Len(s)]

\* pipe_buffer_get
RingGet(o, n) ==
    IF n = 0 THEN o
    ELSE [o EXCEPT !.buffer = [i \in DOMAIN @ |->
                                  IF (i - o.read_index) % o.size < n THEN NULL ELSE @[i]],
                   !.read_index = (@ + n) % o.size, !.bytes_used = @ - n]

\* A call returns when all is moved, or enough, or when it must not wait.
MayReturn(rest, moved, min_xfer, timeout) ==
    rest = 0 \/ timeout = "nowait" \/ (moved >= min_xfer /\ min_xfer > 0)

\* The calling thread afterwards.  Only a short result is still to be returned.
Caller(op, data, rest, done) ==
    IF rest = 0 THEN Running
    ELSE IF done THEN [Running EXCEPT !.st = "woken", !.op = op, !.data = data]
    ELSE Pended(op, data, TRUE)

-----------------------------------------------------------------------------
\* k_pipe_put: to the readers that wait, then to the buffer.  With K_NO_WAIT it
\* is refused (-EIO) when min_xfer bytes cannot be moved.
k_pipe_put(t, bytes, min_xfer, timeout) ==
    LET n      == Len(bytes)
        direct == Min({n, Total(wait_q)})
        stored == Min({n - direct, obj.size - obj.bytes_used})
        served == Served(wait_q, n)
        rest   == Dropped(bytes, direct + stored)
        buffer == SubSeq(bytes, direct + 1, direct + stored)
        done   == MayReturn(Len(rest), direct + stored, min_xfer, timeout)
    IN  /\ Runs(t)
        /\ timeout = "nowait" => Total(wait_q) + obj.size - obj.bytes_used >= min_xfer
        /\ th' = [u \in Threads |->
                     IF u = t
                     THEN Caller("write", [bytes |-> rest, lacking |-> Max({0, min_xfer - direct - stored})],
                                 Len(rest), done)
                     ELSE IF u \in Waiters THEN Transferred(wait_q, direct, served, u)
                     ELSE th[u]]
        /\ wait_q' = Dropped(wait_q, served)
        /\ obj' = [RingPut(obj, buffer) EXCEPT
                      !.writers = IF done THEN @ ELSE InsertByPrio(@, t)]
        /\ held' = held \o buffer

\* pipe_get_internal: from the buffer, then from the writers that wait; then
\* these fill the buffer again.
pipe_get_internal(t, n, min_xfer, timeout) ==
    LET buffered == Min({n, obj.bytes_used})
        direct   == Min({n - buffered, Total(obj.writers)})
        served   == Served(obj.writers, n)
        offered  == FlattenSeq([i \in 1..Min({served + 1, Len(obj.writers)}) |->
                                   th[obj.writers[i]].data.bytes])
        stored   == Min({Len(offered) - direct, obj.size - obj.bytes_used + buffered})
        buffer   == SubSeq(offered, direct + 1, direct + stored)
        moved    == buffered + direct
        done     == MayReturn(n - moved, moved, min_xfer, timeout)
    IN  /\ Runs(t)
        /\ timeout = "nowait" => Total(obj.writers) + obj.bytes_used >= min_xfer
        /\ th' = [u \in Threads |->
                     IF u = t
                     THEN Caller("read", [left |-> n - moved, lacking |-> Max({0, min_xfer - moved})],
                                 n - moved, done)
                     ELSE IF u \in Range(obj.writers)
                     THEN Transferred(obj.writers, direct + stored, served, u)
                     ELSE th[u]]
        /\ wait_q' = IF done THEN wait_q ELSE InsertByPrio(wait_q, t)
        /\ obj' = [RingPut(RingGet(obj, buffered), buffer) EXCEPT !.writers = Dropped(@, served)]
        /\ held' = Dropped(held, buffered) \o buffer

\* k_pipe_flush reads all there is.
k_pipe_flush(t) ==
    /\ obj.bytes_used > 0 \/ obj.writers # <<>>
    /\ pipe_get_internal(t, obj.bytes_used + Total(obj.writers), 0, "nowait")

\* k_pipe_buffer_flush.  Without a buffer the lock would not be released.
k_pipe_buffer_flush(t) ==
    /\ obj.size > 0 /\ obj.bytes_used > 0
    /\ pipe_get_internal(t, obj.size, 0, "nowait")

\* k_pipe_cleanup frees the buffer of k_pipe_alloc_init if nobody waits.
k_pipe_cleanup(t) ==
    /\ Runs(t) /\ obj.size > 0
    /\ wait_q = <<>> /\ obj.writers = <<>>
    /\ obj' = [obj EXCEPT !.buffer = [i \in DOMAIN @ |-> NULL], !.size = 0, !.bytes_used = 0, !.read_index = 0, !.write_index = 0]
    /\ held' = <<>>
    /\ UNCHANGED <<th, wait_q>>

WriterTimeout(t) ==
    /\ Pends(t) /\ th[t].op = "write" /\ th[t].armed
    /\ th' = [th EXCEPT ![t].st = "woken", ![t].armed = FALSE]
    /\ obj' = [obj EXCEPT !.writers = Without(@, t)]
    /\ UNCHANGED <<wait_q, held>>

PipeReturn(t) ==
    /\ Woken(t)
    /\ th' = [th EXCEPT ![t] = Running]
    /\ UNCHANGED <<wait_q, obj, held>>

\* k_pipe_alloc_init
PipeInit ==
    /\ WaitInit
    /\ obj = [buffer |-> [i \in 0..PipeSize - 1 |-> NULL], size |-> PipeSize, bytes_used |-> 0,
              read_index |-> 0, write_index |-> 0, writers |-> <<>>]
    /\ held = <<>>

PipeNext ==
    \E t \in Threads :
        \/ k_pipe_flush(t) \/ k_pipe_buffer_flush(t) \/ k_pipe_cleanup(t)
        \/ PipeReturn(t) \/ WriterTimeout(t)
        \/ th[t].op = "read" /\ Timeout(t)
        \/ \E n \in 1..MaxXfer, timeout \in {"nowait", "wait"} :
              \E min_xfer \in 0..n :
                 \/ pipe_get_internal(t, n, min_xfer, timeout)
                 \/ k_pipe_put(t, [i \in 1..n |-> i], min_xfer, timeout)

-----------------------------------------------------------------------------
(* Properties. *)

\* The ring holds the bytes stored and not read, in that order.
PipeContents ==
    held = [i \in 1..obj.bytes_used |-> obj.buffer[(obj.read_index + i - 1) % obj.size]]

\* A reader waits only beside an empty buffer and a writer only beside a full one,
\* never both, and each still has something to move.
PipeNobodyStranded ==
    /\ wait_q # <<>> => obj.bytes_used = 0 /\ obj.writers = <<>>
    /\ obj.writers # <<>> => obj.bytes_used = obj.size
    /\ \A t \in Waiters \union Range(obj.writers) : Rest(t) > 0

\* A call that returns with less than min_xfer bytes moved has timed out; it has
\* neither been woken for having moved all nor been told not to wait.
PipeResults ==
    \A t \in Threads : Woken(t) =>
        /\ th[t].ret # "EAGAIN" => th[t].data.lacking = 0
        /\ th[t].ret = "served" => Rest(t) = 0
=============================================================================
