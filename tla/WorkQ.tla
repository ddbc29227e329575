------------------------------- MODULE WorkQ -------------------------------
(***************************************************************************)
(* Work queues, kernel/work.c: work items, delayable work items, the       *)
(* threads that run them, and the flush, cancel and drain calls that wait  *)
(* for them.                                                               *)
(*                                                                         *)
(* One spinlock protects all of it, so a call is one step up to the point  *)
(* where it blocks.  A handler runs outside the lock: taking an item off   *)
(* the queue and finishing it are two steps, and anything may happen in    *)
(* between.  A delayable item's timeout leaves the timeout queue in one    *)
(* step and its callback takes the lock in another, because timeout.c      *)
(* drops its own lock before the call.                                     *)
(*                                                                         *)
(* A thread uses one k_work_sync object per call and keeps it; the flusher *)
(* item in that object is denoted by the thread itself.  Draining before   *)
(* k_work_queue_start() would use uninitialised wait queues and is left    *)
(* out, as is k_work_init() on an item in use.                             *)
(***************************************************************************)
EXTENDS Integers, Sequences, SequencesExt, FiniteSets

CONSTANTS Works,       \* struct k_work
          Delayables,  \* those that are the work of a struct k_work_delayable
          Queues,      \* struct k_work_q, each with its thread
          Threads,     \* threads that flush, cancel and drain
          CPUs,        \* bound: callbacks of one timeout that can be under way
          NULL

ASSUME WorkQAssumption ==
    /\ Delayables \subseteq Works
    /\ Works \intersect Threads = {}
    /\ NULL \notin Works \union Queues \union Threads
    /\ CPUs \in Nat \ {0}

VARIABLES
    flags,      \* work->flags & K_WORK_MASK
    wqueue,     \* work->queue
    dqueue,     \* dwork->queue
    linked,     \* delayables whose timeout is in the timeout queue
    firing,     \* callbacks work_timeout() called and not yet in the lock
    pending,    \* queue->pending
    qflags,     \* queue->flags
    wpc,        \* queue thread: "off", "idle" in notifyq, "loop", "run", "finish"
    item,       \* the item a queue thread is running
    tpc,        \* thread: "ready", or in "flush", "cancel" or "drain"
    target,     \* the work or the queue that call is about
    woken,      \* threads whose semaphore was given, or that were woken in drainq
    owed,       \* history: the instances it has to wait for
    asserted    \* an __ASSERT has failed

vars == <<flags, wqueue, dqueue, linked, firing, pending, qflags, wpc, item,
          tpc, target, woken, owed, asserted>>

workVars   == <<flags, wqueue>>
delayVars  == <<dqueue, linked, firing, asserted>>
queueVars  == <<pending, qflags, wpc, item>>
threadVars == <<tpc, target, woken, owed>>

\* Variant of pending_cancels: only one canceller is found.
pending_cancels_one(w) ==
    LET all == {t \in Threads : tpc[t] = "cancel" /\ target[t] = w /\ t \notin woken}
    IN  IF all = {} THEN {} ELSE {CHOOSE t \in all : TRUE}

\* pending_cancels: the cancellers not yet released.
pending_cancels(w) == {t \in Threads : tpc[t] = "cancel" /\ target[t] = w /\ t \notin woken}

drainq(q) == {t \in Threads : tpc[t] = "drain" /\ target[t] = q /\ t \notin woken}

\* Where a call comes from: the handler a queue thread is running, or any
\* other context (NULL).
Caller(a) == a # NULL => wpc[a] = "run" /\ item[a] \in Works

\* With one CPU nothing runs between the timeout queue and the callback.
NoCallback == CPUs > 1 \/ \A w \in Delayables : firing[w] = 0

-----------------------------------------------------------------------------
(* The operations that run with the lock held.  Each gives the values of   *)
(* the variables it writes.                                                *)

\* Variant of notify_queue_locked: nobody is woken.
notify_queue_locked_none(q) == wpc

\* notify_queue_locked: a queue thread in notifyq is made ready.
notify_queue_locked(q) == [wpc EXCEPT ![q] = IF @ = "idle" THEN "loop" ELSE @]

\* Variant of Accepts: a plugged queue takes work.
Accepts_plugged(a, q) ==
    q # NULL /\ "STARTED" \in qflags[q] /\ ("DRAIN" \in qflags[q] => a = q)

\* queue_submit_locked accepts work from a.
Accepts(a, q) ==
    /\ q # NULL
    /\ "STARTED" \in qflags[q]
    /\ "DRAIN" \in qflags[q] => a = q
    /\ "PLUGGED" \in qflags[q] => "DRAIN" \in qflags[q]

\* Variant of SubmitTo: a running item may go to another queue.
SubmitTo_anywhere(q, w) == IF q = NULL THEN wqueue[w] ELSE q

\* The queue submit_to_queue_locked settles on.
SubmitTo(q, w) ==
    IF "RUNNING" \in flags[w] \/ q = NULL THEN wqueue[w] ELSE q

\* Variant of CanSubmit: a queued item is queued again.
CanSubmit_twice(a, q, w, f) == "CANCELING" \notin f /\ Accepts(a, SubmitTo(q, w))

\* Variant of CanSubmit: a cancellation does not stop a submission.
CanSubmit_canceling(a, q, w, f) == "QUEUED" \notin f /\ Accepts(a, SubmitTo(q, w))

\* submit_to_queue_locked, on flags f of the item.
CanSubmit(a, q, w, f) ==
    /\ "CANCELING" \notin f
    /\ "QUEUED" \notin f
    /\ Accepts(a, SubmitTo(q, w))

submit_to_queue_locked(a, q, w, f) ==
    LET to == SubmitTo(q, w)
    IN  IF CanSubmit(a, q, w, f)
        THEN /\ flags' = [flags EXCEPT ![w] = f \union {"QUEUED"}]
             /\ wqueue' = [wqueue EXCEPT ![w] = to]
             /\ pending' = [pending EXCEPT ![to] = Append(@, w)]
             /\ wpc' = notify_queue_locked(to)
        ELSE /\ flags' = [flags EXCEPT ![w] = f]
             /\ UNCHANGED <<wqueue, pending, wpc>>

\* queue_remove_locked, when the item is on the queue.
Without(s, w) == RemoveAt(s, CHOOSE i \in 1..Len(s) : s[i] = w)

\* Variant of CancelFlags: the bit of a queue flag is set.
CancelFlags_wrong_bit(f) ==
    IF f \ {"QUEUED"} = {} THEN {} ELSE (f \ {"QUEUED"}) \union {"DRAIN"}

\* The flags cancel_async_locked leaves, starting from f.
CancelFlags(f) ==
    LET g == IF "CANCELING" \in f THEN f ELSE f \ {"QUEUED"}
    IN  IF g = {} THEN {} ELSE g \union {"CANCELING"}

\* An instance that is taken off the queue will not be waited for.
Forget(inst) == [t \in Threads |-> owed[t] \ {inst}]

cancel_async_locked(w, f) ==
    /\ flags' = [flags EXCEPT ![w] = CancelFlags(f)]
    /\ IF "QUEUED" \in f /\ "CANCELING" \notin f
       THEN pending' = [pending EXCEPT ![wqueue[w]] = Without(@, w)]
       ELSE UNCHANGED pending

\* Variant of WithFlusher: in front of the work item.
WithFlusher_before(s, w, t) ==
    IF w \in Range(s)
    THEN InsertAt(s, CHOOSE i \in 1..Len(s) : s[i] = w, t)
    ELSE <<t>> \o s

\* Variant of WithFlusher: nothing is queued for a running item.
WithFlusher_queued_only(s, w, t) ==
    IF w \in Range(s)
    THEN InsertAt(s, (CHOOSE i \in 1..Len(s) : s[i] = w) + 1, t)
    ELSE s

\* The flusher item goes behind the work item, or first if that is running.
WithFlusher(s, w, t) ==
    IF w \in Range(s)
    THEN InsertAt(s, (CHOOSE i \in 1..Len(s) : s[i] = w) + 1, t)
    ELSE <<t>> \o s

\* What is to be waited for: the queued and the running instance of w.
Instances(w, f) ==
    {<<w, s>> : s \in {r \in {"QUEUED", "RUNNING"} : r \in f}}

\* A thread blocks in a call, or returns at once.
Block(t, call, x, insts) ==
    /\ tpc' = [tpc EXCEPT ![t] = call]
    /\ target' = [target EXCEPT ![t] = x]
    /\ woken' = woken \ {t}
    /\ owed' = [owed EXCEPT ![t] = insts]

Return(t) ==
    /\ tpc[t] # "ready" /\ t \in woken /\ NoCallback
    /\ tpc' = [tpc EXCEPT ![t] = "ready"]
    /\ target' = [target EXCEPT ![t] = NULL]
    /\ woken' = woken \ {t}
    /\ UNCHANGED <<owed, workVars, delayVars, queueVars>>

-----------------------------------------------------------------------------
(* Submit, cancel and flush. *)

k_work_submit_to_queue(a, q, w) ==
    /\ Caller(a) /\ NoCallback
    /\ submit_to_queue_locked(a, q, w, flags[w])
    /\ UNCHANGED <<delayVars, qflags, item, threadVars>>

k_work_cancel(a, w) ==
    /\ Caller(a) /\ NoCallback
    /\ w \notin Delayables
    /\ cancel_async_locked(w, flags[w])
    /\ owed' = IF "CANCELING" \in flags[w] THEN owed ELSE Forget(<<w, "QUEUED">>)
    /\ UNCHANGED <<wqueue, delayVars, qflags, wpc, item, tpc, target, woken>>

\* cancel_sync on an item with flags f, once its timeout is out of the way.
CancelSync(t, w, f) ==
    /\ tpc[t] = "ready" /\ NoCallback
    /\ flags[w] # {}
    /\ cancel_async_locked(w, f)
    /\ LET rest == IF "CANCELING" \in f THEN owed ELSE Forget(<<w, "QUEUED">>)
       IN  IF "CANCELING" \in CancelFlags(f)
           THEN /\ tpc' = [tpc EXCEPT ![t] = "cancel"]
                /\ target' = [target EXCEPT ![t] = w]
                /\ woken' = woken \ {t}
                /\ owed' = [rest EXCEPT ![t] = {<<w, "RUNNING">>}]
           ELSE owed' = rest /\ UNCHANGED <<tpc, target, woken>>
    /\ UNCHANGED <<wqueue, qflags, wpc, item>>

k_work_cancel_sync(t, w) ==
    /\ w \notin Delayables
    /\ CancelSync(t, w, flags[w])
    /\ UNCHANGED delayVars

k_work_flush(t, w) ==
    /\ tpc[t] = "ready" /\ NoCallback
    /\ w \notin Delayables
    /\ flags[w] \intersect {"QUEUED", "RUNNING"} # {}
    /\ pending' = [pending EXCEPT ![wqueue[w]] = WithFlusher(@, w, t)]
    /\ wpc' = notify_queue_locked(wqueue[w])
    /\ Block(t, "flush", w, Instances(w, flags[w]))
    /\ UNCHANGED <<workVars, delayVars, qflags, item>>

-----------------------------------------------------------------------------
(* The queue thread, work_queue_main. *)

\* Take the first item.
TakeItem(q) ==
    /\ wpc[q] = "loop" /\ NoCallback
    /\ pending[q] # <<>>
    /\ LET w == Head(pending[q])
       IN  /\ item' = [item EXCEPT ![q] = w]
           /\ flags' = IF w \in Works
                       THEN [flags EXCEPT ![w] = (@ \ {"QUEUED"}) \union {"RUNNING"}]
                       ELSE flags
           /\ owed' = [t \in Threads |->
                          IF <<w, "QUEUED">> \in owed[t]
                          THEN (owed[t] \ {<<w, "QUEUED">>}) \union {<<w, "RUNNING">>}
                          ELSE owed[t]]
    /\ pending' = [pending EXCEPT ![q] = Tail(@)]
    /\ qflags' = [qflags EXCEPT ![q] = @ \union {"BUSY"}]
    /\ wpc' = [wpc EXCEPT ![q] = "run"]
    /\ UNCHANGED <<wqueue, delayVars, tpc, target, woken>>

\* Nothing to do: end a drain, and wait in notifyq.
WaitForWork(q) ==
    /\ wpc[q] = "loop" /\ NoCallback
    /\ pending[q] = <<>>
    /\ qflags' = [qflags EXCEPT ![q] = @ \ {"DRAIN"}]
    /\ woken' = IF "DRAIN" \in qflags[q] THEN woken \union drainq(q) ELSE woken
    /\ wpc' = [wpc EXCEPT ![q] = "idle"]
    /\ UNCHANGED <<workVars, delayVars, pending, item, tpc, target, owed>>

\* handle_flush, the handler of a flusher: give its semaphore.
handle_flush(q) ==
    /\ wpc[q] = "run" /\ NoCallback
    /\ item[q] \in Threads
    /\ woken' = woken \union {item[q]}
    /\ wpc' = [wpc EXCEPT ![q] = "finish"]
    /\ UNCHANGED <<workVars, delayVars, pending, qflags, item, tpc, target, owed>>

\* The handler has returned: the item is no longer running, a cancellation
\* issued meanwhile is complete (finalize_cancel_locked).
FinishItem(q) ==
    /\ NoCallback
    /\ \/ wpc[q] = "run" /\ item[q] \in Works
       \/ wpc[q] = "finish"
    /\ LET w == item[q]
       IN  IF w \in Works
           THEN /\ flags' = [flags EXCEPT ![w] = @ \ {"RUNNING", "CANCELING"}]
                /\ woken' = IF "CANCELING" \in flags[w] THEN woken \union pending_cancels(w)
                            ELSE woken
                /\ owed' = Forget(<<w, "RUNNING">>)
           ELSE UNCHANGED <<flags, woken, owed>>
    /\ item' = [item EXCEPT ![q] = NULL]
    /\ qflags' = [qflags EXCEPT ![q] = @ \ {"BUSY"}]
    /\ wpc' = [wpc EXCEPT ![q] = "loop"]
    /\ UNCHANGED <<wqueue, delayVars, pending, tpc, target>>

-----------------------------------------------------------------------------
(* Starting, draining and unplugging a queue. *)

k_work_queue_start(q) ==
    /\ "STARTED" \notin qflags[q] /\ NoCallback
    /\ qflags' = [qflags EXCEPT ![q] = {"STARTED"}]
    /\ pending' = [pending EXCEPT ![q] = <<>>]
    /\ wpc' = [wpc EXCEPT ![q] = "loop"]
    /\ UNCHANGED <<workVars, delayVars, item, threadVars>>

k_work_queue_drain(t, q, plug) ==
    /\ tpc[t] = "ready" /\ NoCallback
    /\ "STARTED" \in qflags[q]
    /\ plug \/ qflags[q] \intersect {"BUSY", "DRAIN"} # {} \/ pending[q] # <<>>
    /\ qflags' = [qflags EXCEPT ![q] =
                    @ \union {"DRAIN"} \union (IF plug THEN {"PLUGGED"} ELSE {})]
    /\ wpc' = notify_queue_locked(q)
    /\ Block(t, "drain", q,
             UNION {Instances(w, flags[w]) : w \in {v \in Works : wqueue[v] = q}})
    /\ UNCHANGED <<workVars, delayVars, pending, item>>

k_work_queue_unplug(q) ==
    /\ "PLUGGED" \in qflags[q] /\ NoCallback
    /\ qflags' = [qflags EXCEPT ![q] = @ \ {"PLUGGED"}]
    /\ UNCHANGED <<workVars, delayVars, pending, wpc, item, threadVars>>

-----------------------------------------------------------------------------
(* Delayable work. *)

\* Variant of UnscheduleFlags: the flag stays.
UnscheduleFlags_kept(w) == flags[w]

\* Variant of UnscheduleLinked: the timeout is not aborted.
UnscheduleLinked_kept(w) == linked

\* unschedule_locked: the flags and the linked timeouts it leaves.
UnscheduleFlags(w) == flags[w] \ {"DELAYED"}
UnscheduleLinked(w) == IF "DELAYED" \in flags[w] THEN linked \ {w} ELSE linked

\* schedule_for_queue_locked with a delay, after flags f and timeouts l.
\* z_add_timeout() asserts that the timeout is not linked.
ScheduleDelayed(q, w, f, l) ==
    /\ flags' = [flags EXCEPT ![w] = f \union {"DELAYED"}]
    /\ dqueue' = [dqueue EXCEPT ![w] = q]
    /\ linked' = l \union {w}
    /\ asserted' = (asserted \/ w \in l)
    /\ UNCHANGED <<wqueue, firing, queueVars>>

ScheduleNow(a, q, w, f, l) ==
    /\ submit_to_queue_locked(a, q, w, f)
    /\ linked' = l
    /\ UNCHANGED <<dqueue, firing, asserted, qflags, item>>

k_work_schedule_for_queue(a, q, w, nowait) ==
    /\ Caller(a) /\ NoCallback
    /\ flags[w] \subseteq {"RUNNING"}
    /\ IF nowait THEN ScheduleNow(a, q, w, flags[w], linked)
                 ELSE ScheduleDelayed(q, w, flags[w], linked)
    /\ UNCHANGED threadVars

k_work_reschedule_for_queue(a, q, w, nowait) ==
    /\ Caller(a) /\ NoCallback
    /\ IF nowait
       THEN ScheduleNow(a, q, w, UnscheduleFlags(w), UnscheduleLinked(w))
       ELSE ScheduleDelayed(q, w, UnscheduleFlags(w), UnscheduleLinked(w))
    /\ UNCHANGED threadVars

\* sys_clock_announce() takes the timeout out and calls work_timeout().
Expire(w) ==
    /\ w \in linked
    /\ firing[w] < CPUs /\ NoCallback
    /\ linked' = linked \ {w}
    /\ firing' = [firing EXCEPT ![w] = @ + 1]
    /\ UNCHANGED <<workVars, dqueue, asserted, queueVars, threadVars>>

work_timeout(w) ==
    /\ firing[w] > 0
    /\ firing' = [firing EXCEPT ![w] = @ - 1]
    /\ IF "DELAYED" \in flags[w]
       THEN submit_to_queue_locked(NULL, dqueue[w], w, flags[w] \ {"DELAYED"})
       ELSE UNCHANGED <<workVars, pending, wpc>>
    /\ UNCHANGED <<dqueue, linked, asserted, qflags, item, threadVars>>

k_work_cancel_delayable(a, w) ==
    /\ Caller(a) /\ NoCallback
    /\ cancel_async_locked(w, UnscheduleFlags(w))
    /\ linked' = UnscheduleLinked(w)
    /\ owed' = IF "CANCELING" \in flags[w] THEN owed ELSE Forget(<<w, "QUEUED">>)
    /\ UNCHANGED <<wqueue, dqueue, firing, asserted, qflags, wpc, item,
                   tpc, target, woken>>

k_work_cancel_delayable_sync(t, w) ==
    /\ CancelSync(t, w, UnscheduleFlags(w))
    /\ linked' = UnscheduleLinked(w)
    /\ UNCHANGED <<dqueue, firing, asserted>>

\* Submit what was scheduled, at once, then flush.
k_work_flush_delayable(t, w) ==
    LET f     == UnscheduleFlags(w)
        again == "DELAYED" \in flags[w] /\ CanSubmit(NULL, dqueue[w], w, f)
        g     == IF again THEN f \union {"QUEUED"} ELSE f
        q     == IF again THEN SubmitTo(dqueue[w], w) ELSE wqueue[w]
        wait  == g \intersect {"QUEUED", "RUNNING"} # {}
        s     == IF again THEN Append(pending[q], w) ELSE pending[q]
    IN  /\ tpc[t] = "ready" /\ NoCallback
        /\ flags[w] # {}
        /\ flags' = [flags EXCEPT ![w] = g]
        /\ linked' = UnscheduleLinked(w)
        /\ IF wait
           THEN /\ wqueue' = [wqueue EXCEPT ![w] = q]
                /\ pending' = [pending EXCEPT ![q] = WithFlusher(s, w, t)]
                /\ wpc' = notify_queue_locked(q)
                /\ Block(t, "flush", w, Instances(w, g))
           ELSE UNCHANGED <<wqueue, pending, wpc, threadVars>>
        /\ UNCHANGED <<dqueue, firing, asserted, qflags, item>>

-----------------------------------------------------------------------------
Init ==
    /\ flags = [w \in Works |-> {}]
    /\ wqueue = [w \in Works |-> NULL]
    /\ dqueue = [w \in Delayables |-> NULL]
    /\ linked = {}
    /\ firing = [w \in Delayables |-> 0]
    /\ pending = [q \in Queues |-> <<>>]
    /\ qflags = [q \in Queues |-> {}]
    /\ wpc = [q \in Queues |-> "off"]
    /\ item = [q \in Queues |-> NULL]
    /\ tpc = [t \in Threads |-> "ready"]
    /\ target = [t \in Threads |-> NULL]
    /\ woken = {}
    /\ owed = [t \in Threads |-> {}]
    /\ asserted = FALSE

\* The queue thread of q.
Worker(q) == TakeItem(q) \/ WaitForWork(q) \/ handle_flush(q) \/ FinishItem(q)

\* The calls that do not wait.
AsyncCall(a) ==
    \/ \E w \in Works :
          \/ \E q \in Queues \union {NULL} : k_work_submit_to_queue(a, q, w)
          \/ k_work_cancel(a, w)
    \/ \E w \in Delayables :
          \/ \E q \in Queues \union {NULL}, nowait \in BOOLEAN :
                \/ k_work_schedule_for_queue(a, q, w, nowait)
                \/ k_work_reschedule_for_queue(a, q, w, nowait)
          \/ k_work_cancel_delayable(a, w)

\* The calls of thread t that wait.
SyncCall(t) ==
    \/ \E w \in Works : k_work_cancel_sync(t, w) \/ k_work_flush(t, w)
    \/ \E w \in Delayables :
          k_work_cancel_delayable_sync(t, w) \/ k_work_flush_delayable(t, w)
    \/ \E q \in Queues, plug \in BOOLEAN : k_work_queue_drain(t, q, plug)

\* A failed __ASSERT stops the system.
Next ==
    /\ ~asserted
    /\ \/ \E q \in Queues : Worker(q) \/ k_work_queue_start(q) \/ k_work_queue_unplug(q)
       \/ \E a \in Queues \union {NULL} : AsyncCall(a)
       \/ \E t \in Threads : SyncCall(t) \/ Return(t)
       \/ \E w \in Delayables : Expire(w) \/ work_timeout(w)

Spec == Init /\ [][Next]_vars

\* The queue threads run, their handlers return, a thread that was woken runs,
\* and a started callback gets the lock.  Fairness is strong because a timer
\* interrupt may come between any two of their steps, though not forever.
FairSpec ==
    /\ Spec
    /\ \A q \in Queues : SF_vars(Worker(q))
    /\ \A t \in Threads : SF_vars(Return(t))
    /\ \A w \in Delayables : WF_vars(work_timeout(w))

-----------------------------------------------------------------------------
(* Properties. *)

WorkFlags == {"RUNNING", "CANCELING", "QUEUED", "DELAYED"}
QueueFlags == {"STARTED", "BUSY", "DRAIN", "PLUGGED"}

\* The variables have their types.
TypeOK ==
    /\ flags \in [Works -> SUBSET WorkFlags]
    /\ wqueue \in [Works -> Queues \union {NULL}]
    /\ dqueue \in [Delayables -> Queues \union {NULL}]
    /\ linked \subseteq Delayables
    /\ firing \in [Delayables -> 0..CPUs]
    /\ pending \in [Queues -> Seq(Works \union Threads)]
    /\ qflags \in [Queues -> SUBSET QueueFlags]
    /\ wpc \in [Queues -> {"off", "idle", "loop", "run", "finish"}]
    /\ item \in [Queues -> Works \union Threads \union {NULL}]
    /\ tpc \in [Threads -> {"ready", "flush", "cancel", "drain"}]
    /\ target \in [Threads -> Works \union Queues \union {NULL}]
    /\ woken \subseteq Threads
    /\ owed \in [Threads -> SUBSET (Works \X {"QUEUED", "RUNNING"})]
    /\ asserted \in BOOLEAN

\* The QUEUED flag tells the truth: a flagged item is once in the list of the
\* queue its queue pointer names, an item without the flag is in no list.
QueuedOnce ==
    \A q \in Queues :
        /\ IsInjective(pending[q])
        /\ \A w \in Works : w \in Range(pending[q]) <=>
                              "QUEUED" \in flags[w] /\ wqueue[w] = q

\* No handler is re-entered: an item runs on the queue its queue pointer names
\* and on no other, even when it was submitted elsewhere while it ran.
NotReentered ==
    \A w \in Works :
        /\ "RUNNING" \in flags[w] <=> \E q \in Queues : item[q] = w
        /\ \A q \in Queues : item[q] = w => wqueue[w] = q

\* A queue thread that sleeps in notifyq has nothing to do.
NoLostWakeup ==
    \A q \in Queues : wpc[q] = "idle" => pending[q] = <<>> /\ "DRAIN" \notin qflags[q]

\* Who waits will be released: a canceller's item is being cancelled and is
\* still running, a flusher is in a list or runs, a drain is under way.
WaitersCovered ==
    /\ \A w \in Works :
          /\ "CANCELING" \in flags[w] => "RUNNING" \in flags[w]
          /\ pending_cancels(w) # {} => "CANCELING" \in flags[w]
    /\ \A t \in Threads : tpc[t] = "flush" /\ t \notin woken =>
          \E q \in Queues : t \in Range(pending[q]) \/ (item[q] = t /\ wpc[q] = "run")
    /\ \A q \in Queues : drainq(q) # {} => "DRAIN" \in qflags[q]

\* flush, cancel_sync and drain return only after each instance that was
\* queued or running when they were called has finished or was cancelled.
WaitsForInstances == \A t \in woken : owed[t] = {}

\* When a cancellation is complete the item is idle, but for a timeout that
\* was scheduled while it was in progress.
CancelLeavesIdle ==
    [][\A t \in Threads : tpc[t] = "cancel" /\ t \notin woken /\ t \in woken'
                            => flags'[target[t]] \subseteq {"DELAYED"}]_vars

\* A queue that was drained with plug stays empty and idle until unplugged.
PluggedIsQuiet ==
    \A q \in Queues : "PLUGGED" \in qflags[q] /\ "DRAIN" \notin qflags[q]
                         => pending[q] = <<>> /\ item[q] = NULL

\* The DELAYED flag is set exactly while the timeout is armed or its callback
\* is on its way, and so no timeout is added twice.
DelayedIffArmed ==
    /\ \A w \in Delayables :
          "DELAYED" \in flags[w] <=> w \in linked \/ firing[w] > 0
    /\ ~asserted

\* A delayed item has a timeout that will submit it.
DelayedIsArmed ==
    \A w \in Delayables : "DELAYED" \in flags[w] => w \in linked \/ firing[w] > 0

\* z_add_timeout() is called on no timeout that is in the timeout queue.
NoDoubleAdd == ~asserted

\* A handler queues more work on a queue that is being drained.
ChainedSubmission ==
    \E w \in Works : /\ "QUEUED" \in flags'[w] /\ "QUEUED" \notin flags[w]
                     /\ "DRAIN" \in qflags[wqueue'[w]]

\* A drain returns, unless handlers keep queueing more work for ever.
DrainReturns ==
    \/ []<><<ChainedSubmission>>_vars
    \/ \A t \in Threads : tpc[t] = "drain" ~> tpc[t] = "ready"

\* flush and cancel_sync return.
SyncCallsReturn ==
    \A t \in Threads : tpc[t] \in {"flush", "cancel"} ~> tpc[t] = "ready"
=============================================================================
