----------------------------- MODULE WorkQProof -----------------------------
(***************************************************************************)
(* Theorems about WorkQ: what work.c promises about items, queues and      *)
(* waiting threads, for any number of them and of CPUs.                    *)
(***************************************************************************)
EXTENDS WorkQ, SeqLemmas

\* TypeOK, without the state of the timeouts.
CoreType ==
    /\ flags \in [Works -> SUBSET WorkFlags]
    /\ wqueue \in [Works -> Queues \union {NULL}]
    /\ pending \in [Queues -> Seq(Works \union Threads)]
    /\ qflags \in [Queues -> SUBSET QueueFlags]
    /\ wpc \in [Queues -> {"off", "idle", "loop", "run", "finish"}]
    /\ item \in [Queues -> Works \union Threads \union {NULL}]
    /\ tpc \in [Threads -> {"ready", "flush", "cancel", "drain"}]
    /\ target \in [Threads -> Works \union Queues \union {NULL}]
    /\ woken \subseteq Threads
    /\ owed \in [Threads -> SUBSET (Works \X {"QUEUED", "RUNNING"})]

\* What the flags of an item say about each other and about its queue pointer.
FlagsInv ==
    \A w \in Works :
        /\ "QUEUED" \in flags[w] => wqueue[w] \in Queues
        /\ "DELAYED" \in flags[w] => w \in Delayables
        /\ "CANCELING" \in flags[w] => "RUNNING" \in flags[w] /\ "QUEUED" \notin flags[w]

\* A queue thread has an item while it runs one, and a queue that was not
\* started has nothing.
WorkerInv ==
    \A q \in Queues :
        /\ item[q] = NULL <=> wpc[q] \in {"off", "idle", "loop"}
        /\ wpc[q] = "finish" => item[q] \in Threads
        /\ "STARTED" \notin qflags[q] =>
              qflags[q] = {} /\ pending[q] = <<>> /\ wpc[q] = "off"

\* A flusher is in use in one place at most, and only while its thread waits
\* for it.  (Once it has given the semaphore the thread may use it again.)
FlusherInv ==
    \A q \in Queues, t \in Threads :
        /\ t \in Range(pending[q]) =>
              /\ tpc[t] = "flush" /\ t \notin woken
              /\ \A r \in Queues \ {q} : t \notin Range(pending[r])
        /\ item[q] = t /\ wpc[q] = "run" =>
              /\ tpc[t] = "flush" /\ t \notin woken
              /\ \A r \in Queues : t \notin Range(pending[r])
              /\ \A r \in Queues \ {q} : ~(item[r] = t /\ wpc[r] = "run")

\* A thread outside the calls has nothing to wait for.
ReadyInv == \A t \in Threads : tpc[t] = "ready" => t \notin woken /\ owed[t] = {}

\* What a thread waits for is still queued or running, and whoever will release
\* the thread comes later: a flusher is behind the item, a canceller waits for
\* its own item, a drain for items of its queue.
OwedInv ==
    /\ \A t \in Threads, w \in Works :
          /\ <<w, "QUEUED">> \in owed[t] => "QUEUED" \in flags[w]
          /\ <<w, "RUNNING">> \in owed[t] => "RUNNING" \in flags[w]
    /\ \A t \in Threads :
          tpc[t] = "cancel" => owed[t] \subseteq {<<target[t], "RUNNING">>}
    /\ \A t \in Threads, w \in Works :
          tpc[t] = "drain" /\ (<<w, "QUEUED">> \in owed[t] \/ <<w, "RUNNING">> \in owed[t])
             => wqueue[w] = target[t]
    /\ \A q \in Queues, t \in Threads : t \in Range(pending[q]) =>
          \A w \in Works : /\ <<w, "QUEUED">> \in owed[t] => Precedes(pending[q], w, t)
                           /\ <<w, "RUNNING">> \in owed[t] => item[q] = w
    /\ \A q \in Queues, t \in Threads : item[q] = t /\ wpc[q] = "run" => owed[t] = {}

Core ==
    /\ CoreType /\ FlagsInv /\ QueuedOnce /\ NotReentered /\ WorkerInv
    /\ NoLostWakeup /\ PluggedIsQuiet /\ WaitersCovered
    /\ FlusherInv /\ ReadyInv /\ OwedInv /\ WaitsForInstances

\* The state of the timeouts.
DelayType ==
    /\ dqueue \in [Delayables -> Queues \union {NULL}]
    /\ linked \subseteq Delayables
    /\ firing \in [Delayables -> 0..CPUs]
    /\ asserted \in BOOLEAN

Inv == Core /\ DelayType /\ DelayedIsArmed

-----------------------------------------------------------------------------
(* The lists of items. *)

\* Without takes an item out and leaves the order of the others.
LEMMA WithoutFacts ==
    ASSUME NEW s \in Seq(Works \union Threads), IsInjective(s), NEW w \in Range(s)
    PROVE  /\ Without(s, w) \in Seq(Works \union Threads)
           /\ IsInjective(Without(s, w))
           /\ Range(Without(s, w)) = Range(s) \ {w}
           /\ \A x, y : Precedes(s, x, y) /\ x # w /\ y # w => Precedes(Without(s, w), x, y)
<1> DEFINE i == CHOOSE j \in 1..Len(s) : s[j] = w
<1>1. \E j \in 1..Len(s) : s[j] = w
  BY RangeMembers
<1>2. i \in 1..Len(s) /\ s[i] = w
  BY <1>1
<1>3. Without(s, w) = RemoveAt(s, i)
  BY DEF Without
<1> HIDE DEF i
<1> QED
  BY <1>2, <1>3, RemoveAtElements, RemoveAtRange, RemoveAtPrecedes

\* WithFlusher adds the flusher behind its item and leaves the order of the
\* others.
LEMMA WithFlusherFacts ==
    ASSUME NEW s \in Seq(Works \union Threads), NEW w \in Works, NEW t \in Threads
    PROVE  /\ WithFlusher(s, w, t) \in Seq(Works \union Threads)
           /\ IsInjective(s) /\ t \notin Range(s) => IsInjective(WithFlusher(s, w, t))
           /\ Range(WithFlusher(s, w, t)) = Range(s) \union {t}
           /\ w \in Range(s) => Precedes(WithFlusher(s, w, t), w, t)
           /\ \A x, y : Precedes(s, x, y) => Precedes(WithFlusher(s, w, t), x, y)
<1>0. t \in Works \union Threads
  OBVIOUS
<1>1. CASE w \in Range(s)
  <2> DEFINE i == CHOOSE j \in 1..Len(s) : s[j] = w
  <2>1. \E j \in 1..Len(s) : s[j] = w
    BY <1>1, RangeMembers
  <2>2. i \in 1..Len(s) /\ s[i] = w
    BY <2>1
  <2>3. WithFlusher(s, w, t) = InsertAt(s, i + 1, t)
    BY <1>1 DEF WithFlusher
  <2> HIDE DEF i
  <2>4. Len(s) \in Nat /\ i + 1 \in 1..(Len(s) + 1) /\ i < i + 1
    BY <2>2, LenProperties
  <2> DEFINE k == i + 1
  <2>5. k \in 1..(Len(s) + 1) /\ i < k
    BY <2>4
  <2>6. /\ InsertAt(s, k, t) \in Seq(Works \union Threads)
        /\ Range(InsertAt(s, k, t)) = Range(s) \union {t}
        /\ IsInjective(s) /\ t \notin Range(s) => IsInjective(InsertAt(s, k, t))
    <3> HIDE DEF k
    <3>1. InsertAt(s, k, t) \in Seq(Works \union Threads)
      BY <1>0, <2>5, InsertAtElements
    <3> QED BY <1>0, <2>5, <3>1, InsertAtRange
  <2>7. /\ \A x, y : Precedes(s, x, y) => Precedes(InsertAt(s, k, t), x, y)
        /\ Precedes(InsertAt(s, k, t), w, t)
    <3> HIDE DEF k
    <3> QED BY <1>0, <2>2, <2>5, InsertAtPrecedes
  <2> QED BY <2>3, <2>6, <2>7
<1>2. CASE w \notin Range(s)
  <2>0. 1 \in 1..(Len(s) + 1)
    BY LenProperties
  <2>1. WithFlusher(s, w, t) = <<t>> \o s
    BY <1>2 DEF WithFlusher
  <2>2. InsertAt(s, 1, t) = <<t>> \o s
    <3>1. /\ InsertAt(s, 1, t) \in Seq(Works \union Threads)
          /\ Len(InsertAt(s, 1, t)) = Len(s) + 1 /\ Len(s) \in Nat
          /\ \A j \in 1..(Len(s) + 1) :
                InsertAt(s, 1, t)[j] = IF j < 1 THEN s[j] ELSE IF j = 1 THEN t ELSE s[j - 1]
      BY <1>0, <2>0, InsertAtElements, LenProperties
    <3>2. /\ <<t>> \o s \in Seq(Works \union Threads)
          /\ Len(<<t>> \o s) = Len(s) + 1
          /\ \A j \in 1..(Len(s) + 1) :
                (<<t>> \o s)[j] = IF j <= 1 THEN t ELSE s[j - 1]
      BY <3>1, ConcatProperties
    <3>3. \A j \in 1..(Len(s) + 1) : InsertAt(s, 1, t)[j] = (<<t>> \o s)[j]
      BY <3>1, <3>2
    <3> QED BY <3>1, <3>2, <3>3, SeqEqual
  <2> DEFINE k == 1
  <2>3. k \in 1..(Len(s) + 1)
    BY <2>0
  <2>4. /\ InsertAt(s, k, t) \in Seq(Works \union Threads)
        /\ Range(InsertAt(s, k, t)) = Range(s) \union {t}
        /\ IsInjective(s) /\ t \notin Range(s) => IsInjective(InsertAt(s, k, t))
        /\ \A x, y : Precedes(s, x, y) => Precedes(InsertAt(s, k, t), x, y)
    <3> HIDE DEF k
    <3>1. InsertAt(s, k, t) \in Seq(Works \union Threads)
      BY <1>0, <2>3, InsertAtElements
    <3>2. \A x, y : Precedes(s, x, y) => Precedes(InsertAt(s, k, t), x, y)
      BY <1>0, <2>3, InsertAtPrecedes
    <3>3. /\ Range(InsertAt(s, k, t)) = Range(s) \union {t}
          /\ IsInjective(s) /\ t \notin Range(s) => IsInjective(InsertAt(s, k, t))
      BY <1>0, <2>3, InsertAtRange
    <3> QED BY <3>1, <3>2, <3>3
  <2> QED BY <1>2, <2>1, <2>2, <2>4
<1> QED BY <1>1, <1>2

-----------------------------------------------------------------------------
(* The inductive step: one lemma for each group of calls. *)

\* Only the DELAYED flag of an item changes.
LEMMA FlagsCore ==
    ASSUME Core, NEW w \in Works, NEW f \in SUBSET WorkFlags,
           f \ {"DELAYED"} = flags[w] \ {"DELAYED"},
           "DELAYED" \in f => w \in Delayables,
           flags' = [flags EXCEPT ![w] = f],
           UNCHANGED <<wqueue, queueVars, threadVars>>
    PROVE  Core'
<1>1. /\ \A v \in Works \ {w} : flags'[v] = flags[v]
      /\ flags'[w] = f
      /\ \A v \in Works, x \in {"QUEUED", "RUNNING", "CANCELING"} :
            x \in flags'[v] <=> x \in flags[v]
  BY DEF Core, CoreType
<1>2. /\ UNCHANGED <<wqueue, pending, qflags, wpc, item, tpc, target, woken, owed>>
      /\ \A v : UNCHANGED <<pending_cancels(v), drainq(v)>>
  BY DEF queueVars, threadVars, pending_cancels, drainq
<1>3. CoreType' /\ FlagsInv'
  BY <1>1, <1>2 DEF Core, CoreType, FlagsInv
<1>4. QueuedOnce' /\ NotReentered'
  BY <1>1, <1>2 DEF Core, QueuedOnce, NotReentered
<1>5. (WorkerInv /\ NoLostWakeup /\ PluggedIsQuiet /\ FlusherInv /\ ReadyInv /\ WaitsForInstances)'
  BY <1>2 DEF Core, WorkerInv, NoLostWakeup, PluggedIsQuiet, FlusherInv, ReadyInv, WaitsForInstances
<1>6. WaitersCovered'
  BY <1>1, <1>2 DEF Core, WaitersCovered
<1>7. OwedInv'
  BY <1>1, <1>2 DEF Core, OwedInv
<1> QED BY <1>3, <1>4, <1>5, <1>6, <1>7 DEF Core

\* Nothing of the core changes.
LEMMA IdleCore ==
    ASSUME Core, UNCHANGED <<workVars, queueVars, threadVars>>
    PROVE  Core'
<1>1. /\ UNCHANGED <<flags, wqueue, pending, qflags, wpc, item, tpc, target, woken, owed>>
      /\ \A v : UNCHANGED <<pending_cancels(v), drainq(v)>>
  BY DEF workVars, queueVars, threadVars, pending_cancels, drainq
<1>2. (CoreType /\ FlagsInv /\ QueuedOnce /\ NotReentered /\ WorkerInv)'
  BY <1>1 DEF Core, CoreType, FlagsInv, QueuedOnce, NotReentered, WorkerInv
<1>3. (NoLostWakeup /\ PluggedIsQuiet /\ WaitersCovered /\ WaitsForInstances)'
  BY <1>1 DEF Core, NoLostWakeup, PluggedIsQuiet, WaitersCovered, WaitsForInstances
<1>4. (FlusherInv /\ ReadyInv /\ OwedInv)'
  BY <1>1 DEF Core, FlusherInv, ReadyInv, OwedInv
<1> QED BY <1>2, <1>3, <1>4 DEF Core

\* A thread returns from its call.
LEMMA ReturnCore ==
    ASSUME Core, NEW t \in Threads, Return(t)
    PROVE  Core'
<1>1. /\ UNCHANGED <<flags, wqueue, pending, qflags, wpc, item, owed>>
      /\ t \in woken /\ woken' = woken \ {t}
      /\ tpc' = [tpc EXCEPT ![t] = "ready"]
      /\ target' = [target EXCEPT ![t] = NULL]
  BY DEF Return, workVars, queueVars
<1>2. owed[t] = {}
  BY <1>1 DEF Core, WaitsForInstances
<1>3. /\ tpc'[t] = "ready"
      /\ \A u \in Threads \ {t} : tpc'[u] = tpc[u] /\ target'[u] = target[u]
                                    /\ (u \in woken' <=> u \in woken)
  BY <1>1 DEF Core, CoreType
<1>4. \A q \in Queues : /\ t \notin Range(pending[q])
                        /\ ~(item[q] = t /\ wpc[q] = "run")
  BY <1>1 DEF Core, FlusherInv
<1>5. /\ \A v : pending_cancels(v)' \subseteq pending_cancels(v)
      /\ \A v : drainq(v)' \subseteq drainq(v)
  BY <1>3 DEF pending_cancels, drainq
<1>6. CoreType' /\ FlagsInv' /\ QueuedOnce' /\ NotReentered' /\ WorkerInv'
  BY <1>1 DEF Core, CoreType, FlagsInv, QueuedOnce, NotReentered, WorkerInv
<1>7. NoLostWakeup' /\ PluggedIsQuiet' /\ WaitsForInstances'
  BY <1>1 DEF Core, NoLostWakeup, PluggedIsQuiet, WaitsForInstances
<1>8. WaitersCovered'
  BY <1>1, <1>3, <1>5 DEF Core, WaitersCovered
<1>9. FlusherInv' /\ ReadyInv'
  BY <1>1, <1>2, <1>3, <1>4 DEF Core, FlusherInv, ReadyInv
<1>10. OwedInv'
  BY <1>1, <1>2, <1>3 DEF Core, OwedInv
<1> QED BY <1>6, <1>7, <1>8, <1>9, <1>10 DEF Core

\* A queue is started.
LEMMA StartCore ==
    ASSUME Core, NEW q \in Queues, k_work_queue_start(q)
    PROVE  Core'
<1>1. /\ UNCHANGED <<flags, wqueue, pending, item, tpc, target, woken, owed>>
      /\ qflags[q] = {} /\ pending[q] = <<>> /\ item[q] = NULL
      /\ qflags' = [qflags EXCEPT ![q] = {"STARTED"}]
      /\ wpc' = [wpc EXCEPT ![q] = "loop"]
  BY DEF k_work_queue_start, workVars, threadVars, Core, CoreType, WorkerInv
<1>2. /\ qflags'[q] = {"STARTED"} /\ wpc'[q] = "loop"
      /\ \A r \in Queues \ {q} : qflags'[r] = qflags[r] /\ wpc'[r] = wpc[r]
  BY <1>1 DEF Core, CoreType
<1>3. \A v : UNCHANGED <<pending_cancels(v), drainq(v)>>
  BY <1>1 DEF pending_cancels, drainq
<1>4. CoreType'
  BY <1>1 DEF Core, CoreType, QueueFlags
<1>5. FlagsInv' /\ QueuedOnce' /\ NotReentered' /\ WorkerInv'
  BY <1>1, <1>2 DEF Core, FlagsInv, QueuedOnce, NotReentered, WorkerInv
<1>6. NoLostWakeup' /\ PluggedIsQuiet' /\ WaitsForInstances' /\ ReadyInv'
  BY <1>1, <1>2 DEF Core, NoLostWakeup, PluggedIsQuiet, WaitsForInstances, ReadyInv
<1>7. \A r \in Queues : wpc'[r] = "run" <=> wpc[r] = "run"
  BY <1>1, <1>2 DEF Core, WorkerInv
<1>8. WaitersCovered'
  <2>1. \A r \in Queues : "DRAIN" \in qflags[r] => "DRAIN" \in qflags'[r]
    BY <1>1, <1>2
  <2> QED BY <1>1, <1>3, <1>7, <2>1 DEF Core, WaitersCovered
<1>9. FlusherInv' /\ OwedInv'
  BY <1>1, <1>7 DEF Core, FlusherInv, OwedInv
<1> QED BY <1>4, <1>5, <1>6, <1>8, <1>9 DEF Core

\* A queue is unplugged.
LEMMA UnplugCore ==
    ASSUME Core, NEW q \in Queues, k_work_queue_unplug(q)
    PROVE  Core'
<1>1. /\ UNCHANGED <<flags, wqueue, pending, wpc, item, tpc, target, woken, owed>>
      /\ "PLUGGED" \in qflags[q]
      /\ qflags' = [qflags EXCEPT ![q] = @ \ {"PLUGGED"}]
  BY DEF k_work_queue_unplug, workVars, threadVars
<1>2. /\ qflags'[q] = qflags[q] \ {"PLUGGED"}
      /\ \A r \in Queues \ {q} : qflags'[r] = qflags[r]
  BY <1>1 DEF Core, CoreType
<1>3. \A v : UNCHANGED <<pending_cancels(v), drainq(v)>>
  BY <1>1 DEF pending_cancels, drainq
<1>4. CoreType' /\ FlagsInv' /\ QueuedOnce' /\ NotReentered'
  BY <1>1 DEF Core, CoreType, FlagsInv, QueuedOnce, NotReentered
<1>5. WorkerInv' /\ NoLostWakeup' /\ PluggedIsQuiet'
  BY <1>1, <1>2 DEF Core, WorkerInv, NoLostWakeup, PluggedIsQuiet
<1>6. WaitersCovered'
  BY <1>1, <1>2, <1>3 DEF Core, WaitersCovered
<1>7. WaitsForInstances' /\ FlusherInv' /\ ReadyInv' /\ OwedInv'
  BY <1>1 DEF Core, WaitsForInstances, FlusherInv, ReadyInv, OwedInv
<1> QED BY <1>4, <1>5, <1>6, <1>7 DEF Core

\* What a thread waits for is a queued or a running instance.
LEMMA OwedMember ==
    ASSUME CoreType, NEW t \in Threads, owed[t] # {}
    PROVE  \E w \in Works : <<w, "QUEUED">> \in owed[t] \/ <<w, "RUNNING">> \in owed[t]
<1>1. PICK x \in owed[t] : TRUE
  OBVIOUS
<1>2. owed[t] \subseteq Works \X {"QUEUED", "RUNNING"}
  BY DEF CoreType
<1>3. PICK w \in Works, s \in {"QUEUED", "RUNNING"} : x = <<w, s>>
  BY <1>1, <1>2
<1> QED BY <1>1, <1>3

\* A queue thread finds nothing to do, and ends a drain.
LEMMA WaitForWorkCore ==
    ASSUME Core, NEW q \in Queues, WaitForWork(q)
    PROVE  Core'
<1> USE WorkQAssumption
<1>1. /\ UNCHANGED <<flags, wqueue, pending, item, tpc, target, owed>>
      /\ wpc[q] = "loop" /\ pending[q] = <<>> /\ item[q] = NULL
      /\ qflags' = [qflags EXCEPT ![q] = @ \ {"DRAIN"}]
      /\ wpc' = [wpc EXCEPT ![q] = "idle"]
      /\ woken' = IF "DRAIN" \in qflags[q] THEN woken \union drainq(q) ELSE woken
  BY DEF WaitForWork, workVars, Core, WorkerInv
<1>2. /\ qflags'[q] = qflags[q] \ {"DRAIN"} /\ wpc'[q] = "idle"
      /\ \A r \in Queues \ {q} : qflags'[r] = qflags[r] /\ wpc'[r] = wpc[r]
      /\ \A r \in Queues : wpc'[r] = "run" <=> wpc[r] = "run"
  BY <1>1 DEF Core, CoreType
<1>3. /\ woken' \subseteq Threads /\ woken \subseteq woken'
      /\ \A t \in woken' \ woken : tpc[t] = "drain" /\ target[t] = q
      /\ \A t \in Threads : tpc[t] # "drain" => (t \in woken' <=> t \in woken)
  BY <1>1 DEF drainq, Core, CoreType
<1>4. drainq(q)' = {}
  <2>1. drainq(q) \subseteq woken'
    BY <1>1 DEF Core, WaitersCovered
  <2> QED BY <1>1, <1>3, <2>1 DEF drainq
<1>5. /\ \A v : drainq(v)' \subseteq drainq(v)
      /\ \A v : pending_cancels(v)' = pending_cancels(v)
  BY <1>1, <1>3 DEF drainq, pending_cancels
<1>6. Range(pending[q]) = {}
  BY <1>1 DEF Range
<1>7. \A w \in Works : wqueue[w] = q => "QUEUED" \notin flags[w] /\ "RUNNING" \notin flags[w]
  BY <1>1, <1>6 DEF Core, QueuedOnce, NotReentered
<1>8. \A t \in woken' \ woken : owed[t] = {}
  <2> SUFFICES ASSUME NEW t \in woken' \ woken, owed[t] # {} PROVE FALSE
    OBVIOUS
  <2>1. PICK w \in Works : <<w, "QUEUED">> \in owed[t] \/ <<w, "RUNNING">> \in owed[t]
    BY <1>3, OwedMember DEF Core
  <2>2. wqueue[w] = q
    BY <1>3, <2>1 DEF Core, OwedInv
  <2> QED BY <1>3, <1>7, <2>1, <2>2 DEF Core, OwedInv
<1>9. CoreType' /\ FlagsInv' /\ QueuedOnce' /\ NotReentered'
  BY <1>1, <1>3 DEF Core, CoreType, FlagsInv, QueuedOnce, NotReentered
<1>10. WorkerInv' /\ NoLostWakeup' /\ PluggedIsQuiet'
  BY <1>1, <1>2 DEF Core, WorkerInv, NoLostWakeup, PluggedIsQuiet
<1>11. WaitersCovered'
  BY <1>1, <1>2, <1>3, <1>4, <1>5 DEF Core, WaitersCovered
<1>12. WaitsForInstances'
  BY <1>1, <1>8 DEF Core, WaitsForInstances
<1>13. FlusherInv' /\ ReadyInv'
  BY <1>1, <1>2, <1>3 DEF Core, FlusherInv, ReadyInv
<1>14. OwedInv'
  BY <1>1, <1>2 DEF Core, OwedInv
<1> QED BY <1>9, <1>10, <1>11, <1>12, <1>13, <1>14 DEF Core

\* A flusher runs and releases its thread.
LEMMA HandleFlushCore ==
    ASSUME Core, NEW q \in Queues, handle_flush(q)
    PROVE  Core'
<1> USE WorkQAssumption
<1>1. PICK t \in Threads : item[q] = t
  BY DEF handle_flush
<1>2. /\ UNCHANGED <<flags, wqueue, pending, qflags, item, tpc, target, owed>>
      /\ wpc[q] = "run"
      /\ wpc' = [wpc EXCEPT ![q] = "finish"]
      /\ woken' = woken \union {t}
  BY <1>1 DEF handle_flush, workVars
<1>3. /\ tpc[t] = "flush" /\ owed[t] = {}
      /\ \A r \in Queues : t \notin Range(pending[r])
      /\ \A r \in Queues \ {q} : ~(item[r] = t /\ wpc[r] = "run")
  BY <1>1, <1>2 DEF Core, FlusherInv, OwedInv
<1>4. wpc'[q] = "finish" /\ \A r \in Queues \ {q} : wpc'[r] = wpc[r]
  BY <1>2 DEF Core, CoreType
<1>5. \A v : drainq(v)' = drainq(v) /\ pending_cancels(v)' = pending_cancels(v)
  BY <1>2, <1>3 DEF drainq, pending_cancels
<1>6. CoreType' /\ FlagsInv' /\ QueuedOnce' /\ NotReentered'
  BY <1>2 DEF Core, CoreType, FlagsInv, QueuedOnce, NotReentered
<1>7. WorkerInv' /\ NoLostWakeup' /\ PluggedIsQuiet'
  BY <1>1, <1>2, <1>4 DEF Core, WorkerInv, NoLostWakeup, PluggedIsQuiet
<1>8. WaitersCovered'
  BY <1>1, <1>2, <1>4, <1>5 DEF Core, WaitersCovered
<1>9. WaitsForInstances' /\ ReadyInv'
  BY <1>2, <1>3 DEF Core, WaitsForInstances, ReadyInv
<1>10. FlusherInv'
  BY <1>1, <1>2, <1>3, <1>4 DEF Core, FlusherInv
<1>11. OwedInv'
  BY <1>2, <1>4 DEF Core, OwedInv
<1> QED BY <1>6, <1>7, <1>8, <1>9, <1>10, <1>11 DEF Core

\* A thread starts to drain a queue.
LEMMA DrainCore ==
    ASSUME Core, NEW t \in Threads, NEW q \in Queues, NEW plug \in BOOLEAN,
           k_work_queue_drain(t, q, plug)
    PROVE  Core'
<1> USE WorkQAssumption
<1> DEFINE insts == UNION {Instances(w, flags[w]) : w \in {v \in Works : wqueue[v] = q}}
<1>1. /\ UNCHANGED <<flags, wqueue, pending, item>>
      /\ tpc[t] = "ready" /\ "STARTED" \in qflags[q]
      /\ qflags' = [qflags EXCEPT ![q] =
                       @ \union {"DRAIN"} \union (IF plug THEN {"PLUGGED"} ELSE {})]
      /\ wpc' = notify_queue_locked(q)
      /\ tpc' = [tpc EXCEPT ![t] = "drain"]
      /\ target' = [target EXCEPT ![t] = q]
      /\ woken' = woken \ {t}
      /\ owed' = [owed EXCEPT ![t] = insts]
  BY DEF k_work_queue_drain, workVars, Block
<1>2. /\ insts \in SUBSET (Works \X {"QUEUED", "RUNNING"})
      /\ \A w \in Works : /\ <<w, "QUEUED">> \in insts => "QUEUED" \in flags[w] /\ wqueue[w] = q
                          /\ <<w, "RUNNING">> \in insts => "RUNNING" \in flags[w] /\ wqueue[w] = q
  BY DEF Instances
<1> HIDE DEF insts
<1>3. /\ "DRAIN" \in qflags'[q] /\ "STARTED" \in qflags'[q]
      /\ \A r \in Queues \ {q} : qflags'[r] = qflags[r]
      /\ qflags' \in [Queues -> SUBSET QueueFlags]
  BY <1>1 DEF Core, CoreType, QueueFlags
<1>4. /\ wpc' \in [Queues -> {"off", "idle", "loop", "run", "finish"}]
      /\ wpc'[q] # "idle"
      /\ \A r \in Queues : /\ wpc'[r] = "idle" => wpc[r] = "idle"
                           /\ wpc'[r] \in {"off", "idle", "loop"} <=> wpc[r] \in {"off", "idle", "loop"}
                           /\ wpc'[r] = "run" <=> wpc[r] = "run"
                           /\ wpc'[r] = "finish" <=> wpc[r] = "finish"
                           /\ wpc[r] = "off" => wpc'[r] = "off"
  BY <1>1 DEF Core, CoreType, notify_queue_locked
<1>5. /\ tpc'[t] = "drain" /\ target'[t] = q /\ owed'[t] = insts
      /\ \A u \in Threads \ {t} : tpc'[u] = tpc[u] /\ target'[u] = target[u] /\ owed'[u] = owed[u]
      /\ t \notin woken /\ woken' = woken
  BY <1>1 DEF Core, CoreType, ReadyInv
<1>6. \A r \in Queues : t \notin Range(pending[r]) /\ ~(item[r] = t /\ wpc[r] = "run")
  BY <1>1 DEF Core, FlusherInv
<1>7. /\ \A v : pending_cancels(v)' = pending_cancels(v)
      /\ \A v : v # q => drainq(v)' = drainq(v)
  BY <1>1, <1>5 DEF pending_cancels, drainq
<1>8. CoreType' /\ FlagsInv' /\ QueuedOnce' /\ NotReentered'
  BY <1>1, <1>2, <1>3, <1>4, <1>5 DEF Core, CoreType, FlagsInv, QueuedOnce, NotReentered
<1>9. WorkerInv' /\ NoLostWakeup' /\ PluggedIsQuiet'
  BY <1>1, <1>3, <1>4 DEF Core, WorkerInv, NoLostWakeup, PluggedIsQuiet
<1>10. WaitersCovered'
  BY <1>1, <1>3, <1>4, <1>5, <1>7 DEF Core, WaitersCovered
<1>11. FlusherInv' /\ ReadyInv' /\ WaitsForInstances'
  BY <1>1, <1>4, <1>5, <1>6 DEF Core, FlusherInv, ReadyInv, WaitsForInstances
<1>12. OwedInv'
  <2>1. \A u \in Threads, w \in Works :
           /\ <<w, "QUEUED">> \in owed'[u] => "QUEUED" \in flags'[w]
           /\ <<w, "RUNNING">> \in owed'[u] => "RUNNING" \in flags'[w]
    BY <1>1, <1>2, <1>5 DEF Core, OwedInv
  <2>2. \A u \in Threads :
           tpc'[u] = "cancel" => owed'[u] \subseteq {<<target'[u], "RUNNING">>}
    BY <1>5 DEF Core, OwedInv
  <2>3. \A u \in Threads, w \in Works :
           tpc'[u] = "drain" /\ (<<w, "QUEUED">> \in owed'[u] \/ <<w, "RUNNING">> \in owed'[u])
              => wqueue'[w] = target'[u]
    BY <1>1, <1>2, <1>5 DEF Core, OwedInv
  <2>4. ASSUME NEW r \in Queues, NEW u \in Threads, u \in Range(pending'[r]), NEW w \in Works
        PROVE  /\ <<w, "QUEUED">> \in owed'[u] => Precedes(pending'[r], w, u)
               /\ <<w, "RUNNING">> \in owed'[u] => item'[r] = w
    <3>1. UNCHANGED <<pending, item>>
      BY <1>1
    <3>2. u \in Range(pending[r]) /\ u # t /\ owed'[u] = owed[u]
      BY <1>5, <1>6, <2>4, <3>1
    <3>3. /\ <<w, "QUEUED">> \in owed[u] => Precedes(pending[r], w, u)
          /\ <<w, "RUNNING">> \in owed[u] => item[r] = w
      BY <3>2 DEF Core, OwedInv
    <3> QED BY <3>1, <3>2, <3>3
  <2>5. \A r \in Queues, u \in Threads : item'[r] = u /\ wpc'[r] = "run" => owed'[u] = {}
    BY <1>1, <1>4, <1>5, <1>6 DEF Core, OwedInv
  <2> QED BY <2>1, <2>2, <2>3, <2>4, <2>5 DEF OwedInv
<1> QED BY <1>8, <1>9, <1>10, <1>11, <1>12 DEF Core

\* A queue thread has run its item.
LEMMA FinishCore ==
    ASSUME Core, NEW q \in Queues, FinishItem(q)
    PROVE  Core'
<1> USE WorkQAssumption
<1>1. /\ UNCHANGED <<wqueue, pending, tpc, target>>
      /\ item' = [item EXCEPT ![q] = NULL]
      /\ qflags' = [qflags EXCEPT ![q] = @ \ {"BUSY"}]
      /\ wpc' = [wpc EXCEPT ![q] = "loop"]
      /\ item[q] \in Works \/ (item[q] \in Threads /\ wpc[q] = "finish")
      /\ item[q] # NULL
  BY DEF FinishItem, Core, WorkerInv, CoreType
<1>2. /\ item'[q] = NULL /\ wpc'[q] = "loop" /\ qflags'[q] = qflags[q] \ {"BUSY"}
      /\ \A r \in Queues \ {q} : item'[r] = item[r] /\ wpc'[r] = wpc[r] /\ qflags'[r] = qflags[r]
  BY <1>1 DEF Core, CoreType
<1>3. /\ item' \in [Queues -> Works \union Threads \union {NULL}]
      /\ wpc' \in [Queues -> {"off", "idle", "loop", "run", "finish"}]
      /\ qflags' \in [Queues -> SUBSET QueueFlags]
  BY <1>1 DEF Core, CoreType
<1>4. WorkerInv' /\ NoLostWakeup' /\ PluggedIsQuiet'
  BY <1>1, <1>2 DEF Core, WorkerInv, NoLostWakeup, PluggedIsQuiet
<1>5. \A r \in Queues, t \in Threads : item'[r] = t /\ wpc'[r] = "run" <=> item[r] = t /\ wpc[r] = "run"
  BY <1>1, <1>2
<1>6. CASE item[q] \notin Works
  <2>1. UNCHANGED <<flags, woken, owed>>
    BY <1>6 DEF FinishItem
  <2>2. \A v : pending_cancels(v)' = pending_cancels(v) /\ drainq(v)' = drainq(v)
    BY <1>1, <2>1 DEF pending_cancels, drainq
  <2>3. CoreType' /\ FlagsInv' /\ QueuedOnce' /\ NotReentered'
    BY <1>1, <1>2, <1>3, <1>6, <2>1 DEF Core, CoreType, FlagsInv, QueuedOnce, NotReentered
  <2>4. WaitersCovered'
    BY <1>1, <1>2, <1>5, <2>1, <2>2 DEF Core, WaitersCovered
  <2>5. FlusherInv' /\ ReadyInv' /\ WaitsForInstances'
    BY <1>1, <1>5, <2>1 DEF Core, FlusherInv, ReadyInv, WaitsForInstances
  <2>6. OwedInv'
    BY <1>1, <1>2, <1>5, <1>6, <2>1 DEF Core, OwedInv
  <2> QED BY <1>4, <2>3, <2>4, <2>5, <2>6 DEF Core
<1>7. ASSUME NEW w \in Works, item[q] = w PROVE Core'
  <2>1. /\ flags' = [flags EXCEPT ![w] = @ \ {"RUNNING", "CANCELING"}]
        /\ woken' = IF "CANCELING" \in flags[w] THEN woken \union pending_cancels(w) ELSE woken
        /\ owed' = Forget(<<w, "RUNNING">>)
    BY <1>7 DEF FinishItem
  <2>2. /\ flags'[w] = flags[w] \ {"RUNNING", "CANCELING"}
        /\ \A v \in Works \ {w} : flags'[v] = flags[v]
        /\ flags' \in [Works -> SUBSET WorkFlags]
    BY <2>1 DEF Core, CoreType
  <2>3. /\ owed' \in [Threads -> SUBSET (Works \X {"QUEUED", "RUNNING"})]
        /\ \A t \in Threads : owed'[t] = owed[t] \ {<<w, "RUNNING">>}
    BY <2>1 DEF Core, CoreType, Forget
  <2>4. /\ woken' \subseteq Threads /\ woken \subseteq woken'
        /\ \A t \in woken' \ woken : tpc[t] = "cancel" /\ target[t] = w
        /\ \A t \in Threads : tpc[t] # "cancel" => (t \in woken' <=> t \in woken)
    BY <2>1 DEF Core, CoreType, pending_cancels
  <2>5. pending_cancels(w)' = {}
    <3>1. pending_cancels(w) \subseteq woken'
      BY <2>1 DEF Core, WaitersCovered
    <3> QED BY <1>1, <2>4, <3>1 DEF pending_cancels
  <2>6. /\ \A v : drainq(v)' = drainq(v)
        /\ \A v : pending_cancels(v)' \subseteq pending_cancels(v)
    BY <1>1, <2>4 DEF drainq, pending_cancels
  <2>7. \A r \in Queues \ {q} : item[r] # w
    BY <1>7 DEF Core, NotReentered
  <2>8. CoreType' /\ FlagsInv' /\ QueuedOnce'
    BY <1>1, <1>3, <2>2, <2>3, <2>4 DEF Core, CoreType, FlagsInv, QueuedOnce
  <2>9. NotReentered'
    BY <1>1, <1>2, <1>7, <2>2, <2>7 DEF Core, NotReentered
  <2>10. WaitersCovered'
    <3>1. \A v \in Works : /\ "CANCELING" \in flags'[v] => "RUNNING" \in flags'[v]
                           /\ pending_cancels(v)' # {} => "CANCELING" \in flags'[v]
      BY <2>2, <2>5, <2>6 DEF Core, WaitersCovered
    <3>2. \A r \in Queues : "DRAIN" \in qflags'[r] <=> "DRAIN" \in qflags[r]
      BY <1>2
    <3> QED BY <1>1, <1>5, <2>4, <2>6, <3>1, <3>2 DEF Core, WaitersCovered
  <2>11. FlusherInv' /\ ReadyInv'
    BY <1>1, <1>5, <2>3, <2>4 DEF Core, FlusherInv, ReadyInv
  <2>12. WaitsForInstances'
    BY <2>3, <2>4 DEF Core, WaitsForInstances, OwedInv
  <2>13. OwedInv'
    <3>0. \A t \in Threads, v \in Works :
             /\ <<v, "QUEUED">> \in owed'[t] => <<v, "QUEUED">> \in owed[t]
             /\ <<v, "RUNNING">> \in owed'[t] => <<v, "RUNNING">> \in owed[t] /\ v # w
      BY <2>3
    <3>1. \A t \in Threads, v \in Works :
             /\ <<v, "QUEUED">> \in owed'[t] => "QUEUED" \in flags'[v]
             /\ <<v, "RUNNING">> \in owed'[t] => "RUNNING" \in flags'[v] /\ v # w
      <4>1. \A v \in Works : "QUEUED" \in flags[v] => "QUEUED" \in flags'[v]
        BY <2>2
      <4>2. \A v \in Works : "RUNNING" \in flags[v] /\ v # w => "RUNNING" \in flags'[v]
        BY <2>2
      <4> QED BY <3>0, <4>1, <4>2 DEF Core, OwedInv
    <3>2. \A t \in Threads : owed'[t] \subseteq owed[t]
      BY <2>3
    <3>3. \A r \in Queues, v \in Works : item[r] = v /\ v # w => item'[r] = v
      BY <1>2, <1>7
    <3> QED BY <1>1, <1>5, <3>1, <3>2, <3>3 DEF Core, OwedInv
  <2> QED BY <1>4, <2>8, <2>9, <2>10, <2>11, <2>12, <2>13 DEF Core
<1> QED BY <1>6, <1>7

\* A queue thread takes the first item.
LEMMA TakeCore ==
    ASSUME Core, NEW q \in Queues, TakeItem(q)
    PROVE  Core'
<1> USE WorkQAssumption
<1> DEFINE x == Head(pending[q])
<1>1. /\ UNCHANGED <<wqueue, tpc, target, woken>>
      /\ wpc[q] = "loop" /\ item[q] = NULL /\ pending[q] # <<>>
      /\ item' = [item EXCEPT ![q] = x]
      /\ flags' = IF x \in Works
                  THEN [flags EXCEPT ![x] = (@ \ {"QUEUED"}) \union {"RUNNING"}]
                  ELSE flags
      /\ owed' = [t \in Threads |-> IF <<x, "QUEUED">> \in owed[t]
                                    THEN (owed[t] \ {<<x, "QUEUED">>}) \union {<<x, "RUNNING">>}
                                    ELSE owed[t]]
      /\ pending' = [pending EXCEPT ![q] = Tail(@)]
      /\ qflags' = [qflags EXCEPT ![q] = @ \union {"BUSY"}]
      /\ wpc' = [wpc EXCEPT ![q] = "run"]
  BY DEF TakeItem, Core, WorkerInv
<1>2. /\ pending[q] \in Seq(Works \union Threads) /\ IsInjective(pending[q])
      /\ \A r \in Queues : pending[r] \in Seq(Works \union Threads)
  BY DEF Core, CoreType, QueuedOnce
<1>3. /\ x \in Works \union Threads /\ x \in Range(pending[q])
      /\ Tail(pending[q]) \in Seq(Works \union Threads)
      /\ IsInjective(Tail(pending[q]))
      /\ Range(Tail(pending[q])) = Range(pending[q]) \ {x}
  BY <1>1, <1>2, TailRange
<1>4. \A u, v : Precedes(pending[q], u, v) =>
                  v # x /\ (u # x => Precedes(Tail(pending[q]), u, v))
  BY <1>1, <1>2, TailPrecedes
<1> HIDE DEF x
<1>5. /\ item'[q] = x /\ wpc'[q] = "run" /\ qflags'[q] = qflags[q] \union {"BUSY"}
      /\ pending'[q] = Tail(pending[q])
      /\ \A r \in Queues \ {q} : /\ item'[r] = item[r] /\ wpc'[r] = wpc[r]
                                 /\ qflags'[r] = qflags[r] /\ pending'[r] = pending[r]
  BY <1>1 DEF Core, CoreType
<1>6. /\ \A r \in Queues : Range(pending'[r]) \subseteq Range(pending[r])
      /\ \A y : y \in Range(pending'[q]) <=> y \in Range(pending[q]) /\ y # x
      /\ \A r \in Queues : IsInjective(pending'[r])
  BY <1>3, <1>5 DEF Core, QueuedOnce
<1>7. /\ item' \in [Queues -> Works \union Threads \union {NULL}]
      /\ wpc' \in [Queues -> {"off", "idle", "loop", "run", "finish"}]
      /\ qflags' \in [Queues -> SUBSET QueueFlags]
      /\ pending' \in [Queues -> Seq(Works \union Threads)]
  BY <1>1, <1>3 DEF Core, CoreType, QueueFlags
<1>8. \A v : pending_cancels(v)' = pending_cancels(v) /\ drainq(v)' = drainq(v)
  BY <1>1 DEF pending_cancels, drainq
<1>9. WorkerInv' /\ NoLostWakeup' /\ PluggedIsQuiet'
  BY <1>1, <1>3, <1>5 DEF Core, WorkerInv, NoLostWakeup, PluggedIsQuiet
<1>10. CASE x \in Threads
  <2>1. UNCHANGED <<flags, owed>>
    <3>1. x \notin Works /\ \A t \in Threads : <<x, "QUEUED">> \notin owed[t]
      BY <1>10 DEF Core, CoreType
    <3> QED BY <1>1, <3>1 DEF Core, CoreType
  <2>2. \A r \in Queues \ {q} : x \notin Range(pending[r])
    BY <1>3, <1>10 DEF Core, FlusherInv
  <2>3. tpc[x] = "flush" /\ x \notin woken
    BY <1>3, <1>10 DEF Core, FlusherInv
  <2>4. owed[x] = {}
    <3> SUFFICES ASSUME owed[x] # {} PROVE FALSE
      OBVIOUS
    <3>1. PICK w \in Works : <<w, "QUEUED">> \in owed[x] \/ <<w, "RUNNING">> \in owed[x]
      BY <1>10, OwedMember DEF Core
    <3> QED BY <1>1, <1>3, <1>4, <1>10, <3>1 DEF Core, OwedInv
  <2>5. CoreType' /\ FlagsInv' /\ QueuedOnce' /\ NotReentered'
    <3>1. CoreType' /\ FlagsInv'
      BY <1>1, <1>7, <2>1 DEF Core, CoreType, FlagsInv
    <3>2. \A r \in Queues, w \in Works : w \in Range(pending'[r]) <=> w \in Range(pending[r])
      BY <1>5, <1>6, <1>10
    <3>3. QueuedOnce'
      BY <1>1, <1>6, <2>1, <3>2 DEF Core, QueuedOnce
    <3>4. \A r \in Queues, w \in Works : item'[r] = w <=> item[r] = w
      BY <1>1, <1>5, <1>10
    <3> QED BY <1>1, <2>1, <3>1, <3>3, <3>4 DEF Core, NotReentered
  <2>6. WaitersCovered'
    <3>1. \A t \in Threads, r \in Queues :
             t \in Range(pending[r]) => t \in Range(pending'[r]) \/ (item'[q] = t /\ wpc'[q] = "run")
      BY <1>5, <1>6
    <3>2. \A t \in Threads, r \in Queues :
             item[r] = t /\ wpc[r] = "run" => item'[r] = t /\ wpc'[r] = "run"
      BY <1>1, <1>5
    <3>3. \A r \in Queues : "DRAIN" \in qflags[r] => "DRAIN" \in qflags'[r]
      BY <1>5
    <3> QED BY <1>1, <1>8, <2>1, <3>1, <3>2, <3>3 DEF Core, WaitersCovered
  <2>7. FlusherInv'
    <3>1. \A r \in Queues : item[r] = x => wpc[r] # "run"
      BY <1>3, <1>10 DEF Core, FlusherInv
    <3> QED BY <1>1, <1>5, <1>6, <2>2, <2>3, <3>1 DEF Core, FlusherInv
  <2>8. ReadyInv' /\ WaitsForInstances'
    BY <1>1, <2>1 DEF Core, ReadyInv, WaitsForInstances
  <2>9. OwedInv'
    <3>1. \A r \in Queues, t \in Threads, w \in Works : Precedes(pending[r], w, t) /\ t \in Range(pending'[r])
             => Precedes(pending'[r], w, t)
      BY <1>4, <1>5, <1>10
    <3>2. \A r \in Queues, w \in Works : item[r] = w => item'[r] = w
      BY <1>1, <1>5
    <3>3. \A r \in Queues, t \in Threads : t \in Range(pending'[r]) =>
             \A w \in Works : /\ <<w, "QUEUED">> \in owed'[t] => Precedes(pending'[r], w, t)
                              /\ <<w, "RUNNING">> \in owed'[t] => item'[r] = w
      BY <1>6, <2>1, <3>1, <3>2 DEF Core, OwedInv
    <3>4. \A r \in Queues, t \in Threads : item'[r] = t /\ wpc'[r] = "run" => owed'[t] = {}
      BY <1>5, <2>1, <2>4 DEF Core, OwedInv
    <3> QED BY <1>1, <2>1, <3>3, <3>4 DEF Core, OwedInv
  <2> QED BY <1>9, <2>5, <2>6, <2>7, <2>8, <2>9 DEF Core
<1>11. CASE x \in Works
  <2>1. /\ flags'[x] = (flags[x] \ {"QUEUED"}) \union {"RUNNING"}
        /\ \A v \in Works \ {x} : flags'[v] = flags[v]
        /\ flags' \in [Works -> SUBSET WorkFlags]
    BY <1>1, <1>11 DEF Core, CoreType, WorkFlags
  <2>2. /\ "QUEUED" \in flags[x] /\ wqueue[x] = q
        /\ "CANCELING" \notin flags[x]
        /\ "RUNNING" \notin flags[x]
    BY <1>1, <1>3, <1>11 DEF Core, QueuedOnce, FlagsInv, NotReentered
  <2>3. /\ owed' \in [Threads -> SUBSET (Works \X {"QUEUED", "RUNNING"})]
        /\ \A t \in Threads : owed[t] = {} => owed'[t] = {}
        /\ \A t \in Threads, w \in Works :
              /\ <<w, "QUEUED">> \in owed'[t] <=> <<w, "QUEUED">> \in owed[t] /\ w # x
              /\ <<w, "RUNNING">> \in owed'[t] <=>
                    <<w, "RUNNING">> \in owed[t] \/ (w = x /\ <<w, "QUEUED">> \in owed[t])
    <3>1. \A t \in Threads : owed[t] \in SUBSET (Works \X {"QUEUED", "RUNNING"})
      BY DEF Core, CoreType
    <3>2. \A t \in Threads : owed'[t] = IF <<x, "QUEUED">> \in owed[t]
                                       THEN (owed[t] \ {<<x, "QUEUED">>}) \union {<<x, "RUNNING">>}
                                       ELSE owed[t]
      BY <1>1
    <3>3. owed' \in [Threads -> SUBSET (Works \X {"QUEUED", "RUNNING"})]
      <4>1. <<x, "RUNNING">> \in Works \X {"QUEUED", "RUNNING"}
        BY <1>11
      <4> QED BY <1>1, <3>1, <4>1
    <3>4. ASSUME NEW t \in Threads, NEW w \in Works
          PROVE  /\ <<w, "QUEUED">> \in owed'[t] <=> <<w, "QUEUED">> \in owed[t] /\ w # x
                 /\ <<w, "RUNNING">> \in owed'[t] <=>
                       <<w, "RUNNING">> \in owed[t] \/ (w = x /\ <<w, "QUEUED">> \in owed[t])
      <4>1. /\ <<w, "QUEUED">> = <<x, "QUEUED">> <=> w = x
            /\ <<w, "RUNNING">> = <<x, "RUNNING">> <=> w = x
            /\ <<w, "QUEUED">> # <<x, "RUNNING">> /\ <<w, "RUNNING">> # <<x, "QUEUED">>
        OBVIOUS
      <4>2. CASE <<x, "QUEUED">> \in owed[t]
        <5>1. owed'[t] = (owed[t] \ {<<x, "QUEUED">>}) \union {<<x, "RUNNING">>}
          BY <3>2, <4>2
        <5> QED BY <4>1, <4>2, <5>1, Zenon
      <4>3. CASE <<x, "QUEUED">> \notin owed[t]
        BY <3>2, <4>1, <4>3
      <4> QED BY <4>2, <4>3
    <3> QED BY <3>2, <3>3, <3>4
  <2>4. CoreType' /\ FlagsInv'
    BY <1>1, <1>7, <2>1, <2>2, <2>3 DEF Core, CoreType, FlagsInv
  <2>5. QueuedOnce'
    BY <1>1, <1>5, <1>6, <2>1, <2>2 DEF Core, QueuedOnce
  <2>6. NotReentered'
    BY <1>1, <1>5, <1>11, <2>1, <2>2 DEF Core, NotReentered
  <2>7. \A t \in Threads, r \in Queues :
           /\ t \in Range(pending'[r]) <=> t \in Range(pending[r])
           /\ item'[r] = t /\ wpc'[r] = "run" <=> item[r] = t /\ wpc[r] = "run"
    BY <1>1, <1>5, <1>6, <1>11
  <2>8. WaitersCovered'
    <3>1. \A r \in Queues : "DRAIN" \in qflags[r] => "DRAIN" \in qflags'[r]
      BY <1>5
    <3> QED BY <1>1, <1>8, <2>1, <2>2, <2>7, <3>1 DEF Core, WaitersCovered
  <2>9. FlusherInv' /\ ReadyInv' /\ WaitsForInstances'
    <3>1. FlusherInv'
      BY <1>1, <2>7 DEF Core, FlusherInv
    <3>2. ReadyInv' /\ WaitsForInstances'
      BY <1>1, <2>3 DEF Core, CoreType, ReadyInv, WaitsForInstances
    <3> QED BY <3>1, <3>2
  <2>10. OwedInv'
    <3>1. ASSUME NEW t \in Threads, NEW w \in Works
          PROVE  /\ <<w, "QUEUED">> \in owed'[t] => "QUEUED" \in flags'[w]
                 /\ <<w, "RUNNING">> \in owed'[t] => "RUNNING" \in flags'[w]
      <4>1. /\ <<w, "QUEUED">> \in owed[t] => "QUEUED" \in flags[w]
            /\ <<w, "RUNNING">> \in owed[t] => "RUNNING" \in flags[w]
        BY DEF Core, OwedInv
      <4> QED BY <2>1, <2>3, <4>1
    <3>2. ASSUME NEW t \in Threads, tpc'[t] = "cancel"
          PROVE  owed'[t] \subseteq {<<target'[t], "RUNNING">>}
      <4>1. <<x, "QUEUED">> \notin owed[t]
        BY <1>1, <3>2 DEF Core, OwedInv
      <4>2. owed'[t] = owed[t]
        BY <1>1, <4>1
      <4> QED BY <1>1, <3>2, <4>2 DEF Core, OwedInv
    <3>3. \A t \in Threads, w \in Works :
             tpc'[t] = "drain" /\ (<<w, "QUEUED">> \in owed'[t] \/ <<w, "RUNNING">> \in owed'[t])
                => wqueue'[w] = target'[t]
      BY <1>1, <2>3 DEF Core, OwedInv
    <3>4. ASSUME NEW r \in Queues, NEW t \in Threads, t \in Range(pending'[r]), NEW w \in Works
          PROVE  /\ <<w, "QUEUED">> \in owed'[t] => Precedes(pending'[r], w, t)
                 /\ <<w, "RUNNING">> \in owed'[t] => item'[r] = w
      <4>1. t \in Range(pending[r])
        BY <2>7, <3>4
      <4>2. <<w, "QUEUED">> \in owed[t] => Precedes(pending[r], w, t)
        BY <4>1 DEF Core, OwedInv
      <4>3. <<w, "RUNNING">> \in owed[t] => item[r] = w
        BY <4>1 DEF Core, OwedInv
      <4>4. <<x, "QUEUED">> \in owed[t] => r = q
        <5>1. <<x, "QUEUED">> \in owed[t] => Precedes(pending[r], x, t)
          BY <1>11, <4>1 DEF Core, OwedInv
        <5>2. <<x, "QUEUED">> \in owed[t] => x \in Range(pending[r])
          BY <1>2, <5>1, PrecedesRange
        <5> QED BY <1>11, <2>2, <5>2 DEF Core, QueuedOnce
      <4>5. <<w, "RUNNING">> \in owed'[t] => item'[r] = w
        BY <1>1, <1>5, <2>3, <4>3, <4>4
      <4>6. w # x /\ Precedes(pending[r], w, t) => Precedes(pending'[r], w, t)
        BY <1>4, <1>5
      <4> QED BY <2>3, <4>2, <4>5, <4>6
    <3>5. \A r \in Queues, t \in Threads : item'[r] = t /\ wpc'[r] = "run" => owed'[t] = {}
      BY <2>3, <2>7 DEF Core, OwedInv
    <3> QED BY <3>1, <3>2, <3>3, <3>4, <3>5 DEF OwedInv
  <2> QED BY <1>9, <2>4, <2>5, <2>6, <2>8, <2>9, <2>10 DEF Core
<1> QED BY <1>3, <1>10, <1>11

\* An item is submitted, or the submission is refused.
LEMMA SubmitCore ==
    ASSUME Core, NEW w \in Works, NEW q \in Queues \union {NULL}, NEW a,
           NEW f \in SUBSET WorkFlags,
           f \ {"DELAYED"} = flags[w] \ {"DELAYED"},
           "DELAYED" \in f => w \in Delayables,
           submit_to_queue_locked(a, q, w, f),
           UNCHANGED <<qflags, item, threadVars>>
    PROVE  Core'
<1> USE WorkQAssumption
<1>1. UNCHANGED <<qflags, item, tpc, target, woken, owed>>
  BY DEF threadVars
<1>2. CASE ~CanSubmit(a, q, w, f)
  <2>1. /\ flags' = [flags EXCEPT ![w] = f]
        /\ UNCHANGED <<wqueue, queueVars, threadVars>>
    BY <1>2 DEF submit_to_queue_locked, queueVars
  <2> QED BY <2>1, FlagsCore
<1>3. CASE CanSubmit(a, q, w, f)
  <2> DEFINE to == SubmitTo(q, w)
  <2>1. /\ flags' = [flags EXCEPT ![w] = f \union {"QUEUED"}]
        /\ wqueue' = [wqueue EXCEPT ![w] = to]
        /\ pending' = [pending EXCEPT ![to] = Append(@, w)]
        /\ wpc' = notify_queue_locked(to)
    BY <1>3 DEF submit_to_queue_locked
  <2>2. to \in Queues
    BY <1>3 DEF CanSubmit, Accepts, SubmitTo, Core, CoreType
  <2>3. /\ "CANCELING" \notin flags[w] /\ "QUEUED" \notin flags[w]
        /\ "STARTED" \in qflags[to]
        /\ "PLUGGED" \in qflags[to] => "DRAIN" \in qflags[to]
    BY <1>3 DEF CanSubmit, Accepts
  <2>4. "RUNNING" \in flags[w] => to = wqueue[w]
    BY DEF SubmitTo
  <2> HIDE DEF to
  <2>5. /\ flags' \in [Works -> SUBSET WorkFlags]
        /\ flags'[w] = f \union {"QUEUED"}
        /\ \A v \in Works \ {w} : flags'[v] = flags[v]
        /\ \A v \in Works, x \in {"RUNNING", "CANCELING"} : x \in flags'[v] <=> x \in flags[v]
        /\ \A v \in Works : "QUEUED" \in flags'[v] <=> "QUEUED" \in flags[v] \/ v = w
    BY <2>1 DEF Core, CoreType, WorkFlags
  <2>6. /\ wqueue' \in [Works -> Queues \union {NULL}]
        /\ wqueue'[w] = to
        /\ \A v \in Works \ {w} : wqueue'[v] = wqueue[v]
        /\ \A v \in Works : "RUNNING" \in flags[v] => wqueue'[v] = wqueue[v]
    BY <2>1, <2>2, <2>4 DEF Core, CoreType
  <2>7. /\ wpc' \in [Queues -> {"off", "idle", "loop", "run", "finish"}]
        /\ wpc'[to] # "idle"
        /\ \A r \in Queues : /\ wpc'[r] = "idle" => wpc[r] = "idle"
                             /\ wpc'[r] \in {"off", "idle", "loop"} <=> wpc[r] \in {"off", "idle", "loop"}
                             /\ wpc'[r] = "run" <=> wpc[r] = "run"
                             /\ wpc'[r] = "finish" <=> wpc[r] = "finish"
                             /\ wpc[r] = "off" => wpc'[r] = "off"
    BY <2>1, <2>2 DEF Core, CoreType, notify_queue_locked
  <2>8. /\ pending[to] \in Seq(Works \union Threads) /\ IsInjective(pending[to])
        /\ w \notin Range(pending[to]) /\ w \in Works \union Threads
    BY <2>2, <2>3 DEF Core, CoreType, QueuedOnce
  <2> DEFINE s == Append(pending[to], w)
  <2>9. /\ s \in Seq(Works \union Threads)
        /\ IsInjective(s)
        /\ Range(s) = Range(pending[to]) \union {w}
        /\ \A x, y : Precedes(pending[to], x, y) => Precedes(s, x, y)
    BY <2>8, AppendFacts
  <2>10. /\ pending' \in [Queues -> Seq(Works \union Threads)]
         /\ pending'[to] = s
         /\ \A r \in Queues \ {to} : pending'[r] = pending[r]
    BY <2>1, <2>2, <2>9 DEF Core, CoreType
  <2> HIDE DEF s
  <2>11. /\ \A r \in Queues : IsInjective(pending'[r])
         /\ \A r \in Queues : \A y : y \in Range(pending'[r]) <=>
                                y \in Range(pending[r]) \/ (r = to /\ y = w)
         /\ \A r \in Queues : \A x, y : Precedes(pending[r], x, y) => Precedes(pending'[r], x, y)
    <3>1. \A r \in Queues : IsInjective(pending'[r])
      BY <2>9, <2>10 DEF Core, QueuedOnce
    <3>2. \A r \in Queues : \A y : y \in Range(pending'[r]) <=>
                                 y \in Range(pending[r]) \/ (r = to /\ y = w)
      BY <2>9, <2>10
    <3>3. \A r \in Queues : \A x, y : Precedes(pending[r], x, y) => Precedes(pending'[r], x, y)
      BY <2>9, <2>10
    <3> QED BY <3>1, <3>2, <3>3
  <2>12. \A v : pending_cancels(v)' = pending_cancels(v) /\ drainq(v)' = drainq(v)
    BY <1>1 DEF pending_cancels, drainq
  <2>13. CoreType' /\ FlagsInv'
    BY <1>1, <2>2, <2>3, <2>5, <2>6, <2>7, <2>10 DEF Core, CoreType, FlagsInv
  <2>14. QueuedOnce' /\ NotReentered'
    BY <1>1, <2>2, <2>3, <2>5, <2>6, <2>11 DEF Core, QueuedOnce, NotReentered
  <2>15. WorkerInv' /\ NoLostWakeup' /\ PluggedIsQuiet'
    BY <1>1, <2>2, <2>3, <2>7, <2>10 DEF Core, WorkerInv, NoLostWakeup, PluggedIsQuiet
  <2>16. \A r \in Queues, t \in Threads : t \in Range(pending'[r]) <=> t \in Range(pending[r])
    BY <2>11
  <2>17. WaitersCovered'
    BY <1>1, <2>5, <2>7, <2>12, <2>16 DEF Core, WaitersCovered
  <2>18. FlusherInv' /\ ReadyInv' /\ WaitsForInstances'
    BY <1>1, <2>7, <2>16 DEF Core, FlusherInv, ReadyInv, WaitsForInstances
  <2>19. \A v \in Works : "QUEUED" \in flags[v] => wqueue'[v] = wqueue[v]
    BY <2>3, <2>6
  <2>20. OwedInv'
    <3>1. \A t \in Threads, v \in Works :
             /\ <<v, "QUEUED">> \in owed'[t] => "QUEUED" \in flags'[v]
             /\ <<v, "RUNNING">> \in owed'[t] => "RUNNING" \in flags'[v]
      BY <1>1, <2>5 DEF Core, OwedInv
    <3>2. \A t \in Threads, v \in Works :
             tpc'[t] = "drain" /\ (<<v, "QUEUED">> \in owed'[t] \/ <<v, "RUNNING">> \in owed'[t])
                => wqueue'[v] = target'[t]
      BY <1>1, <2>6, <2>19 DEF Core, OwedInv
    <3>3. \A r \in Queues, t \in Threads : t \in Range(pending'[r]) =>
             \A v \in Works : /\ <<v, "QUEUED">> \in owed'[t] => Precedes(pending'[r], v, t)
                              /\ <<v, "RUNNING">> \in owed'[t] => item'[r] = v
      BY <1>1, <2>11, <2>16 DEF Core, OwedInv
    <3>4. \A r \in Queues, t \in Threads : item'[r] = t /\ wpc'[r] = "run" => owed'[t] = {}
      BY <1>1, <2>7 DEF Core, OwedInv
    <3> QED BY <1>1, <3>1, <3>2, <3>3, <3>4 DEF Core, OwedInv
  <2> QED BY <2>13, <2>14, <2>15, <2>17, <2>18, <2>20 DEF Core
<1> QED BY <1>2, <1>3

\* An item is cancelled.  Either nobody waits for that, or thread t does
\* because the item is running.
LEMMA CancelCore ==
    ASSUME Core, NEW w \in Works,
           NEW f, f = flags[w] \ {"DELAYED"},
           cancel_async_locked(w, f),
           UNCHANGED <<wqueue, qflags, wpc, item>>,
           NEW rest, rest = IF "CANCELING" \in flags[w] THEN owed ELSE Forget(<<w, "QUEUED">>),
           \/ owed' = rest /\ UNCHANGED <<tpc, target, woken>>
           \/ \E t \in Threads :
                 /\ tpc[t] = "ready" /\ "CANCELING" \in CancelFlags(f)
                 /\ tpc' = [tpc EXCEPT ![t] = "cancel"]
                 /\ target' = [target EXCEPT ![t] = w]
                 /\ woken' = woken \ {t}
                 /\ owed' = [rest EXCEPT ![t] = {<<w, "RUNNING">>}]
    PROVE  Core'
<1> USE WorkQAssumption
<1>1. /\ flags' \in [Works -> SUBSET WorkFlags]
      /\ flags'[w] = CancelFlags(f)
      /\ \A v \in Works \ {w} : flags'[v] = flags[v]
  BY DEF cancel_async_locked, CancelFlags, Core, CoreType, WorkFlags
<1>2. /\ "QUEUED" \notin flags'[w] /\ "DELAYED" \notin flags'[w]
      /\ "RUNNING" \in flags'[w] <=> "RUNNING" \in flags[w]
      /\ "CANCELING" \in flags'[w] <=> "RUNNING" \in flags[w]
  <2>1. "CANCELING" \in flags[w] => "RUNNING" \in flags[w] /\ "QUEUED" \notin flags[w]
    BY DEF Core, FlagsInv
  <2>2. f \ {"QUEUED"} = {} <=> "RUNNING" \notin f /\ "CANCELING" \notin f
    <3>1. f \subseteq {"RUNNING", "CANCELING", "QUEUED"}
      BY DEF Core, CoreType, WorkFlags
    <3> QED BY <3>1
  <2> QED BY <1>1, <2>1, <2>2 DEF CancelFlags
<1>3. /\ pending' \in [Queues -> Seq(Works \union Threads)]
      /\ \A r \in Queues : IsInjective(pending'[r])
      /\ \A r \in Queues : \A y : y \in Range(pending'[r]) <=> y \in Range(pending[r]) /\ y # w
      /\ \A r \in Queues : \A x, y : Precedes(pending[r], x, y) /\ x # w /\ y # w
                                       => Precedes(pending'[r], x, y)
  <2>1. CASE "QUEUED" \in flags[w]
    <3> DEFINE q == wqueue[w]
    <3>1. q \in Queues /\ "CANCELING" \notin flags[w]
      BY <2>1 DEF Core, FlagsInv
    <3>2. pending' = [pending EXCEPT ![q] = Without(@, w)]
      BY <2>1, <3>1 DEF cancel_async_locked
    <3> HIDE DEF q
    <3>3. /\ pending[q] \in Seq(Works \union Threads) /\ IsInjective(pending[q])
          /\ w \in Range(pending[q])
          /\ \A r \in Queues \ {q} : w \notin Range(pending[r])
      BY <2>1, <3>1 DEF q, Core, CoreType, QueuedOnce
    <3>4. /\ Without(pending[q], w) \in Seq(Works \union Threads)
          /\ IsInjective(Without(pending[q], w))
          /\ Range(Without(pending[q], w)) = Range(pending[q]) \ {w}
          /\ \A x, y : Precedes(pending[q], x, y) /\ x # w /\ y # w
                         => Precedes(Without(pending[q], w), x, y)
      BY <3>3, WithoutFacts
    <3>5. /\ pending'[q] = Without(pending[q], w)
          /\ \A r \in Queues \ {q} : pending'[r] = pending[r]
          /\ pending' \in [Queues -> Seq(Works \union Threads)]
      BY <3>1, <3>2, <3>4 DEF Core, CoreType
    <3>6. \A r \in Queues : IsInjective(pending'[r])
      BY <3>4, <3>5 DEF Core, QueuedOnce
    <3>7. ASSUME NEW r \in Queues, NEW y
          PROVE  y \in Range(pending'[r]) <=> y \in Range(pending[r]) /\ y # w
      <4>1. CASE r = q
        <5>1. Range(pending'[q]) = Range(pending[q]) \ {w}
          BY <3>4, <3>5
        <5> QED BY <4>1, <5>1
      <4>2. CASE r # q
        <5>1. pending'[r] = pending[r] /\ w \notin Range(pending[r])
          BY <3>3, <3>5, <4>2
        <5> QED BY <5>1
      <4> QED BY <4>1, <4>2
    <3>8. \A r \in Queues : \A x, y : Precedes(pending[r], x, y) /\ x # w /\ y # w
                                       => Precedes(pending'[r], x, y)
      BY <3>4, <3>5
    <3> QED BY <3>5, <3>6, <3>7, <3>8
  <2>2. CASE "QUEUED" \notin flags[w]
    <3>1. UNCHANGED pending
      BY <2>2 DEF cancel_async_locked
    <3>2. \A r \in Queues : w \notin Range(pending[r])
      BY <2>2 DEF Core, QueuedOnce
    <3> QED BY <3>1, <3>2 DEF Core, CoreType, QueuedOnce
  <2> QED BY <2>1, <2>2
<1>4. \A r \in Queues : pending[r] = <<>> => pending'[r] = <<>>
  <2> SUFFICES ASSUME NEW r \in Queues, pending[r] = <<>> PROVE pending'[r] = <<>>
    OBVIOUS
  <2>1. w \notin Range(pending[r])
    BY DEF Range
  <2>2. "QUEUED" \in flags[w] => wqueue[w] # r /\ wqueue[w] \in Queues
    BY <2>1 DEF Core, QueuedOnce, FlagsInv
  <2> QED BY <2>2 DEF cancel_async_locked, Core, CoreType
<1>5. /\ rest \in [Threads -> SUBSET (Works \X {"QUEUED", "RUNNING"})]
      /\ \A t \in Threads : rest[t] \subseteq owed[t] /\ <<w, "QUEUED">> \notin rest[t]
  BY DEF Forget, Core, CoreType, OwedInv, FlagsInv
<1>6. FlagsInv' /\ QueuedOnce' /\ NotReentered'
  <2>1. \A v \in Works : /\ "QUEUED" \in flags'[v] <=> "QUEUED" \in flags[v] /\ v # w
                         /\ "RUNNING" \in flags'[v] <=> "RUNNING" \in flags[v]
                         /\ "DELAYED" \in flags'[v] => "DELAYED" \in flags[v]
    BY <1>1, <1>2
  <2>2. FlagsInv'
    BY <1>1, <1>2 DEF Core, FlagsInv
  <2>3. QueuedOnce'
    BY <1>3, <2>1 DEF Core, QueuedOnce
  <2>4. NotReentered'
    BY <2>1 DEF Core, NotReentered
  <2> QED BY <2>2, <2>3, <2>4
<1>7. WorkerInv' /\ NoLostWakeup' /\ PluggedIsQuiet'
  BY <1>4 DEF Core, WorkerInv, NoLostWakeup, PluggedIsQuiet
<1>8. \A r \in Queues, t \in Threads : t \in Range(pending'[r]) <=> t \in Range(pending[r])
  BY <1>3
<1>9. \A v \in Works : "CANCELING" \in flags[v] => "CANCELING" \in flags'[v]
  BY <1>1, <1>2 DEF Core, FlagsInv
<1>10. \A t \in Threads, v \in Works :
         /\ <<v, "QUEUED">> \in rest[t] => "QUEUED" \in flags'[v] /\ v # w
         /\ <<v, "RUNNING">> \in rest[t] => "RUNNING" \in flags'[v]
  <2>1. \A v \in Works : /\ "QUEUED" \in flags[v] /\ v # w => "QUEUED" \in flags'[v]
                         /\ "RUNNING" \in flags[v] => "RUNNING" \in flags'[v]
    BY <1>1, <1>2
  <2>2. \A t \in Threads, v \in Works :
           /\ <<v, "QUEUED">> \in owed[t] => "QUEUED" \in flags[v]
           /\ <<v, "RUNNING">> \in owed[t] => "RUNNING" \in flags[v]
    BY DEF Core, OwedInv
  <2> QED BY <1>5, <2>1, <2>2
<1>11. CASE owed' = rest /\ UNCHANGED <<tpc, target, woken>>
  <2>1. \A v : pending_cancels(v)' = pending_cancels(v) /\ drainq(v)' = drainq(v)
    BY <1>11 DEF pending_cancels, drainq
  <2>2. CoreType'
    BY <1>1, <1>3, <1>5, <1>11 DEF Core, CoreType
  <2>3. WaitersCovered'
    BY <1>6, <1>8, <1>9, <1>11, <2>1 DEF Core, WaitersCovered, FlagsInv
  <2>4. FlusherInv' /\ ReadyInv' /\ WaitsForInstances'
    <3>1. FlusherInv'
      BY <1>8, <1>11 DEF Core, FlusherInv
    <3>2. ReadyInv' /\ WaitsForInstances'
      BY <1>5, <1>11 DEF Core, CoreType, ReadyInv, WaitsForInstances
    <3> QED BY <3>1, <3>2
  <2>5. OwedInv'
    <3>1. \A r \in Queues, t \in Threads : t \in Range(pending'[r]) =>
             \A v \in Works : /\ <<v, "QUEUED">> \in owed'[t] => Precedes(pending'[r], v, t)
                              /\ <<v, "RUNNING">> \in owed'[t] => item'[r] = v
      <4> SUFFICES ASSUME NEW r \in Queues, NEW t \in Threads, t \in Range(pending'[r]),
                          NEW v \in Works
                   PROVE  /\ <<v, "QUEUED">> \in owed'[t] => Precedes(pending'[r], v, t)
                          /\ <<v, "RUNNING">> \in owed'[t] => item'[r] = v
        OBVIOUS
      <4>1. /\ <<v, "QUEUED">> \in owed[t] => Precedes(pending[r], v, t)
            /\ <<v, "RUNNING">> \in owed[t] => item[r] = v
        BY <1>8 DEF Core, OwedInv
      <4> QED BY <1>3, <1>5, <1>10, <1>11, <4>1
    <3> QED BY <1>5, <1>10, <1>11, <3>1 DEF Core, OwedInv
  <2> QED BY <1>6, <1>7, <2>2, <2>3, <2>4, <2>5 DEF Core
<1>12. ASSUME NEW t \in Threads,
              tpc[t] = "ready", "CANCELING" \in CancelFlags(f),
              tpc' = [tpc EXCEPT ![t] = "cancel"],
              target' = [target EXCEPT ![t] = w],
              woken' = woken \ {t},
              owed' = [rest EXCEPT ![t] = {<<w, "RUNNING">>}]
       PROVE  Core'
  <2>1. /\ tpc'[t] = "cancel" /\ target'[t] = w /\ owed'[t] = {<<w, "RUNNING">>}
        /\ \A u \in Threads \ {t} : tpc'[u] = tpc[u] /\ target'[u] = target[u] /\ owed'[u] = rest[u]
        /\ t \notin woken /\ woken' = woken
    BY <1>5, <1>12 DEF Core, CoreType, ReadyInv
  <2>2. \A r \in Queues : t \notin Range(pending[r]) /\ ~(item[r] = t /\ wpc[r] = "run")
    BY <1>12 DEF Core, FlusherInv
  <2>3. "CANCELING" \in flags'[w] /\ "RUNNING" \in flags'[w]
    BY <1>1, <1>2, <1>12
  <2>4. /\ \A v : drainq(v)' = drainq(v)
        /\ \A v : v # w => pending_cancels(v)' = pending_cancels(v)
    BY <1>12, <2>1 DEF pending_cancels, drainq
  <2>5. CoreType'
    <3>1. owed' \in [Threads -> SUBSET (Works \X {"QUEUED", "RUNNING"})]
      BY <1>5, <1>12
    <3> QED BY <1>1, <1>3, <1>12, <2>1, <3>1 DEF Core, CoreType
  <2>6. WaitersCovered'
    BY <1>6, <1>8, <1>9, <2>1, <2>3, <2>4 DEF Core, WaitersCovered, FlagsInv
  <2>7. FlusherInv' /\ ReadyInv' /\ WaitsForInstances'
    <3>1. FlusherInv'
      BY <1>8, <2>1, <2>2 DEF Core, FlusherInv
    <3>2. ReadyInv'
      BY <1>5, <2>1 DEF Core, CoreType, ReadyInv
    <3>3. WaitsForInstances'
      BY <1>5, <2>1 DEF Core, CoreType, WaitsForInstances
    <3> QED BY <3>1, <3>2, <3>3
  <2>8. OwedInv'
    <3>1. \A r \in Queues, u \in Threads : u \in Range(pending'[r]) =>
             \A v \in Works : /\ <<v, "QUEUED">> \in owed'[u] => Precedes(pending'[r], v, u)
                              /\ <<v, "RUNNING">> \in owed'[u] => item'[r] = v
      <4> SUFFICES ASSUME NEW r \in Queues, NEW u \in Threads, u \in Range(pending'[r]),
                          NEW v \in Works
                   PROVE  /\ <<v, "QUEUED">> \in owed'[u] => Precedes(pending'[r], v, u)
                          /\ <<v, "RUNNING">> \in owed'[u] => item'[r] = v
        OBVIOUS
      <4>1. u # t /\ owed'[u] = rest[u]
        BY <1>8, <2>1, <2>2
      <4>2. /\ <<v, "QUEUED">> \in owed[u] => Precedes(pending[r], v, u)
            /\ <<v, "RUNNING">> \in owed[u] => item[r] = v
        BY <1>8 DEF Core, OwedInv
      <4> QED BY <1>3, <1>5, <1>10, <4>1, <4>2
    <3>2. \A u \in Threads, v \in Works :
             /\ <<v, "QUEUED">> \in owed'[u] => "QUEUED" \in flags'[v]
             /\ <<v, "RUNNING">> \in owed'[u] => "RUNNING" \in flags'[v]
      BY <1>10, <2>1, <2>3
    <3> QED BY <1>5, <2>1, <2>2, <3>1, <3>2 DEF Core, OwedInv
  <2> QED BY <1>6, <1>7, <2>5, <2>6, <2>7, <2>8 DEF Core
<1> QED BY <1>11, <1>12

\* A thread flushes an item that is queued or running, or, if it was scheduled,
\* is submitted by the same call.
LEMMA FlushCore ==
    ASSUME Core, NEW t \in Threads, NEW w \in Works, NEW d \in Queues \union {NULL},
           NEW g \in SUBSET WorkFlags, NEW q, NEW s,
           "DELAYED" \in g => w \in Delayables,
           \/ /\ g \ {"DELAYED"} = flags[w] \ {"DELAYED"}
              /\ q = wqueue[w] /\ s = pending[q]
              /\ g \intersect {"QUEUED", "RUNNING"} # {}
           \/ /\ CanSubmit(NULL, d, w, flags[w] \ {"DELAYED"})
              /\ g = (flags[w] \ {"DELAYED"}) \union {"QUEUED"}
              /\ q = SubmitTo(d, w) /\ s = Append(pending[q], w),
           tpc[t] = "ready",
           flags' = [flags EXCEPT ![w] = g],
           wqueue' = [wqueue EXCEPT ![w] = q],
           pending' = [pending EXCEPT ![q] = WithFlusher(s, w, t)],
           wpc' = notify_queue_locked(q),
           Block(t, "flush", w, Instances(w, g)),
           UNCHANGED <<qflags, item>>
    PROVE  Core'
<1> USE WorkQAssumption
<1> DEFINE Facts ==
        /\ q \in Queues
        /\ s \in Seq(Works \union Threads) /\ IsInjective(s)
        /\ \A y : y \in Range(s) <=> y \in Range(pending[q]) \/ (y = w /\ "QUEUED" \in g)
        /\ \A x, y : Precedes(pending[q], x, y) => Precedes(s, x, y)
        /\ "QUEUED" \in flags[w] \/ "RUNNING" \in flags[w] => q = wqueue[w]
        /\ "QUEUED" \in flags[w] => "QUEUED" \in g
        /\ "RUNNING" \in flags[w] <=> "RUNNING" \in g
        /\ "CANCELING" \in flags[w] <=> "CANCELING" \in g
        /\ "CANCELING" \in g => "QUEUED" \notin g
        /\ "QUEUED" \in g => w \in Range(s)
        /\ "STARTED" \in qflags[q]
        /\ "PLUGGED" \in qflags[q] => "DRAIN" \in qflags[q]
<1>1. Facts
  <2>1. ASSUME g \ {"DELAYED"} = flags[w] \ {"DELAYED"},
               q = wqueue[w], s = pending[q],
               g \intersect {"QUEUED", "RUNNING"} # {}
        PROVE  Facts
    <3>1. \A x \in {"QUEUED", "RUNNING", "CANCELING"} : x \in g <=> x \in flags[w]
      BY <2>1
    <3>2. "QUEUED" \in g \/ "RUNNING" \in g
      BY <2>1
    <3>3. /\ q \in Queues
          /\ "RUNNING" \in g => item[q] = w
      BY <2>1, <3>1, <3>2 DEF Core, FlagsInv, NotReentered
    <3>4. "QUEUED" \in g <=> w \in Range(pending[q])
      BY <2>1, <3>1, <3>3 DEF Core, QueuedOnce
    <3>5. pending[q] # <<>> \/ item[q] # NULL
      <4>1. w \in Range(pending[q]) => pending[q] # <<>>
        BY DEF Range
      <4> QED BY <3>2, <3>3, <3>4, <4>1
    <3>6. /\ "STARTED" \in qflags[q]
          /\ "PLUGGED" \in qflags[q] => "DRAIN" \in qflags[q]
      BY <3>3, <3>5 DEF Core, WorkerInv, PluggedIsQuiet
    <3>7. s \in Seq(Works \union Threads) /\ IsInjective(s)
      BY <2>1, <3>3 DEF Core, CoreType, QueuedOnce
    <3>8. "CANCELING" \in g => "QUEUED" \notin g
      BY <3>1 DEF Core, FlagsInv
    <3> QED BY <2>1, <3>1, <3>3, <3>4, <3>6, <3>7, <3>8
  <2>2. ASSUME CanSubmit(NULL, d, w, flags[w] \ {"DELAYED"}),
               g = (flags[w] \ {"DELAYED"}) \union {"QUEUED"},
               q = SubmitTo(d, w), s = Append(pending[q], w)
        PROVE  Facts
    <3>1. /\ q \in Queues
          /\ "CANCELING" \notin flags[w] /\ "QUEUED" \notin flags[w]
          /\ "STARTED" \in qflags[q]
          /\ "PLUGGED" \in qflags[q] => "DRAIN" \in qflags[q]
          /\ "RUNNING" \in flags[w] => q = wqueue[w]
      BY <2>2 DEF CanSubmit, Accepts, SubmitTo, Core, CoreType
    <3>2. /\ pending[q] \in Seq(Works \union Threads) /\ IsInjective(pending[q])
          /\ w \notin Range(pending[q]) /\ w \in Works \union Threads
      BY <3>1 DEF Core, CoreType, QueuedOnce
    <3> DEFINE p == Append(pending[q], w)
    <3>3. /\ p \in Seq(Works \union Threads)
          /\ IsInjective(p)
          /\ Range(p) = Range(pending[q]) \union {w}
          /\ \A x, y : Precedes(pending[q], x, y) => Precedes(p, x, y)
      BY <3>2, AppendFacts
    <3>4. s = p
      BY <2>2
    <3> HIDE DEF p
    <3>5. /\ s \in Seq(Works \union Threads) /\ IsInjective(s)
          /\ \A y : y \in Range(s) <=> y \in Range(pending[q]) \/ y = w
          /\ \A x, y : Precedes(pending[q], x, y) => Precedes(s, x, y)
      BY <3>3, <3>4
    <3>6. /\ "QUEUED" \in g
          /\ "RUNNING" \in flags[w] <=> "RUNNING" \in g
          /\ "CANCELING" \notin g
      BY <2>2, <3>1
    <3> QED BY <3>1, <3>5, <3>6
  <2> QED BY <2>1, <2>2
<1> DEFINE n == WithFlusher(s, w, t)
<1>2. \A r \in Queues : t \notin Range(pending[r]) /\ ~(item[r] = t /\ wpc[r] = "run")
  BY DEF Core, FlusherInv
<1>3. t \notin Range(s) /\ t # w
  BY <1>1, <1>2
<1>4. /\ n \in Seq(Works \union Threads)
      /\ IsInjective(n)
      /\ Range(n) = Range(s) \union {t}
      /\ w \in Range(s) => Precedes(n, w, t)
      /\ \A x, y : Precedes(s, x, y) => Precedes(n, x, y)
  BY <1>1, <1>3, WithFlusherFacts
<1>5. /\ pending' \in [Queues -> Seq(Works \union Threads)]
      /\ pending'[q] = n
      /\ \A r \in Queues \ {q} : pending'[r] = pending[r]
  BY <1>1, <1>4 DEF Core, CoreType
<1> HIDE DEF n
<1>6. \A r \in Queues : IsInjective(pending'[r])
  BY <1>4, <1>5 DEF Core, QueuedOnce
<1>7. \A r \in Queues : \A y : y \in Range(pending'[r]) <=>
          \/ y \in Range(pending[r])
          \/ r = q /\ (y = t \/ (y = w /\ "QUEUED" \in g))
  BY <1>1, <1>4, <1>5
<1>8. \A r \in Queues : \A x, y : Precedes(pending[r], x, y) => Precedes(pending'[r], x, y)
  BY <1>1, <1>4, <1>5
<1>9. /\ flags' \in [Works -> SUBSET WorkFlags]
      /\ flags'[w] = g
      /\ \A v \in Works \ {w} : flags'[v] = flags[v]
  BY DEF Core, CoreType
<1>10. /\ wqueue' \in [Works -> Queues \union {NULL}]
       /\ wqueue'[w] = q
       /\ \A v \in Works \ {w} : wqueue'[v] = wqueue[v]
       /\ \A v \in Works : "QUEUED" \in flags[v] \/ "RUNNING" \in flags[v] => wqueue'[v] = wqueue[v]
  BY <1>1 DEF Core, CoreType
<1>11. \A v \in Works : /\ "QUEUED" \in flags'[v] <=> "QUEUED" \in flags[v] \/ (v = w /\ "QUEUED" \in g)
                        /\ "RUNNING" \in flags'[v] <=> "RUNNING" \in flags[v]
                        /\ "CANCELING" \in flags'[v] <=> "CANCELING" \in flags[v]
  BY <1>1, <1>9
<1>12. /\ wpc' \in [Queues -> {"off", "idle", "loop", "run", "finish"}]
       /\ wpc'[q] # "idle"
       /\ \A r \in Queues : /\ wpc'[r] = "idle" => wpc[r] = "idle"
                            /\ wpc'[r] \in {"off", "idle", "loop"} <=> wpc[r] \in {"off", "idle", "loop"}
                            /\ wpc'[r] = "run" <=> wpc[r] = "run"
                            /\ wpc'[r] = "finish" <=> wpc[r] = "finish"
                            /\ wpc[r] = "off" => wpc'[r] = "off"
  BY <1>1 DEF Core, CoreType, notify_queue_locked
<1>13. /\ Instances(w, g) \in SUBSET (Works \X {"QUEUED", "RUNNING"})
       /\ \A v \in Works : /\ <<v, "QUEUED">> \in Instances(w, g) => v = w /\ "QUEUED" \in g
                           /\ <<v, "RUNNING">> \in Instances(w, g) => v = w /\ "RUNNING" \in g
  BY DEF Instances
<1>14. /\ tpc'[t] = "flush" /\ target'[t] = w /\ owed'[t] = Instances(w, g)
       /\ \A u \in Threads \ {t} : tpc'[u] = tpc[u] /\ target'[u] = target[u] /\ owed'[u] = owed[u]
       /\ t \notin woken /\ woken' = woken
       /\ tpc' \in [Threads -> {"ready", "flush", "cancel", "drain"}]
       /\ target' \in [Threads -> Works \union Queues \union {NULL}]
       /\ owed' \in [Threads -> SUBSET (Works \X {"QUEUED", "RUNNING"})]
  BY <1>13 DEF Block, Core, CoreType, ReadyInv
<1>15. \A v : pending_cancels(v)' = pending_cancels(v) /\ drainq(v)' = drainq(v)
  BY <1>14 DEF pending_cancels, drainq
<1>16. CoreType' /\ FlagsInv'
  <2>1. CoreType'
    BY <1>5, <1>9, <1>10, <1>12, <1>14 DEF Core, CoreType
  <2>2. FlagsInv'
    BY <1>1, <1>9, <1>10, <1>11 DEF Core, FlagsInv
  <2> QED BY <2>1, <2>2
<1>17. QueuedOnce'
  <2> SUFFICES ASSUME NEW r \in Queues, NEW v \in Works
               PROVE  v \in Range(pending'[r]) <=> "QUEUED" \in flags'[v] /\ wqueue'[v] = r
    BY <1>6 DEF QueuedOnce
  <2>1. v \in Range(pending[r]) <=> "QUEUED" \in flags[v] /\ wqueue[v] = r
    BY DEF Core, QueuedOnce
  <2>2. v # t
    OBVIOUS
  <2> QED BY <1>1, <1>7, <1>10, <1>11, <2>1, <2>2
<1>18. NotReentered'
  BY <1>10, <1>11 DEF Core, NotReentered
<1>19. WorkerInv' /\ NoLostWakeup' /\ PluggedIsQuiet'
  BY <1>1, <1>5, <1>12 DEF Core, WorkerInv, NoLostWakeup, PluggedIsQuiet
<1>20. \A r \in Queues, u \in Threads :
          u \in Range(pending'[r]) <=> u \in Range(pending[r]) \/ (r = q /\ u = t)
  BY <1>7
<1>21. WaitersCovered'
  BY <1>1, <1>11, <1>12, <1>14, <1>15, <1>20 DEF Core, WaitersCovered
<1>22. FlusherInv'
  BY <1>1, <1>2, <1>12, <1>14, <1>20 DEF Core, FlusherInv
<1>23. ReadyInv' /\ WaitsForInstances'
  BY <1>14 DEF Core, CoreType, ReadyInv, WaitsForInstances
<1>24. OwedInv'
  <2>1. \A u \in Threads, v \in Works :
           /\ <<v, "QUEUED">> \in owed'[u] => "QUEUED" \in flags'[v]
           /\ <<v, "RUNNING">> \in owed'[u] => "RUNNING" \in flags'[v]
    <3>1. \A v \in Works : /\ <<v, "QUEUED">> \in owed'[t] => "QUEUED" \in flags'[v]
                           /\ <<v, "RUNNING">> \in owed'[t] => "RUNNING" \in flags'[v]
      <4>1. owed'[t] = Instances(w, g) /\ flags'[w] = g
        BY <1>9, <1>14
      <4> QED BY <1>13, <4>1
    <3>2. \A u \in Threads \ {t}, v \in Works :
             /\ <<v, "QUEUED">> \in owed'[u] => "QUEUED" \in flags[v]
             /\ <<v, "RUNNING">> \in owed'[u] => "RUNNING" \in flags[v]
      BY <1>14 DEF Core, OwedInv
    <3> QED BY <1>11, <3>1, <3>2
  <2>2. \A u \in Threads : tpc'[u] = "cancel" => owed'[u] \subseteq {<<target'[u], "RUNNING">>}
    BY <1>14 DEF Core, OwedInv
  <2>3. ASSUME NEW u \in Threads, NEW v \in Works, tpc'[u] = "drain",
               <<v, "QUEUED">> \in owed'[u] \/ <<v, "RUNNING">> \in owed'[u]
        PROVE  wqueue'[v] = target'[u]
    <3>1. u # t
      BY <1>14, <2>3
    <3> QED BY <1>10, <1>14, <2>3, <3>1 DEF Core, OwedInv
  <2>4. ASSUME NEW r \in Queues, NEW u \in Threads, u \in Range(pending'[r]), NEW v \in Works
        PROVE  /\ <<v, "QUEUED">> \in owed'[u] => Precedes(pending'[r], v, u)
               /\ <<v, "RUNNING">> \in owed'[u] => item'[r] = v
    <3>1. CASE u # t
      <4>1. u \in Range(pending[r]) /\ owed'[u] = owed[u]
        BY <1>14, <1>20, <2>4, <3>1
      <4>2. /\ <<v, "QUEUED">> \in owed[u] => Precedes(pending[r], v, u)
            /\ <<v, "RUNNING">> \in owed[u] => item[r] = v
        BY <4>1 DEF Core, OwedInv
      <4> QED BY <1>8, <4>1, <4>2
    <3>2. CASE u = t
      <4>1. r = q
        BY <1>2, <1>20, <2>4, <3>2
      <4>2. "RUNNING" \in g => item[q] = w
        BY <1>1 DEF Core, NotReentered
      <4> QED BY <1>1, <1>4, <1>5, <1>13, <1>14, <3>2, <4>1, <4>2
    <3> QED BY <3>1, <3>2
  <2>5. \A r \in Queues, u \in Threads : item'[r] = u /\ wpc'[r] = "run" => owed'[u] = {}
    <3>1. \A r \in Queues, u \in Threads : item'[r] = u /\ wpc'[r] = "run" => u # t /\ owed[u] = {}
      BY <1>2, <1>12 DEF Core, OwedInv
    <3> QED BY <1>14, <3>1
  <2> QED BY <2>1, <2>2, <2>3, <2>4, <2>5 DEF OwedInv
<1> QED BY <1>16, <1>17, <1>18, <1>19, <1>21, <1>22, <1>23, <1>24 DEF Core

-----------------------------------------------------------------------------
(* All the steps. *)

\* TypeOK is the type of the core and of the timeouts.
LEMMA TypeParts == TypeOK <=> CoreType /\ DelayType
BY DEF TypeOK, CoreType, DelayType

\* Every call of an outside context or a handler preserves Core.
LEMMA AsyncCallCore ==
    ASSUME Inv, NEW a, AsyncCall(a)
    PROVE  Core'
<1> USE WorkQAssumption
<1>0. Core
  BY DEF Inv
<1>1. \A w \in Works : /\ flags[w] \in SUBSET WorkFlags
                       /\ "DELAYED" \in flags[w] => w \in Delayables
  BY <1>0 DEF Core, CoreType, FlagsInv
<1>2. ASSUME NEW w \in Works, NEW q \in Queues \union {NULL}, k_work_submit_to_queue(a, q, w)
      PROVE  Core'
  <2>1. submit_to_queue_locked(a, q, w, flags[w]) /\ UNCHANGED <<qflags, item, threadVars>>
    BY <1>2 DEF k_work_submit_to_queue
  <2> QED BY <1>0, <1>1, <2>1, SubmitCore
<1>3. ASSUME NEW w \in Works, k_work_cancel(a, w) PROVE Core'
  <2>1. flags[w] = flags[w] \ {"DELAYED"}
    BY <1>1, <1>3 DEF k_work_cancel
  <2>2. /\ cancel_async_locked(w, flags[w])
        /\ owed' = IF "CANCELING" \in flags[w] THEN owed ELSE Forget(<<w, "QUEUED">>)
        /\ UNCHANGED <<wqueue, qflags, wpc, item>> /\ UNCHANGED <<tpc, target, woken>>
    BY <1>3 DEF k_work_cancel
  <2> QED BY <1>0, <2>1, <2>2, CancelCore
<1>4. ASSUME NEW w \in Delayables, NEW q \in Queues \union {NULL}, NEW a1, NEW l,
             NEW f \in SUBSET WorkFlags, f \ {"DELAYED"} = flags[w] \ {"DELAYED"},
             ScheduleNow(a1, q, w, f, l) \/ ScheduleDelayed(q, w, f, l),
             UNCHANGED threadVars
      PROVE  Core'
  <2>1. w \in Works
    OBVIOUS
  <2>2. CASE ScheduleNow(a1, q, w, f, l)
    <3>1. submit_to_queue_locked(a1, q, w, f) /\ UNCHANGED <<qflags, item, threadVars>>
      BY <1>4, <2>2 DEF ScheduleNow
    <3> QED BY <1>0, <1>4, <2>1, <3>1, SubmitCore
  <2>3. CASE ScheduleDelayed(q, w, f, l)
    <3> DEFINE g == f \union {"DELAYED"}
    <3>1. g \in SUBSET WorkFlags /\ g \ {"DELAYED"} = flags[w] \ {"DELAYED"}
      BY <1>4 DEF WorkFlags
    <3>2. /\ flags' = [flags EXCEPT ![w] = g]
          /\ UNCHANGED <<wqueue, queueVars, threadVars>>
      BY <1>4, <2>3 DEF ScheduleDelayed
    <3> HIDE DEF g
    <3> QED BY <1>0, <2>1, <3>1, <3>2, FlagsCore
  <2> QED BY <1>4, <2>2, <2>3
<1>5. ASSUME NEW w \in Delayables, NEW q \in Queues \union {NULL}, NEW nowait \in BOOLEAN,
             k_work_schedule_for_queue(a, q, w, nowait)
      PROVE  Core'
  <2>1. /\ ScheduleNow(a, q, w, flags[w], linked) \/ ScheduleDelayed(q, w, flags[w], linked)
        /\ UNCHANGED threadVars
    BY <1>5 DEF k_work_schedule_for_queue
  <2> QED BY <1>1, <1>4, <2>1
<1>6. ASSUME NEW w \in Delayables, NEW q \in Queues \union {NULL}, NEW nowait \in BOOLEAN,
             k_work_reschedule_for_queue(a, q, w, nowait)
      PROVE  Core'
  <2> DEFINE f == flags[w] \ {"DELAYED"}
  <2>1. /\ \/ ScheduleNow(a, q, w, f, UnscheduleLinked(w))
           \/ ScheduleDelayed(q, w, f, UnscheduleLinked(w))
        /\ UNCHANGED threadVars
    BY <1>6 DEF k_work_reschedule_for_queue, UnscheduleFlags
  <2>2. f \in SUBSET WorkFlags /\ f \ {"DELAYED"} = flags[w] \ {"DELAYED"}
    BY <1>1
  <2> HIDE DEF f
  <2> QED BY <1>4, <2>1, <2>2
<1>7. ASSUME NEW w \in Delayables, k_work_cancel_delayable(a, w) PROVE Core'
  <2>1. /\ cancel_async_locked(w, flags[w] \ {"DELAYED"})
        /\ owed' = IF "CANCELING" \in flags[w] THEN owed ELSE Forget(<<w, "QUEUED">>)
        /\ UNCHANGED <<wqueue, qflags, wpc, item>> /\ UNCHANGED <<tpc, target, woken>>
    BY <1>7 DEF k_work_cancel_delayable, UnscheduleFlags
  <2> QED BY <1>0, <2>1, CancelCore
<1> QED BY <1>2, <1>3, <1>5, <1>6, <1>7 DEF AsyncCall

\* Every call that waits preserves Core.
LEMMA SyncCallCore ==
    ASSUME Inv, NEW t \in Threads, SyncCall(t)
    PROVE  Core'
<1> USE WorkQAssumption
<1>0. Core
  BY DEF Inv
<1>1. \A w \in Works : /\ flags[w] \in SUBSET WorkFlags
                       /\ "DELAYED" \in flags[w] => w \in Delayables
  BY <1>0 DEF Core, CoreType, FlagsInv
<1>2. ASSUME NEW w \in Works, CancelSync(t, w, flags[w] \ {"DELAYED"})
      PROVE  Core'
  <2> DEFINE f    == flags[w] \ {"DELAYED"}
             rest == IF "CANCELING" \in flags[w] THEN owed ELSE Forget(<<w, "QUEUED">>)
  <2>1. /\ tpc[t] = "ready" /\ cancel_async_locked(w, f)
        /\ UNCHANGED <<wqueue, qflags, wpc, item>>
        /\ \/ /\ "CANCELING" \in CancelFlags(f)
              /\ tpc' = [tpc EXCEPT ![t] = "cancel"]
              /\ target' = [target EXCEPT ![t] = w]
              /\ woken' = woken \ {t}
              /\ owed' = [rest EXCEPT ![t] = {<<w, "RUNNING">>}]
           \/ owed' = rest /\ UNCHANGED <<tpc, target, woken>>
    BY <1>2 DEF CancelSync
  <2>2. f = flags[w] \ {"DELAYED"}
    OBVIOUS
  <2>3. rest = IF "CANCELING" \in flags[w] THEN owed ELSE Forget(<<w, "QUEUED">>)
    OBVIOUS
  <2> HIDE DEF f, rest
  <2> QED BY <1>0, <2>1, <2>2, <2>3, CancelCore
<1>3. ASSUME NEW w \in Works, k_work_cancel_sync(t, w) PROVE Core'
  <2>1. flags[w] = flags[w] \ {"DELAYED"}
    BY <1>1, <1>3 DEF k_work_cancel_sync
  <2>2. CancelSync(t, w, flags[w])
    BY <1>3 DEF k_work_cancel_sync
  <2> QED BY <1>2, <2>1, <2>2
<1>4. ASSUME NEW w \in Delayables, k_work_cancel_delayable_sync(t, w) PROVE Core'
  BY <1>2, <1>4 DEF k_work_cancel_delayable_sync, UnscheduleFlags
<1>5. ASSUME NEW w \in Works, k_work_flush(t, w) PROVE Core'
  <2>1. /\ tpc[t] = "ready"
        /\ flags[w] \intersect {"QUEUED", "RUNNING"} # {}
        /\ pending' = [pending EXCEPT ![wqueue[w]] = WithFlusher(pending[wqueue[w]], w, t)]
        /\ wpc' = notify_queue_locked(wqueue[w])
        /\ Block(t, "flush", w, Instances(w, flags[w]))
        /\ UNCHANGED <<qflags, item>>
    BY <1>5 DEF k_work_flush
  <2>2. flags' = [flags EXCEPT ![w] = flags[w]] /\ wqueue' = [wqueue EXCEPT ![w] = wqueue[w]]
    BY <1>0, <1>5 DEF k_work_flush, workVars, Core, CoreType
  <2> QED BY <1>0, <1>1, <2>1, <2>2, FlushCore
<1>6. ASSUME NEW w \in Delayables, k_work_flush_delayable(t, w) PROVE Core'
  <2> DEFINE f     == flags[w] \ {"DELAYED"}
             again == "DELAYED" \in flags[w] /\ CanSubmit(NULL, dqueue[w], w, f)
             g     == IF again THEN f \union {"QUEUED"} ELSE f
             q     == IF again THEN SubmitTo(dqueue[w], w) ELSE wqueue[w]
             wait  == g \intersect {"QUEUED", "RUNNING"} # {}
             s     == IF again THEN Append(pending[q], w) ELSE pending[q]
  <2>1. /\ tpc[t] = "ready"
        /\ flags' = [flags EXCEPT ![w] = g]
        /\ IF wait
           THEN /\ wqueue' = [wqueue EXCEPT ![w] = q]
                /\ pending' = [pending EXCEPT ![q] = WithFlusher(s, w, t)]
                /\ wpc' = notify_queue_locked(q)
                /\ Block(t, "flush", w, Instances(w, g))
           ELSE UNCHANGED <<wqueue, pending, wpc, threadVars>>
        /\ UNCHANGED <<qflags, item>>
    BY <1>6 DEF k_work_flush_delayable, UnscheduleFlags
  <2>2. g \in SUBSET WorkFlags /\ "DELAYED" \notin g /\ w \in Works
    BY <1>1 DEF WorkFlags
  <2>3. dqueue[w] \in Queues \union {NULL}
    BY DEF Inv, DelayType
  <2>4. CASE wait
    <3>1. \/ /\ g \ {"DELAYED"} = flags[w] \ {"DELAYED"}
             /\ q = wqueue[w] /\ s = pending[q]
             /\ g \intersect {"QUEUED", "RUNNING"} # {}
          \/ /\ CanSubmit(NULL, dqueue[w], w, flags[w] \ {"DELAYED"})
             /\ g = (flags[w] \ {"DELAYED"}) \union {"QUEUED"}
             /\ q = SubmitTo(dqueue[w], w) /\ s = Append(pending[q], w)
      <4>1. CASE again
        BY <4>1
      <4>2. CASE ~again
        BY <2>4, <4>2
      <4> QED BY <4>1, <4>2
    <3>2. /\ wqueue' = [wqueue EXCEPT ![w] = q]
          /\ pending' = [pending EXCEPT ![q] = WithFlusher(s, w, t)]
          /\ wpc' = notify_queue_locked(q)
          /\ Block(t, "flush", w, Instances(w, g))
      BY <2>1, <2>4
    <3> HIDE DEF g, q, s
    <3> QED BY <1>0, <2>1, <2>2, <2>3, <3>1, <3>2, FlushCore
  <2>5. CASE ~wait
    <3>1. g \ {"DELAYED"} = flags[w] \ {"DELAYED"}
      BY <2>5
    <3>2. UNCHANGED <<wqueue, queueVars, threadVars>>
      BY <2>1, <2>5 DEF queueVars
    <3> HIDE DEF g
    <3> QED BY <1>0, <2>1, <2>2, <3>1, <3>2, FlagsCore
  <2> QED BY <2>4, <2>5
<1>7. ASSUME NEW q \in Queues, NEW plug \in BOOLEAN, k_work_queue_drain(t, q, plug) PROVE Core'
  BY <1>0, <1>7, DrainCore
<1> QED BY <1>3, <1>4, <1>5, <1>6, <1>7 DEF SyncCall

\* Every step preserves Core.
LEMMA CoreStep ==
    ASSUME Inv, [Next]_vars
    PROVE  Core'
<1> USE WorkQAssumption
<1>0. Core
  BY DEF Inv
<1>1. CASE UNCHANGED vars
  <2>1. UNCHANGED <<workVars, queueVars, threadVars>>
    BY <1>1 DEF vars, workVars, queueVars, threadVars
  <2> QED BY <1>0, <2>1, IdleCore
<1>2. ASSUME NEW q \in Queues, Worker(q) PROVE Core'
  BY <1>0, <1>2, TakeCore, WaitForWorkCore, HandleFlushCore, FinishCore DEF Worker
<1>3. ASSUME NEW q \in Queues, k_work_queue_start(q) PROVE Core'
  BY <1>0, <1>3, StartCore
<1>4. ASSUME NEW q \in Queues, k_work_queue_unplug(q) PROVE Core'
  BY <1>0, <1>4, UnplugCore
<1>5. ASSUME NEW t \in Threads, Return(t) PROVE Core'
  BY <1>0, <1>5, ReturnCore
<1>6. ASSUME NEW w \in Delayables, Expire(w) PROVE Core'
  <2>1. UNCHANGED <<workVars, queueVars, threadVars>>
    BY <1>6 DEF Expire
  <2> QED BY <1>0, <2>1, IdleCore
<1>7. ASSUME NEW w \in Delayables, work_timeout(w) PROVE Core'
  <2>1. CASE "DELAYED" \in flags[w]
    <3> DEFINE f == flags[w] \ {"DELAYED"}
    <3>1. submit_to_queue_locked(NULL, dqueue[w], w, f) /\ UNCHANGED <<qflags, item, threadVars>>
      BY <1>7, <2>1 DEF work_timeout
    <3>2. /\ f \in SUBSET WorkFlags /\ f \ {"DELAYED"} = flags[w] \ {"DELAYED"}
          /\ "DELAYED" \notin f /\ w \in Works
          /\ dqueue[w] \in Queues \union {NULL}
      BY <1>0 DEF Core, CoreType, Inv, DelayType
    <3> HIDE DEF f
    <3> QED BY <1>0, <3>1, <3>2, SubmitCore
  <2>2. CASE "DELAYED" \notin flags[w]
    <3>1. UNCHANGED <<workVars, queueVars, threadVars>>
      BY <1>7, <2>2 DEF work_timeout, queueVars
    <3> QED BY <1>0, <3>1, IdleCore
  <2> QED BY <2>1, <2>2
<1> QED BY <1>1, <1>2, <1>3, <1>4, <1>5, <1>6, <1>7, AsyncCallCore, SyncCallCore DEF Next

-----------------------------------------------------------------------------
(* Timeouts. *)

\* Submitting an item leaves its DELAYED flag as the caller passed it.
LEMMA SubmitFlags ==
    ASSUME CoreType, NEW w \in Works, NEW q, NEW a, NEW f, submit_to_queue_locked(a, q, w, f)
    PROVE  /\ \A v \in Works \ {w} : flags'[v] = flags[v]
           /\ "DELAYED" \in flags'[w] <=> "DELAYED" \in f
BY DEF submit_to_queue_locked, CoreType

\* Cancelling an item does not set its DELAYED flag.
LEMMA CancelledFlags ==
    ASSUME CoreType, NEW w \in Works, NEW f, cancel_async_locked(w, f), "DELAYED" \notin f
    PROVE  /\ \A v \in Works \ {w} : flags'[v] = flags[v]
           /\ "DELAYED" \notin flags'[w]
BY DEF cancel_async_locked, CancelFlags, CoreType

\* How a step changes the DELAYED flags and the timeouts: not at all, for one
\* item whose flag is cleared, for one that is armed, or by an expiry.
LEMMA DelayEffect ==
    ASSUME Inv, [Next]_vars
    PROVE  \/ /\ UNCHANGED delayVars
              /\ \A v \in Delayables : "DELAYED" \in flags'[v] <=> "DELAYED" \in flags[v]
           \/ /\ NoCallback
              /\ \E w \in Delayables :
                    /\ \A v \in Delayables \ {w} : flags'[v] = flags[v]
                    /\ firing' = firing
                    /\ \/ /\ "DELAYED" \notin flags'[w]
                          /\ linked' = UnscheduleLinked(w)
                          /\ UNCHANGED <<dqueue, asserted>>
                       \/ /\ "DELAYED" \in flags'[w]
                          /\ \E q \in Queues \union {NULL}, l \in {linked, UnscheduleLinked(w)} :
                                /\ l = UnscheduleLinked(w) \/ "DELAYED" \notin flags[w]
                                /\ dqueue' = [dqueue EXCEPT ![w] = q]
                                /\ linked' = l \union {w}
                                /\ asserted' = (asserted \/ w \in l)
           \/ \E w \in Delayables : Expire(w)
           \/ \E w \in Delayables :
                 /\ firing[w] > 0 /\ firing' = [firing EXCEPT ![w] = @ - 1]
                 /\ "DELAYED" \notin flags'[w]
                 /\ \A v \in Delayables \ {w} : flags'[v] = flags[v]
                 /\ UNCHANGED <<dqueue, linked, asserted>>
<1> USE WorkQAssumption
<1> DEFINE Same == /\ UNCHANGED delayVars
                   /\ \A v \in Delayables : "DELAYED" \in flags'[v] <=> "DELAYED" \in flags[v]
           Cleared(w) == /\ NoCallback
                         /\ \A v \in Delayables \ {w} : flags'[v] = flags[v]
                         /\ firing' = firing
                         /\ "DELAYED" \notin flags'[w]
                         /\ linked' = UnscheduleLinked(w)
                         /\ UNCHANGED <<dqueue, asserted>>
           Armed(w) == /\ NoCallback
                       /\ \A v \in Delayables \ {w} : flags'[v] = flags[v]
                       /\ firing' = firing
                       /\ "DELAYED" \in flags'[w]
                       /\ \E q \in Queues \union {NULL}, l \in {linked, UnscheduleLinked(w)} :
                             /\ l = UnscheduleLinked(w) \/ "DELAYED" \notin flags[w]
                             /\ dqueue' = [dqueue EXCEPT ![w] = q]
                             /\ linked' = l \union {w}
                             /\ asserted' = (asserted \/ w \in l)
           Fired(w) == /\ firing[w] > 0 /\ firing' = [firing EXCEPT ![w] = @ - 1]
                       /\ "DELAYED" \notin flags'[w]
                       /\ \A v \in Delayables \ {w} : flags'[v] = flags[v]
                       /\ UNCHANGED <<dqueue, linked, asserted>>
           Effect == \/ Same
                     \/ \E w \in Delayables : Cleared(w) \/ Armed(w) \/ Expire(w) \/ Fired(w)
<1>0. CoreType /\ FlagsInv /\ QueuedOnce
  BY DEF Inv, Core
<1>1. Effect
  <2>1. CASE UNCHANGED vars
    BY <2>1 DEF vars, delayVars
  <2>2. ASSUME NEW q \in Queues, Worker(q) PROVE Same
    <3>1. CASE TakeItem(q)
      <4>1. UNCHANGED delayVars
        BY <3>1 DEF TakeItem
      <4>2. CASE flags' = flags
        BY <4>1, <4>2
      <4>3. ASSUME NEW w \in Works,
                   flags' = [flags EXCEPT ![w] = (@ \ {"QUEUED"}) \union {"RUNNING"}]
            PROVE  Same
        <5>1. \A v \in Works : "DELAYED" \in flags'[v] <=> "DELAYED" \in flags[v]
          BY <1>0, <4>3 DEF CoreType
        <5> QED BY <4>1, <5>1
      <4> QED BY <3>1, <4>2, <4>3 DEF TakeItem
    <3>2. CASE WaitForWork(q) \/ handle_flush(q)
      BY <3>2 DEF WaitForWork, handle_flush, workVars
    <3>3. CASE FinishItem(q)
      <4>1. UNCHANGED delayVars
        BY <3>3 DEF FinishItem
      <4>2. CASE flags' = flags
        BY <4>1, <4>2
      <4>3. ASSUME NEW w \in Works,
                   flags' = [flags EXCEPT ![w] = @ \ {"RUNNING", "CANCELING"}]
            PROVE  Same
        <5>1. \A v \in Works : "DELAYED" \in flags'[v] <=> "DELAYED" \in flags[v]
          BY <1>0, <4>3 DEF CoreType
        <5> QED BY <4>1, <5>1
      <4> QED BY <3>3, <4>2, <4>3 DEF FinishItem
    <3> QED BY <2>2, <3>1, <3>2, <3>3 DEF Worker
  <2>3. ASSUME NEW q \in Queues, k_work_queue_start(q) \/ k_work_queue_unplug(q) PROVE Same
    BY <2>3 DEF k_work_queue_start, k_work_queue_unplug, workVars
  <2>4. ASSUME NEW a, AsyncCall(a) PROVE Effect
    <3>1. ASSUME NEW w \in Works, NEW q \in Queues \union {NULL}, k_work_submit_to_queue(a, q, w)
          PROVE  Same
      <4>1. submit_to_queue_locked(a, q, w, flags[w]) /\ UNCHANGED delayVars
        BY <3>1 DEF k_work_submit_to_queue
      <4> QED BY <1>0, <4>1, SubmitFlags
    <3>2. ASSUME NEW w \in Works, k_work_cancel(a, w) PROVE Same
      <4>1. cancel_async_locked(w, flags[w]) /\ UNCHANGED delayVars /\ w \notin Delayables
        BY <3>2 DEF k_work_cancel
      <4>2. "DELAYED" \notin flags[w]
        BY <1>0, <4>1 DEF FlagsInv
      <4> QED BY <1>0, <4>1, <4>2, CancelledFlags
    <3>3. ASSUME NEW w \in Delayables, NEW q \in Queues \union {NULL}, NEW nowait \in BOOLEAN,
                 k_work_schedule_for_queue(a, q, w, nowait)
          PROVE  Cleared(w) \/ Armed(w)
      <4>1. NoCallback /\ "DELAYED" \notin flags[w]
        BY <3>3 DEF k_work_schedule_for_queue
      <4>2. CASE ScheduleNow(a, q, w, flags[w], linked)
        <5>1. submit_to_queue_locked(a, q, w, flags[w])
          BY <4>2 DEF ScheduleNow
        <5> QED BY <1>0, <4>1, <4>2, <5>1, SubmitFlags DEF ScheduleNow, UnscheduleLinked
      <4>3. CASE ScheduleDelayed(q, w, flags[w], linked)
        BY <1>0, <4>1, <4>3 DEF ScheduleDelayed, CoreType
      <4> QED BY <3>3, <4>2, <4>3 DEF k_work_schedule_for_queue
    <3>4. ASSUME NEW w \in Delayables, NEW q \in Queues \union {NULL}, NEW nowait \in BOOLEAN,
                 k_work_reschedule_for_queue(a, q, w, nowait)
          PROVE  Cleared(w) \/ Armed(w)
      <4> DEFINE f == UnscheduleFlags(w)
                 l == UnscheduleLinked(w)
      <4>1. NoCallback /\ "DELAYED" \notin f
        BY <3>4 DEF k_work_reschedule_for_queue, UnscheduleFlags
      <4>2. CASE ScheduleNow(a, q, w, f, l)
        <5>1. submit_to_queue_locked(a, q, w, f)
          BY <4>2 DEF ScheduleNow
        <5> HIDE DEF f
        <5> QED BY <1>0, <4>1, <4>2, <5>1, SubmitFlags DEF ScheduleNow
      <4>3. CASE ScheduleDelayed(q, w, f, l)
        <5> HIDE DEF f
        <5> QED BY <1>0, <4>1, <4>3 DEF ScheduleDelayed, CoreType
      <4> QED BY <3>4, <4>2, <4>3 DEF k_work_reschedule_for_queue
    <3>5. ASSUME NEW w \in Delayables, k_work_cancel_delayable(a, w) PROVE Cleared(w)
      <4>1. cancel_async_locked(w, UnscheduleFlags(w)) /\ "DELAYED" \notin UnscheduleFlags(w)
        BY <3>5 DEF k_work_cancel_delayable, UnscheduleFlags
      <4> QED BY <1>0, <3>5, <4>1, CancelledFlags DEF k_work_cancel_delayable
    <3> QED BY <2>4, <3>1, <3>2, <3>3, <3>4, <3>5 DEF AsyncCall
  <2>5. ASSUME NEW t \in Threads, SyncCall(t) PROVE Effect
    <3>1. ASSUME NEW w \in Works, k_work_cancel_sync(t, w) PROVE Same
      <4>1. cancel_async_locked(w, flags[w]) /\ UNCHANGED delayVars /\ w \notin Delayables
        BY <3>1 DEF k_work_cancel_sync, CancelSync
      <4>2. "DELAYED" \notin flags[w]
        BY <1>0, <4>1 DEF FlagsInv
      <4> QED BY <1>0, <4>1, <4>2, CancelledFlags
    <3>2. ASSUME NEW w \in Works, k_work_flush(t, w) PROVE Same
      BY <3>2 DEF k_work_flush, workVars
    <3>3. ASSUME NEW w \in Delayables, k_work_cancel_delayable_sync(t, w) PROVE Cleared(w)
      <4>1. cancel_async_locked(w, UnscheduleFlags(w)) /\ "DELAYED" \notin UnscheduleFlags(w)
        BY <3>3 DEF k_work_cancel_delayable_sync, CancelSync, UnscheduleFlags
      <4> QED BY <1>0, <3>3, <4>1, CancelledFlags DEF k_work_cancel_delayable_sync, CancelSync
    <3>4. ASSUME NEW w \in Delayables, k_work_flush_delayable(t, w) PROVE Cleared(w)
      <4> DEFINE f == flags[w] \ {"DELAYED"}
                 g == IF "DELAYED" \in flags[w] /\ CanSubmit(NULL, dqueue[w], w, f)
                      THEN f \union {"QUEUED"} ELSE f
      <4>1. flags' = [flags EXCEPT ![w] = g] /\ "DELAYED" \notin g
        BY <3>4 DEF k_work_flush_delayable, UnscheduleFlags
      <4> HIDE DEF g
      <4>2. /\ NoCallback /\ linked' = UnscheduleLinked(w)
            /\ UNCHANGED <<dqueue, firing, asserted>>
        BY <3>4 DEF k_work_flush_delayable
      <4> QED BY <1>0, <4>1, <4>2 DEF CoreType
    <3>5. ASSUME NEW q \in Queues, NEW plug \in BOOLEAN, k_work_queue_drain(t, q, plug) PROVE Same
      BY <3>5 DEF k_work_queue_drain, workVars
    <3> QED BY <2>5, <3>1, <3>2, <3>3, <3>4, <3>5 DEF SyncCall
  <2>6. ASSUME NEW t \in Threads, Return(t) PROVE Same
    BY <2>6 DEF Return, workVars
  <2>7. ASSUME NEW w \in Delayables, work_timeout(w) PROVE Fired(w)
    <3>1. CASE "DELAYED" \in flags[w]
      <4> DEFINE f == flags[w] \ {"DELAYED"}
      <4>1. submit_to_queue_locked(NULL, dqueue[w], w, f) /\ "DELAYED" \notin f
        BY <2>7, <3>1 DEF work_timeout
      <4> HIDE DEF f
      <4> QED BY <1>0, <2>7, <4>1, SubmitFlags DEF work_timeout
    <3>2. CASE "DELAYED" \notin flags[w]
      BY <2>7, <3>2 DEF work_timeout, workVars
    <3> QED BY <3>1, <3>2
  <2> QED BY <2>1, <2>2, <2>3, <2>4, <2>5, <2>6, <2>7 DEF Next
<1> QED BY <1>1

\* Every step preserves DelayType and DelayedIsArmed.
LEMMA DelayStep ==
    ASSUME Inv, [Next]_vars
    PROVE  DelayType' /\ DelayedIsArmed'
<1> USE WorkQAssumption
<1>1. CASE /\ UNCHANGED delayVars
           /\ \A v \in Delayables : "DELAYED" \in flags'[v] <=> "DELAYED" \in flags[v]
  BY <1>1 DEF Inv, DelayType, DelayedIsArmed, delayVars
<1>2. ASSUME NEW w \in Delayables,
             \A v \in Delayables \ {w} : flags'[v] = flags[v],
             firing' = firing,
             "DELAYED" \notin flags'[w],
             linked' = UnscheduleLinked(w),
             UNCHANGED <<dqueue, asserted>>
      PROVE  DelayType' /\ DelayedIsArmed'
  BY <1>2 DEF Inv, DelayType, DelayedIsArmed, UnscheduleLinked
<1>3. ASSUME NEW w \in Delayables, NEW q \in Queues \union {NULL},
             NEW l \in {linked, UnscheduleLinked(w)},
             \A v \in Delayables \ {w} : flags'[v] = flags[v],
             firing' = firing,
             dqueue' = [dqueue EXCEPT ![w] = q],
             linked' = l \union {w},
             asserted' = (asserted \/ w \in l)
      PROVE  DelayType' /\ DelayedIsArmed'
  <2>1. l \subseteq linked /\ \A v \in Delayables \ {w} : v \in linked => v \in l
    BY <1>3 DEF UnscheduleLinked
  <2>2. DelayType'
    BY <1>3, <2>1 DEF Inv, DelayType
  <2>3. DelayedIsArmed'
    BY <1>3, <2>1 DEF Inv, DelayedIsArmed
  <2> QED BY <2>2, <2>3
<1>4. ASSUME NEW w \in Delayables, Expire(w) PROVE DelayType' /\ DelayedIsArmed'
  <2>1. /\ UNCHANGED <<flags, dqueue, asserted>>
        /\ linked' = linked \ {w} /\ firing[w] \in 0..CPUs /\ firing[w] < CPUs
        /\ firing' = [firing EXCEPT ![w] = @ + 1]
    BY <1>4 DEF Expire, workVars, Inv, DelayType
  <2>2. DelayType'
    BY <2>1 DEF Inv, DelayType
  <2>3. DelayedIsArmed'
    BY <2>1 DEF Inv, DelayType, DelayedIsArmed
  <2> QED BY <2>2, <2>3
<1>5. ASSUME NEW w \in Delayables,
             firing[w] > 0, firing' = [firing EXCEPT ![w] = @ - 1],
             "DELAYED" \notin flags'[w],
             \A v \in Delayables \ {w} : flags'[v] = flags[v],
             UNCHANGED <<dqueue, linked, asserted>>
      PROVE  DelayType' /\ DelayedIsArmed'
  BY <1>5 DEF Inv, DelayType, DelayedIsArmed
<1> QED BY <1>1, <1>2, <1>3, <1>4, <1>5, DelayEffect

-----------------------------------------------------------------------------
(* The theorems. *)

\* The invariant holds throughout: initially nothing is queued, running or
\* waited for, and CoreStep and DelayStep cover every call of work.c.
THEOREM InvAlways == Spec => []Inv
<1>1. Init => Inv
  <2> SUFFICES ASSUME Init PROVE Inv
    OBVIOUS
  <2> USE WorkQAssumption DEF Init
  <2>1. CoreType /\ DelayType
    <3>1. <<>> \in Seq(Works \union Threads)
      BY EmptySeq
    <3>2. pending \in [Queues -> Seq(Works \union Threads)]
      BY <3>1
    <3>3. DelayType
      <4>1. 0 \in 0..CPUs
        OBVIOUS
      <4>2. firing \in [Delayables -> 0..CPUs]
        BY <4>1
      <4>3. asserted \in BOOLEAN
        OBVIOUS
      <4> QED BY <4>2, <4>3 DEF DelayType
    <3> QED BY <3>2, <3>3 DEF CoreType
  <2>2. FlagsInv /\ NotReentered /\ WorkerInv /\ NoLostWakeup /\ PluggedIsQuiet
    BY DEF FlagsInv, NotReentered, WorkerInv, NoLostWakeup, PluggedIsQuiet
  <2>3. \A q \in Queues : Range(pending[q]) = {} /\ IsInjective(pending[q])
    BY DEF Range, IsInjective
  <2>4. QueuedOnce /\ FlusherInv /\ ReadyInv
    BY <2>3 DEF QueuedOnce, FlusherInv, ReadyInv
  <2>5. WaitersCovered /\ OwedInv /\ WaitsForInstances /\ DelayedIsArmed
    BY DEF WaitersCovered, OwedInv, WaitsForInstances, DelayedIsArmed, pending_cancels, drainq
  <2> QED BY <2>1, <2>2, <2>4, <2>5 DEF Inv, Core
<1>2. Inv /\ [Next]_vars => Inv'
  BY CoreStep, DelayStep DEF Inv
<1> QED BY <1>1, <1>2, PTL DEF Spec

\* The variables keep their types.
THEOREM WorkQTypes == Spec => []TypeOK
<1>1. Inv => TypeOK
  BY TypeParts DEF Inv, Core
<1> QED BY <1>1, InvAlways, PTL

\* The QUEUED flag, the queue pointer and the lists agree, whatever calls
\* submit, cancel, flush and schedule the item.
THEOREM ItemsQueuedOnce == Spec => []QueuedOnce
<1>1. Inv => QueuedOnce
  BY DEF Inv, Core
<1> QED BY <1>1, InvAlways, PTL

\* No handler is re-entered, on the same queue or on another.
THEOREM HandlersNotReentered == Spec => []NotReentered
<1>1. Inv => NotReentered
  BY DEF Inv, Core
<1> QED BY <1>1, InvAlways, PTL

\* A queue thread that sleeps has no work and no drain to end.
THEOREM NoWakeupLost == Spec => []NoLostWakeup
<1>1. Inv => NoLostWakeup
  BY DEF Inv, Core
<1> QED BY <1>1, InvAlways, PTL

\* A waiting thread is where finalize_cancel_locked(), handle_flush() or the end
\* of a drain will find it.
THEOREM WaitersAreCovered == Spec => []WaitersCovered
<1>1. Inv => WaitersCovered
  BY DEF Inv, Core
<1> QED BY <1>1, InvAlways, PTL

\* Flush, cancel_sync and drain wait for each instance they found.
THEOREM CallsWaitForInstances == Spec => []WaitsForInstances
<1>1. Inv => WaitsForInstances
  BY DEF Inv, Core
<1> QED BY <1>1, InvAlways, PTL

\* A plugged queue that was drained stays quiet.
THEOREM PluggedStaysQuiet == Spec => []PluggedIsQuiet
<1>1. Inv => PluggedIsQuiet
  BY DEF Inv, Core
<1> QED BY <1>1, InvAlways, PTL

\* However late work_timeout() is, an item that is flagged as delayed will be
\* submitted by a timeout that is linked or under way.
THEOREM DelayedStaysArmed == Spec => []DelayedIsArmed
<1>1. Inv => DelayedIsArmed
  BY DEF Inv
<1> QED BY <1>1, InvAlways, PTL

\* A canceller is released in the step in which its item becomes idle.
THEOREM CancelEndsIdle == Spec => CancelLeavesIdle
<1> USE WorkQAssumption
<1> DEFINE Idle == \A t \in Threads : tpc[t] = "cancel" /\ t \notin woken /\ t \in woken'
                                        => flags'[target[t]] \subseteq {"DELAYED"}
<1>1. ASSUME Inv, [Next]_vars PROVE [Idle]_vars
  <2> SUFFICES ASSUME NEW t \in Threads, tpc[t] = "cancel", t \notin woken, t \in woken', Next
               PROVE  flags'[target[t]] \subseteq {"DELAYED"}
    BY <1>1
  <2>0. Core
    BY <1>1 DEF Inv
  <2>1. ASSUME NEW q \in Queues, FinishItem(q) PROVE flags'[target[t]] \subseteq {"DELAYED"}
    <3>1. item[q] \in Works
      BY <2>1 DEF FinishItem
    <3>2. PICK w \in Works : item[q] = w
      BY <3>1
    <3>3. /\ flags' = [flags EXCEPT ![w] = @ \ {"RUNNING", "CANCELING"}]
          /\ "CANCELING" \in flags[w] /\ t \in pending_cancels(w)
      BY <2>1, <3>2 DEF FinishItem
    <3>4. target[t] = w /\ flags'[w] = flags[w] \ {"RUNNING", "CANCELING"}
      BY <2>0, <3>3 DEF pending_cancels, Core, CoreType
    <3>5. "QUEUED" \notin flags[w] /\ flags[w] \subseteq WorkFlags
      BY <2>0, <3>3 DEF Core, CoreType, FlagsInv
    <3> QED BY <3>4, <3>5 DEF WorkFlags
  <2>2. ASSUME NEW q \in Queues, TakeItem(q) \/ WaitForWork(q) \/ handle_flush(q) PROVE FALSE
    <3>1. ~TakeItem(q)
      BY DEF TakeItem
    <3>2. ~WaitForWork(q)
      BY DEF WaitForWork, drainq
    <3>3. ~handle_flush(q)
      BY <2>0 DEF handle_flush, Core, FlusherInv
    <3> QED BY <2>2, <3>1, <3>2, <3>3
  <2>3. ASSUME NEW q \in Queues, k_work_queue_start(q) \/ k_work_queue_unplug(q) PROVE FALSE
    BY <2>3 DEF k_work_queue_start, k_work_queue_unplug, threadVars
  <2>4. ASSUME NEW a, AsyncCall(a) PROVE FALSE
    BY <2>4 DEF AsyncCall, k_work_submit_to_queue, k_work_cancel, k_work_schedule_for_queue,
                k_work_reschedule_for_queue, k_work_cancel_delayable, threadVars
  <2>5. ASSUME NEW u \in Threads, SyncCall(u) \/ Return(u) PROVE FALSE
    <3>1. woken' \subseteq woken
      <4>1. CASE Return(u)
        BY <4>1 DEF Return
      <4>2. ASSUME NEW w \in Works, NEW f, CancelSync(u, w, f) PROVE woken' \subseteq woken
        BY <4>2 DEF CancelSync
      <4>3. ASSUME NEW call, NEW x, NEW insts, Block(u, call, x, insts) PROVE woken' \subseteq woken
        BY <4>3 DEF Block
      <4>4. ASSUME NEW w \in Works, k_work_cancel_sync(u, w) \/ k_work_flush(u, w)
            PROVE  woken' \subseteq woken
        BY <4>2, <4>3, <4>4 DEF k_work_cancel_sync, k_work_flush
      <4>5. ASSUME NEW w \in Delayables, k_work_cancel_delayable_sync(u, w)
            PROVE  woken' \subseteq woken
        BY <4>2, <4>5 DEF k_work_cancel_delayable_sync
      <4>6. ASSUME NEW w \in Delayables, k_work_flush_delayable(u, w)
            PROVE  woken' \subseteq woken
        BY <4>6 DEF k_work_flush_delayable, Block, threadVars
      <4>7. ASSUME NEW q \in Queues, NEW plug \in BOOLEAN, k_work_queue_drain(u, q, plug)
            PROVE  woken' \subseteq woken
        BY <4>3, <4>7 DEF k_work_queue_drain
      <4> QED BY <2>5, <4>1, <4>4, <4>5, <4>6, <4>7 DEF SyncCall
    <3> QED BY <3>1
  <2>6. ASSUME NEW w \in Delayables, Expire(w) \/ work_timeout(w) PROVE FALSE
    BY <2>6 DEF Expire, work_timeout, threadVars
  <2> QED BY <2>1, <2>2, <2>3, <2>4, <2>5, <2>6 DEF Next, Worker
<1>2. Inv /\ [Next]_vars => [Idle]_vars
  BY <1>1
<1> QED BY <1>2, InvAlways, PTL DEF Spec, CancelLeavesIdle

\* On one CPU, while a callback is on its way its timeout is not linked.
FiringInv ==
    \A w \in Delayables : firing[w] > 0 => w \notin linked

\* On one CPU the DELAYED flag and the timeout agree, and so no timeout is
\* added twice.  (On two CPUs that is false: see NoDoubleAdd.)
THEOREM DelayedIffArmedUP ==
    ASSUME CPUs = 1
    PROVE  Spec => []DelayedIffArmed
<1> USE WorkQAssumption
<1>1. Init => DelayedIffArmed /\ FiringInv
  BY DEF Init, DelayedIffArmed, FiringInv
<1>2. ASSUME Inv, DelayedIffArmed, FiringInv, [Next]_vars
      PROVE  DelayedIffArmed' /\ FiringInv'
  <2>0. DelayType
    BY <1>2 DEF Inv
  <2>1. NoCallback => \A w \in Delayables : firing[w] = 0
    BY DEF NoCallback
  <2>2. CASE /\ UNCHANGED delayVars
             /\ \A v \in Delayables : "DELAYED" \in flags'[v] <=> "DELAYED" \in flags[v]
    BY <1>2, <2>2 DEF DelayedIffArmed, FiringInv, delayVars
  <2>3. ASSUME NEW w \in Delayables, NoCallback,
               \A v \in Delayables \ {w} : flags'[v] = flags[v],
               firing' = firing,
               "DELAYED" \notin flags'[w],
               linked' = UnscheduleLinked(w),
               UNCHANGED <<dqueue, asserted>>
        PROVE  DelayedIffArmed' /\ FiringInv'
    BY <1>2, <2>1, <2>3 DEF DelayedIffArmed, FiringInv, UnscheduleLinked
  <2>4. ASSUME NEW w \in Delayables, NEW l \in {linked, UnscheduleLinked(w)}, NoCallback,
               \A v \in Delayables \ {w} : flags'[v] = flags[v],
               firing' = firing,
               "DELAYED" \in flags'[w],
               l = UnscheduleLinked(w) \/ "DELAYED" \notin flags[w],
               linked' = l \union {w},
               asserted' = (asserted \/ w \in l)
        PROVE  DelayedIffArmed' /\ FiringInv'
    <3>1. w \notin l /\ \A v \in Delayables \ {w} : v \in l <=> v \in linked
      BY <1>2, <2>1, <2>4 DEF DelayedIffArmed, UnscheduleLinked
    <3>2. ~asserted'
      BY <1>2, <2>4, <3>1 DEF DelayedIffArmed
    <3> QED BY <1>2, <2>1, <2>4, <3>1, <3>2 DEF DelayedIffArmed, FiringInv
  <2>5. ASSUME NEW w \in Delayables, Expire(w) PROVE DelayedIffArmed' /\ FiringInv'
    <3>1. /\ UNCHANGED <<flags, asserted>>
          /\ w \in linked /\ linked' = linked \ {w}
          /\ firing' = [firing EXCEPT ![w] = @ + 1] /\ firing[w] = 0
      BY <2>1, <2>5 DEF Expire, workVars
    <3>2. firing'[w] = 1 /\ \A v \in Delayables \ {w} : firing'[v] = firing[v]
      BY <2>0, <3>1 DEF DelayType
    <3> QED BY <1>2, <3>1, <3>2 DEF DelayedIffArmed, FiringInv
  <2>6. ASSUME NEW w \in Delayables,
               firing[w] > 0, firing' = [firing EXCEPT ![w] = @ - 1],
               "DELAYED" \notin flags'[w],
               \A v \in Delayables \ {w} : flags'[v] = flags[v],
               UNCHANGED <<dqueue, linked, asserted>>
        PROVE  DelayedIffArmed' /\ FiringInv'
    <3>1. firing'[w] = 0 /\ \A v \in Delayables \ {w} : firing'[v] = firing[v]
      BY <2>0, <2>6 DEF DelayType
    <3> QED BY <1>2, <2>6, <3>1 DEF DelayedIffArmed, FiringInv
  <2> QED BY <1>2, <2>2, <2>3, <2>4, <2>5, <2>6, DelayEffect
<1>3. Inv /\ DelayedIffArmed /\ FiringInv /\ [Next]_vars => (DelayedIffArmed /\ FiringInv)'
  BY <1>2
<1> QED BY <1>1, <1>3, InvAlways, PTL DEF Spec
=============================================================================
