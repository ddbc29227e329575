----------------------------- MODULE SchedProof -----------------------------
(***************************************************************************)
(* Theorems about Sched for any threads, priorities and CPUs and for all   *)
(* disciplined applications: the run queue is sane, no ready thread is     *)
(* lost, no preemption is missed and aborts complete.                      *)
(*                                                                         *)
(* A section of the lock is a composition of functions on the record k, so *)
(* the invariant is one of records, which every function preserves.        *)
(***************************************************************************)
EXTENDS Sched, SeqLemmas

-----------------------------------------------------------------------------
(* The invariant of the record. *)

Flags == {"queued", "pending", "prestart", "dead", "suspended", "aborting"}

Kernel ==
    [runq         : Seq(Threads),
     state        : [Threads -> SUBSET Flags],
     prio         : [Threads -> Int],
     cur          : [CPUs -> Threads \union {NULL}],
     swap_ok      : [CPUs -> BOOLEAN],
     pended_on    : [Threads -> Threads \union {NULL}],
     join_queue   : [Threads -> Seq(Threads)],
     sched_locked : SUBSET Threads,
     armed        : SUBSET Threads,
     pending_ipi  : BOOLEAN,
     ipi          : [CPUs -> BOOLEAN]]

\* The run queue: ordered, nobody twice, and whoever is in it or marked to
\* go into it may run.
QueueOK(s) ==
    /\ IsInjective(s.runq) /\ Ordered(s.runq, s.prio)
    /\ \A t \in Range(s.runq) : "queued" \in s.state[t]
    /\ \A t \in Threads : "queued" \in s.state[t] =>
          /\ z_is_thread_ready(s, t)
          /\ t \in Range(s.runq) \/ \E d \in CPUs : s.cur[d] = t

\* The current threads are different, and in the run queue none of them is.
CurOK(s) ==
    /\ \A d, e \in CPUs : d # e /\ s.cur[d] # NULL => s.cur[d] # s.cur[e]
    /\ \A d \in CPUs : s.cur[d] \notin Range(s.runq)

\* A pending thread is in the join queue it is said to be in, and in no other.
JoinOK(s) ==
    /\ \A u \in Threads : IsInjective(s.join_queue[u])
    /\ \A t, u \in Threads : t \in Range(s.join_queue[u]) <=> s.pended_on[t] = u
    /\ \A t \in Threads : "pending" \in s.state[t] <=> s.pended_on[t] # NULL

\* A thread that is being aborted is running.
AbortOK(s) ==
    \A t \in Threads : "aborting" \in s.state[t] =>
        "dead" \notin s.state[t] /\ \E d \in CPUs : s.cur[d] = t

\* While CPU c holds the lock, the threads running on the others neither wait
\* nor are dead; its own may be about to be switched out.
RunsOK(s, c) ==
    /\ \A d \in CPUs \ {c} : s.cur[d] # NULL =>
          /\ s.cur[d] \notin s.armed
          /\ s.state[s.cur[d]] \intersect {"pending", "prestart", "dead"} = {}
    /\ s.cur[c] # NULL /\ s.cur[c] \in s.armed => Prevented(s, s.cur[c])

Sound(s, c) ==
    s \in Kernel /\ QueueOK(s) /\ CurOK(s) /\ JoinOK(s) /\ AbortOK(s) /\ RunsOK(s, c)

\* Dead threads have no timeout, wait for nobody, and nobody waits for them, but
\* for the one, u, that is being ended.
DeadOK(s, u) ==
    \A t \in Threads : "dead" \in s.state[t] =>
        t \notin s.armed /\ s.pended_on[t] = NULL /\ (t # u => s.join_queue[t] = <<>>)

\* A thread is about to queue t, in k_wakeup(), or to suspend it.
InHand(t) == \E w \in Threads : doing[w].op \in {"ready", "suspend"} /\ doing[w].on = t

\* t is in the run queue or running.
There(s, t) == t \in Range(s.runq) \/ \E d \in CPUs : s.cur[d] = t

\* So is who may run, but for the thread x and those that are in hand.
Placed(s, x) ==
    \A t \in Threads \ {x} :
        z_is_thread_ready(s, t) => t \in Range(s.runq) \/ (\E d \in CPUs : s.cur[d] = t) \/ InHand(t)

\* r leaves the threads but y that are only suspended as they are, the dead ones
\* dead, ends nobody that was not being aborted, and aborts nobody.
Ending == {"dead", "aborting"}

Spares(s, r, y) ==
    \A v \in Threads \ {y} :
        /\ s.state[v] = {"suspended"} => r.state[v] = {"suspended"}
        /\ "dead" \in s.state[v] => "dead" \in r.state[v]
        /\ r.state[v] \intersect Ending # {} => s.state[v] \intersect Ending # {}
        /\ "aborting" \in r.state[v] => "aborting" \in s.state[v]

\* What the functions that do not switch leave alone; they tell the other
\* CPUs when they add to the run queue.
Frame(s, r) ==
    /\ r.cur = s.cur /\ r.prio = s.prio /\ r.sched_locked = s.sched_locked /\ r.ipi = s.ipi
    /\ s.pending_ipi => r.pending_ipi
    /\ r.pending_ipi \/ Range(r.runq) \subseteq Range(s.runq)

SameJoins(s, r) == r.pended_on = s.pended_on /\ r.join_queue = s.join_queue

-----------------------------------------------------------------------------
(* Lists of threads. *)

\* z_priq_dumb_add() adds the thread and keeps the order.
LEMMA InsertFacts ==
    ASSUME NEW s \in Kernel, NEW q \in Seq(Threads), NEW t \in Threads
    PROVE  LET r == InsertByPrio(s, q, t)
           IN  /\ r \in Seq(Threads) /\ Range(r) = Range(q) \union {t}
               /\ IsInjective(q) /\ t \notin Range(q) => IsInjective(r)
               /\ Ordered(q, s.prio) => Ordered(r, s.prio)
<1> DEFINE i == RankPlace(q, s.prio, t)
           worse == {j \in 1..Len(q) : Before(s, t, q[j])}
           First(w) == IF w = {} THEN Len(q) + 1
                       ELSE CHOOSE j \in w : \A l \in w : j <= l
<1>1. s.prio \in [Threads -> Int]
  BY DEF Kernel
<1>2. \A j \in 1..Len(q) : q[j] \in Threads
  BY LenProperties, ElementOfSeq
<1>3. \A j \in 1..Len(q) : Before(s, t, q[j]) <=> s.prio[t] < s.prio[q[j]]
  BY <1>2, SchedAssumption DEF Before
<1>4. worse = {j \in 1..Len(q) : s.prio[t] < s.prio[q[j]]}
  BY <1>3
<1>5. InsertByPrio(s, q, t) = InsertAt(q, i, t)
  <2>1. InsertByPrio(s, q, t) = InsertAt(q, First(worse), t)
    BY DEF InsertByPrio
  <2>2. i = First({j \in 1..Len(q) : s.prio[t] < s.prio[q[j]]})
    BY DEF RankPlace
  <2> HIDE DEF First, worse, i
  <2> QED BY <2>1, <2>2, <1>4
<1>6. i \in 1..(Len(q) + 1)
  BY <1>1, RankPlaceFacts
<1> HIDE DEF i
<1>7. /\ InsertAt(q, i, t) \in Seq(Threads) /\ Range(InsertAt(q, i, t)) = Range(q) \union {t}
      /\ IsInjective(q) /\ t \notin Range(q) => IsInjective(InsertAt(q, i, t))
  BY <1>6, InsertAtElements, InsertAtRange
<1>8. Ordered(q, s.prio) => Ordered(InsertAt(q, i, t), s.prio)
  BY <1>1, RankInsert DEF i
<1> QED BY <1>5, <1>7, <1>8

\* Removing from a list takes the thread out and keeps the order.
LEMMA WithoutFacts ==
    ASSUME NEW q \in Seq(Threads), NEW t \in Threads
    PROVE  /\ Without(q, t) \in Seq(Threads) /\ Range(Without(q, t)) \subseteq Range(q)
           /\ IsInjective(q) => /\ IsInjective(Without(q, t))
                               /\ Range(Without(q, t)) = Range(q) \ {t}
           /\ \A rank \in [Threads -> Int] :
                 Ordered(q, rank) => Ordered(Without(q, t), rank)
<1> DEFINE places == {i \in 1..Len(q) : q[i] = t}
           i == CHOOSE j \in places : TRUE
<1>1. CASE places = {}
  <2>1. Without(q, t) = q
    BY <1>1 DEF Without
  <2>2. t \notin Range(q)
    BY <1>1, RangeMembers
  <2> QED BY <2>1, <2>2
<1>2. CASE places # {}
  <2>1. i \in places
    BY <1>2
  <2>2. i \in 1..Len(q) /\ q[i] = t
    BY <2>1
  <2>3. Without(q, t) = RemoveAt(q, i)
    BY <1>2 DEF Without
  <2> HIDE DEF i, places
  <2>4. /\ RemoveAt(q, i) \in Seq(Threads) /\ Range(RemoveAt(q, i)) \subseteq Range(q)
        /\ IsInjective(q) => /\ IsInjective(RemoveAt(q, i))
                            /\ Range(RemoveAt(q, i)) = Range(q) \ {q[i]}
    BY <2>2, RemoveAtElements, RemoveAtRange
  <2>5. \A rank \in [Threads -> Int] : Ordered(q, rank) => Ordered(RemoveAt(q, i), rank)
    BY <2>2, RankRemove
  <2> QED BY <2>2, <2>3, <2>4, <2>5
<1> QED BY <1>1, <1>2

-----------------------------------------------------------------------------
(* Into the run queue. *)

\* r is s with t put into the run queue, or marked if it is running.
Queued(s, c, t, r) ==
    /\ r.state = [s.state EXCEPT ![t] = @ \union {"queued"}]
    /\ r.runq = IF t # s.cur[c] THEN InsertByPrio(s, s.runq, t) ELSE s.runq
    /\ r.cur = s.cur /\ r.prio = s.prio /\ r.armed = s.armed /\ SameJoins(s, r)

\* queue_thread() in the fields.
LEMMA QueueFields ==
    ASSUME NEW s \in Kernel, NEW c \in CPUs, NEW t \in Threads
    PROVE  LET r == queue_thread(s, c, t)
           IN  /\ r \in Kernel /\ Queued(s, c, t, r)
               /\ r.sched_locked = s.sched_locked /\ r.pending_ipi = s.pending_ipi
               /\ r.ipi = s.ipi
<1>1. s.runq \in Seq(Threads)
  BY DEF Kernel
<1>2. InsertByPrio(s, s.runq, t) \in Seq(Threads)
  BY <1>1, InsertFacts
<1> QED BY <1>2 DEF queue_thread, Kernel, Flags, Queued, SameJoins

\* A thread that may run is put into the run queue.
LEMMA QueueSound ==
    ASSUME NEW s \in Kernel, NEW c \in CPUs, NEW t \in Threads, NEW r \in Kernel,
           Sound(s, c), Queued(s, c, t, r), \A d \in CPUs \ {c} : s.cur[d] # t,
           z_is_thread_ready(s, t), "queued" \notin s.state[t]
    PROVE  /\ Sound(r, c) /\ Range(s.runq) \subseteq Range(r.runq)
           /\ Placed(s, t) => Placed(r, NULL)
           /\ \A u : DeadOK(s, u) => DeadOK(r, u)
<1>1. /\ s.runq \in Seq(Threads) /\ s.state \in [Threads -> SUBSET Flags]
      /\ s.cur \in [CPUs -> Threads \union {NULL}]
  BY DEF Kernel
<1>2. t \notin Range(s.runq)
  BY DEF Sound, QueueOK
<1> DEFINE q == InsertByPrio(s, s.runq, t)
<1>3. /\ q \in Seq(Threads) /\ Range(q) = Range(s.runq) \union {t} /\ IsInjective(q)
      /\ Ordered(q, s.prio)
  BY <1>1, <1>2, InsertFacts DEF Sound, QueueOK
<1> HIDE DEF q
<1>4. r.runq = IF t # s.cur[c] THEN q ELSE s.runq
  BY DEF Queued, q
<1>5. /\ \A v \in Threads : r.state[v] = IF v = t THEN s.state[t] \union {"queued"} ELSE s.state[v]
      /\ r.cur = s.cur /\ r.prio = s.prio /\ r.armed = s.armed
      /\ r.pended_on = s.pended_on /\ r.join_queue = s.join_queue
  BY <1>1 DEF Queued, SameJoins
<1>6. \A v \in Threads : /\ Prevented(r, v) <=> Prevented(s, v)
                         /\ z_is_thread_ready(r, v) <=> z_is_thread_ready(s, v)
  BY <1>5 DEF Prevented, z_is_thread_ready
<1>7. IsInjective(r.runq) /\ Ordered(r.runq, r.prio) /\ Range(s.runq) \subseteq Range(r.runq)
  BY <1>3, <1>4, <1>5 DEF Sound, QueueOK
<1>8. Range(r.runq) \subseteq Range(s.runq) \union {t} /\ Range(r.runq) \subseteq Threads
  BY <1>1, <1>3, <1>4, RangeMembers
<1>9. t # s.cur[c] => t \in Range(r.runq)
  BY <1>3, <1>4
<1>10. QueueOK(r)
  BY <1>5, <1>6, <1>7, <1>8, <1>9 DEF Sound, QueueOK
<1>11. CurOK(r)
  BY <1>3, <1>4, <1>5 DEF Sound, CurOK
<1>12. JoinOK(r) /\ AbortOK(r) /\ \A u : DeadOK(s, u) => DeadOK(r, u)
  BY <1>5 DEF Sound, JoinOK, AbortOK, DeadOK
<1>13. RunsOK(r, c)
  BY <1>1, <1>5, <1>6 DEF Sound, RunsOK
<1>14. Placed(s, t) => Placed(r, NULL)
  BY <1>5, <1>6, <1>7, <1>9 DEF Placed
<1> QED BY <1>7, <1>10, <1>11, <1>12, <1>13, <1>14 DEF Sound

\* ready_thread().
LEMMA ReadySound ==
    ASSUME NEW s \in Kernel, NEW c \in CPUs, NEW t \in Threads,
           Sound(s, c), \A d \in CPUs \ {c} : s.cur[d] # t
    PROVE  LET r == ready_thread(s, c, t)
           IN  /\ Sound(r, c) /\ Frame(s, r) /\ SameJoins(s, r) /\ r.armed = s.armed
               /\ Range(s.runq) \subseteq Range(r.runq)
               /\ Placed(s, t) => Placed(r, NULL)
               /\ \A u : DeadOK(s, u) => DeadOK(r, u)
               /\ \A v \in Threads : r.state[v] = s.state[v]
                                     \/ (v = t /\ r.state[v] = s.state[v] \union {"queued"})
<1> DEFINE q == queue_thread(s, c, t)
           r == [update_cache(q, c, FALSE) EXCEPT !.pending_ipi = TRUE]
<1>1. CASE "queued" \notin s.state[t] /\ z_is_thread_ready(s, t)
  <2>1. /\ q \in Kernel /\ Queued(s, c, t, q)
        /\ q.sched_locked = s.sched_locked /\ q.pending_ipi = s.pending_ipi /\ q.ipi = s.ipi
    BY QueueFields
  <2> HIDE DEF q
  <2>2. /\ r \in Kernel /\ r.state = q.state /\ r.runq = q.runq /\ r.cur = q.cur
        /\ r.prio = q.prio /\ r.armed = q.armed /\ r.pended_on = q.pended_on
        /\ r.join_queue = q.join_queue /\ r.sched_locked = q.sched_locked
        /\ r.ipi = q.ipi /\ r.pending_ipi
    BY <2>1 DEF update_cache, Kernel
  <2>3. ready_thread(s, c, t) = r
    BY <1>1 DEF ready_thread, q
  <2> HIDE DEF r
  <2>4. Queued(s, c, t, r)
    BY <2>1, <2>2 DEF Queued, SameJoins
  <2>5. /\ Sound(r, c) /\ Range(s.runq) \subseteq Range(r.runq)
        /\ Placed(s, t) => Placed(r, NULL)
        /\ \A u : DeadOK(s, u) => DeadOK(r, u)
    BY <1>1, <2>2, <2>4, QueueSound
  <2>6. Frame(s, r) /\ SameJoins(s, r) /\ r.armed = s.armed
    BY <2>1, <2>2, <2>4 DEF Frame, Queued
  <2>7. s.state \in [Threads -> SUBSET Flags]
    BY DEF Kernel
  <2>8. \A v \in Threads : r.state[v] = s.state[v]
                           \/ (v = t /\ r.state[v] = s.state[v] \union {"queued"})
    BY <2>4, <2>7 DEF Queued
  <2> QED BY <2>3, <2>5, <2>6, <2>8
<1>2. CASE ~("queued" \notin s.state[t] /\ z_is_thread_ready(s, t))
  <2>1. ready_thread(s, c, t) = s
    BY <1>2 DEF ready_thread
  <2>2. Placed(s, t) => Placed(s, NULL)
    BY <1>2 DEF Placed, Sound, QueueOK
  <2> QED BY <2>1, <2>2 DEF Frame, SameJoins
<1> QED BY <1>1, <1>2

-----------------------------------------------------------------------------
(* Out of the run queue. *)

\* r is s with t taken out of the run queue and its mark removed.
Unqueued(s, c, t, r) ==
    /\ r.state = [s.state EXCEPT ![t] = @ \ {"queued"}]
    /\ r.runq = IF "queued" \in s.state[t] /\ t # s.cur[c] THEN Without(s.runq, t) ELSE s.runq
    /\ r.cur = s.cur /\ r.prio = s.prio /\ r.armed = s.armed /\ SameJoins(s, r)
    /\ r.sched_locked = s.sched_locked /\ r.pending_ipi = s.pending_ipi /\ r.ipi = s.ipi

\* unready_thread() in the fields.
LEMMA UnreadyFields ==
    ASSUME NEW s \in Kernel, NEW c \in CPUs, NEW t \in Threads
    PROVE  /\ unready_thread(s, c, t) \in Kernel
           /\ Unqueued(s, c, t, unready_thread(s, c, t))
           /\ unready_thread(s, c, t).swap_ok = s.swap_ok
<1>1. s.runq \in Seq(Threads)
  BY DEF Kernel
<1>2. Without(s.runq, t) \in Seq(Threads)
  BY <1>1, WithoutFacts
<1>3. t # NULL
  BY SchedAssumption
<1>4. CASE "queued" \in s.state[t]
  <2>1. unready_thread(s, c, t) = dequeue_thread(s, c, t)
    BY <1>3, <1>4 DEF unready_thread
  <2> DEFINE r == dequeue_thread(s, c, t)
  <2>2. /\ r \in Kernel
        /\ r.state = [s.state EXCEPT ![t] = @ \ {"queued"}]
        /\ r.runq = IF t # s.cur[c] THEN Without(s.runq, t) ELSE s.runq
        /\ r.cur = s.cur /\ r.prio = s.prio /\ r.armed = s.armed
        /\ r.pended_on = s.pended_on /\ r.join_queue = s.join_queue
        /\ r.sched_locked = s.sched_locked /\ r.pending_ipi = s.pending_ipi
        /\ r.ipi = s.ipi /\ r.swap_ok = s.swap_ok
    BY <1>2 DEF dequeue_thread, Kernel, Flags
  <2> HIDE DEF r
  <2> QED BY <1>4, <2>1, <2>2 DEF r, SameJoins, Unqueued
<1>5. CASE "queued" \notin s.state[t]
  <2>1. unready_thread(s, c, t) = s
    BY <1>5 DEF unready_thread
  <2>2. s.state = [s.state EXCEPT ![t] = @ \ {"queued"}]
    BY <1>5 DEF Kernel
  <2> QED BY <1>5, <2>1, <2>2 DEF SameJoins, Unqueued
<1> QED BY <1>4, <1>5

\* What that leaves: a sound record in which only t may be missing.
Off(s, c, t, r) ==
    /\ Sound(r, c) /\ Frame(s, r) /\ SameJoins(s, r) /\ r.armed = s.armed
    /\ t \notin Range(r.runq) /\ Range(r.runq) = Range(s.runq) \ {t}
    /\ Placed(s, t) => Placed(r, t)
    /\ \A u : DeadOK(s, u) => DeadOK(r, u)
    /\ \A v \in Threads : r.state[v] = IF v = t THEN s.state[v] \ {"queued"} ELSE s.state[v]

\* Afterwards the thread is neither in the run queue nor marked.
LEMMA UnreadySound ==
    ASSUME NEW s \in Kernel, NEW c \in CPUs, NEW t \in Threads, NEW r \in Kernel,
           Sound(s, c), Unqueued(s, c, t, r), \A d \in CPUs \ {c} : s.cur[d] # t
    PROVE  Off(s, c, t, r)
<1>1. /\ r.state = [s.state EXCEPT ![t] = @ \ {"queued"}]
      /\ r.runq = IF "queued" \in s.state[t] /\ t # s.cur[c] THEN Without(s.runq, t) ELSE s.runq
      /\ r.cur = s.cur /\ r.prio = s.prio /\ r.armed = s.armed /\ SameJoins(s, r)
      /\ r.sched_locked = s.sched_locked /\ r.pending_ipi = s.pending_ipi /\ r.ipi = s.ipi
  BY DEF Unqueued
<1>2. /\ s.runq \in Seq(Threads) /\ s.state \in [Threads -> SUBSET Flags]
      /\ s.prio \in [Threads -> Int]
      /\ s.cur \in [CPUs -> Threads \union {NULL}]
  BY DEF Kernel
<1>3. \A v \in Threads : r.state[v] = IF v = t THEN s.state[v] \ {"queued"} ELSE s.state[v]
  BY <1>1, <1>2
<1>4. /\ Range(Without(s.runq, t)) = Range(s.runq) \ {t} /\ IsInjective(Without(s.runq, t))
      /\ Ordered(Without(s.runq, t), s.prio)
  BY <1>2, WithoutFacts DEF Sound, QueueOK
<1>5. "queued" \notin s.state[t] \/ t = s.cur[c] => t \notin Range(s.runq)
  BY DEF Sound, QueueOK, CurOK
<1>6. /\ Range(r.runq) = Range(s.runq) \ {t} /\ IsInjective(r.runq)
      /\ Ordered(r.runq, r.prio)
  BY <1>1, <1>4, <1>5 DEF Sound, QueueOK
<1>7. \A v \in Threads : /\ Prevented(r, v) <=> Prevented(s, v)
                         /\ z_is_thread_ready(r, v) <=> z_is_thread_ready(s, v)
  BY <1>1, <1>3 DEF Prevented, z_is_thread_ready
<1>8. Range(s.runq) \subseteq Threads
  BY <1>2, RangeMembers
<1>9. QueueOK(r)
  BY <1>1, <1>3, <1>6, <1>7, <1>8 DEF Sound, QueueOK
<1>10. CurOK(r)
  BY <1>1, <1>6 DEF Sound, CurOK
<1>11. JoinOK(r) /\ AbortOK(r) /\ \A u : DeadOK(s, u) => DeadOK(r, u)
  BY <1>1, <1>3 DEF Sound, JoinOK, AbortOK, DeadOK, SameJoins
<1>12. RunsOK(r, c)
  BY <1>1, <1>2, <1>3, <1>7 DEF Sound, RunsOK
<1>13. Placed(s, t) => Placed(r, t)
  BY <1>1, <1>6, <1>7 DEF Placed
<1>14. Frame(s, r)
  BY <1>1, <1>6 DEF Frame
<1> QED BY <1>1, <1>3, <1>6, <1>9, <1>10, <1>11, <1>12, <1>13, <1>14 DEF Sound, Off

-----------------------------------------------------------------------------
(* The state and the timeout of one thread. *)

\* r is s but for the state and the timeout of t, and the join queues.
Touched(s, t, r) ==
    /\ r.runq = s.runq /\ r.cur = s.cur /\ r.prio = s.prio
    /\ \A v \in Threads \ {t} : r.state[v] = s.state[v] /\ (v \in r.armed <=> v \in s.armed)

\* What the new state has to satisfy.
FitFor(s, c, t, r) ==
    /\ "queued" \in r.state[t] <=> "queued" \in s.state[t]
    /\ "queued" \in r.state[t] => z_is_thread_ready(r, t)
    /\ "aborting" \in r.state[t] => "dead" \notin r.state[t] /\ \E d \in CPUs : s.cur[d] = t
    /\ (\E d \in CPUs \ {c} : s.cur[d] = t) =>
          t \notin r.armed /\ r.state[t] \intersect {"pending", "prestart", "dead"} = {}
    /\ t = s.cur[c] /\ t \in r.armed => Prevented(r, t)

\* Then the record stays sound.
LEMMA TouchSound ==
    ASSUME NEW s \in Kernel, NEW c \in CPUs, NEW t \in Threads, NEW r \in Kernel,
           Sound(s, c), Touched(s, t, r), FitFor(s, c, t, r), JoinOK(r)
    PROVE  /\ Sound(r, c)
           /\ Placed(s, t) => Placed(r, t)
           /\ Placed(s, t) /\ ~z_is_thread_ready(r, t) => Placed(r, NULL)
<1>1. /\ s.runq \in Seq(Threads) /\ s.cur \in [CPUs -> Threads \union {NULL}]
      /\ NULL \notin Threads
  BY SchedAssumption DEF Kernel
<1>2. Range(s.runq) \subseteq Threads
  BY <1>1, RangeMembers
<1>3. \A v \in Threads \ {t} : /\ Prevented(r, v) <=> Prevented(s, v)
                               /\ z_is_thread_ready(r, v) <=> z_is_thread_ready(s, v)
  BY DEF Touched, Prevented, z_is_thread_ready
<1>4. QueueOK(r)
  <2>1. IsInjective(r.runq) /\ Ordered(r.runq, r.prio)
    BY DEF Touched, Sound, QueueOK
  <2>2. \A v \in Range(r.runq) : "queued" \in r.state[v]
    BY <1>2 DEF Touched, FitFor, Sound, QueueOK
  <2>3. ASSUME NEW v \in Threads, "queued" \in r.state[v]
        PROVE  /\ z_is_thread_ready(r, v)
               /\ v \in Range(r.runq) \/ \E d \in CPUs : r.cur[d] = v
    <3>1. "queued" \in s.state[v]
      BY <2>3 DEF Touched, FitFor
    <3>2. z_is_thread_ready(s, v) /\ (v \in Range(s.runq) \/ \E d \in CPUs : s.cur[d] = v)
      BY <3>1 DEF Sound, QueueOK
    <3> QED BY <1>3, <2>3, <3>2 DEF Touched, FitFor
  <2> QED BY <2>1, <2>2, <2>3 DEF QueueOK
<1>5. CurOK(r)
  BY DEF Touched, Sound, CurOK
<1>6. AbortOK(r)
  BY DEF Touched, FitFor, Sound, AbortOK
<1>7. RunsOK(r, c)
  <2>1. ASSUME NEW d \in CPUs \ {c}, r.cur[d] # NULL
        PROVE  /\ r.cur[d] \notin r.armed
               /\ r.state[r.cur[d]] \intersect {"pending", "prestart", "dead"} = {}
    BY <1>1, <2>1 DEF Touched, FitFor, Sound, RunsOK
  <2>2. ASSUME r.cur[c] # NULL, r.cur[c] \in r.armed PROVE Prevented(r, r.cur[c])
    BY <1>1, <1>3, <2>2 DEF Touched, FitFor, Sound, RunsOK
  <2> QED BY <2>1, <2>2 DEF RunsOK
<1>8. Placed(s, t) => Placed(r, t)
  BY <1>3 DEF Placed, Touched
<1>9. Placed(r, t) /\ ~z_is_thread_ready(r, t) => Placed(r, NULL)
  BY DEF Placed
<1> QED BY <1>4, <1>5, <1>6, <1>7, <1>8, <1>9 DEF Sound

-----------------------------------------------------------------------------
(* Join queues. *)

\* r is s with t taken out of the join queue it is in.
Unjoined(s, t, r) ==
    /\ r.join_queue = [s.join_queue EXCEPT ![s.pended_on[t]] = Without(@, t)]
    /\ r.pended_on = [s.pended_on EXCEPT ![t] = NULL]

\* That is all unpend_thread_no_timeout() does.
UnpendOnly(s, t, r) ==
    /\ Unjoined(s, t, r)
    /\ r.state = [s.state EXCEPT ![t] = @ \ {"pending"}]
    /\ r.runq = s.runq /\ r.cur = s.cur /\ r.prio = s.prio /\ r.armed = s.armed
    /\ r.sched_locked = s.sched_locked /\ r.pending_ipi = s.pending_ipi /\ r.ipi = s.ipi

\* unpend_thread_no_timeout() in the fields.
LEMMA UnpendFields ==
    ASSUME NEW s \in Kernel, NEW t \in Threads, s.pended_on[t] \in Threads
    PROVE  /\ unpend_thread_no_timeout(s, t) \in Kernel
           /\ UnpendOnly(s, t, unpend_thread_no_timeout(s, t))
<1>1. s.join_queue[s.pended_on[t]] \in Seq(Threads)
  BY DEF Kernel
<1>2. Without(s.join_queue[s.pended_on[t]], t) \in Seq(Threads)
  BY <1>1, WithoutFacts
<1> QED BY <1>2 DEF unpend_thread_no_timeout, Kernel, Flags, Unjoined, UnpendOnly

\* The join queues without t.
JoinsWithout(s, t, r) ==
    /\ JoinOK(r)
    /\ \A v \in Threads : Range(r.join_queue[v]) = Range(s.join_queue[v]) \ {t}
    /\ \A v \in Threads : s.join_queue[v] = <<>> => r.join_queue[v] = <<>>

\* The join queues stay in order.
LEMMA UnjoinedOK ==
    ASSUME NEW s \in Kernel, NEW t \in Threads, s.pended_on[t] \in Threads, NEW r \in Kernel,
           JoinOK(s), Unjoined(s, t, r), "pending" \notin r.state[t],
           \A v \in Threads \ {t} : "pending" \in r.state[v] <=> "pending" \in s.state[v]
    PROVE  JoinsWithout(s, t, r)
<1> DEFINE u == s.pended_on[t]
<1>1. /\ s.join_queue \in [Threads -> Seq(Threads)]
      /\ s.pended_on \in [Threads -> Threads \union {NULL}] /\ NULL \notin Threads
  BY SchedAssumption DEF Kernel
<1>2. /\ \A v \in Threads : r.join_queue[v] = IF v = u THEN Without(s.join_queue[u], t)
                                                       ELSE s.join_queue[v]
      /\ \A v \in Threads : r.pended_on[v] = IF v = t THEN NULL ELSE s.pended_on[v]
  BY <1>1 DEF Unjoined
<1>3. /\ s.join_queue[u] \in Seq(Threads) /\ IsInjective(s.join_queue[u])
      /\ t \in Range(s.join_queue[u])
  BY <1>1 DEF JoinOK
<1>4. /\ IsInjective(Without(s.join_queue[u], t))
      /\ Range(Without(s.join_queue[u], t)) = Range(s.join_queue[u]) \ {t}
  BY <1>3, WithoutFacts
<1>5. \A v \in Threads : v # u => t \notin Range(s.join_queue[v])
  BY DEF JoinOK
<1>6. \A v \in Threads : Range(r.join_queue[v]) = Range(s.join_queue[v]) \ {t}
  BY <1>2, <1>4, <1>5
<1>7. \A v \in Threads : IsInjective(r.join_queue[v])
  BY <1>2, <1>4 DEF JoinOK
<1>8. JoinOK(r)
  <2>1. \A v, w \in Threads : v \in Range(r.join_queue[w]) <=> r.pended_on[v] = w
    <3> SUFFICES ASSUME NEW v \in Threads, NEW w \in Threads
                 PROVE  v \in Range(r.join_queue[w]) <=> r.pended_on[v] = w
      OBVIOUS
    <3>1. v \in Range(s.join_queue[w]) <=> s.pended_on[v] = w
      BY DEF JoinOK
    <3>2. Range(r.join_queue[w]) = Range(s.join_queue[w]) \ {t}
      BY <1>6
    <3>3. r.pended_on[v] = IF v = t THEN NULL ELSE s.pended_on[v]
      BY <1>2
    <3> QED BY <1>1, <3>1, <3>2, <3>3
  <2>2. \A v \in Threads : "pending" \in r.state[v] <=> r.pended_on[v] # NULL
    BY <1>2 DEF JoinOK
  <2> QED BY <1>7, <2>1, <2>2 DEF JoinOK
<1>9. s.join_queue[u] # <<>>
  BY <1>3 DEF Range
<1> QED BY <1>2, <1>6, <1>8, <1>9 DEF JoinsWithout

\* r is s with t released from its join queue and put into the run queue.
ReleasedOne(s, c, t, r) ==
    /\ Sound(r, c) /\ Placed(r, NULL) /\ Frame(s, r)
    /\ Range(s.runq) \subseteq Range(r.runq)
    /\ r.armed = s.armed \ {t} /\ Unjoined(s, t, r)
    /\ \A u : DeadOK(s, u) => DeadOK(r, u)
    /\ \A v \in Threads : /\ v # t => r.state[v] = s.state[v]
                          /\ r.state[v] \ {"queued", "pending"} = s.state[v] \ {"queued", "pending"}

\* One turn of the loop in unpend_all().
LEMMA ReleaseSound ==
    ASSUME NEW s \in Kernel, NEW c \in CPUs, NEW t \in Threads, s.pended_on[t] \in Threads,
           Sound(s, c), Placed(s, NULL)
    PROVE  ReleasedOne(s, c, t, Release(s, c, t))
<1> DEFINE p == unpend_thread_no_timeout(s, t)
           m == [p EXCEPT !.armed = @ \ {t}]
<1>0. p \in Kernel /\ UnpendOnly(s, t, p)
  BY UnpendFields
<1>2. Release(s, c, t) = ready_thread(m, c, t)
  BY DEF Release
<1> HIDE DEF p
<1>1. /\ p \in Kernel /\ Unjoined(s, t, p)
      /\ p.state = [s.state EXCEPT ![t] = @ \ {"pending"}]
      /\ p.runq = s.runq /\ p.cur = s.cur /\ p.prio = s.prio /\ p.armed = s.armed
      /\ p.sched_locked = s.sched_locked /\ p.pending_ipi = s.pending_ipi /\ p.ipi = s.ipi
  BY <1>0 DEF UnpendOnly
<1>3. /\ m \in Kernel /\ m.armed = s.armed \ {t} /\ m.state = p.state
      /\ m.runq = s.runq /\ m.cur = s.cur /\ m.prio = s.prio
      /\ m.join_queue = p.join_queue /\ m.pended_on = p.pended_on
      /\ m.sched_locked = s.sched_locked /\ m.pending_ipi = s.pending_ipi
      /\ m.ipi = s.ipi
  BY <1>1 DEF Kernel
<1> HIDE DEF m
<1>4. s.state \in [Threads -> SUBSET Flags] /\ NULL \notin Threads
  BY SchedAssumption DEF Kernel
<1>5. \A v \in Threads : m.state[v] = IF v = t THEN s.state[t] \ {"pending"} ELSE s.state[v]
  BY <1>1, <1>3, <1>4
<1>6. Unjoined(s, t, m)
  BY <1>1, <1>3 DEF Unjoined
<1>7. /\ JoinOK(m)
      /\ \A v \in Threads : Range(m.join_queue[v]) = Range(s.join_queue[v]) \ {t}
      /\ \A v \in Threads : s.join_queue[v] = <<>> => m.join_queue[v] = <<>>
  <2>1. /\ "pending" \notin m.state[t] /\ JoinOK(s)
        /\ \A v \in Threads \ {t} : "pending" \in m.state[v] <=> "pending" \in s.state[v]
    BY <1>5 DEF Sound
  <2>2. m \in Kernel
    BY <1>3
  <2>3. JoinsWithout(s, t, m)
    BY <1>6, <2>1, <2>2, UnjoinedOK
  <2> QED BY <2>3 DEF JoinsWithout
<1>8. "pending" \in s.state[t] /\ "queued" \notin s.state[t]
  <2>1. "pending" \in s.state[t]
    BY <1>4 DEF Sound, JoinOK
  <2> QED BY <2>1 DEF Sound, QueueOK, z_is_thread_ready, Prevented
<1>9. \A d \in CPUs \ {c} : s.cur[d] # t
  BY <1>4, <1>8 DEF Sound, RunsOK
<1>10. Touched(s, t, m) /\ FitFor(s, c, t, m)
  BY <1>3, <1>5, <1>8, <1>9 DEF Touched, FitFor, Sound, AbortOK
<1>11. Placed(s, t)
  BY <1>4 DEF Placed
<1>12. Sound(m, c) /\ Placed(m, t)
  BY <1>3, <1>7, <1>10, <1>11, TouchSound
<1>13. \A u : DeadOK(s, u) => DeadOK(m, u)
  BY <1>3, <1>5, <1>6, <1>7 DEF DeadOK, Unjoined
<1> DEFINE r == ready_thread(m, c, t)
<1>14. /\ Sound(r, c) /\ Frame(m, r) /\ SameJoins(m, r) /\ r.armed = m.armed
       /\ Range(m.runq) \subseteq Range(r.runq)
       /\ Placed(m, t) => Placed(r, NULL)
       /\ \A u : DeadOK(m, u) => DeadOK(r, u)
       /\ \A v \in Threads : r.state[v] = m.state[v]
                             \/ (v = t /\ r.state[v] = m.state[v] \union {"queued"})
  BY <1>3, <1>9, <1>12, ReadySound
<1> HIDE DEF r
<1>15. Frame(s, r)
  BY <1>3, <1>14 DEF Frame
<1>16. Unjoined(s, t, r)
  BY <1>6, <1>14 DEF Unjoined, SameJoins
<1>17. \A v \in Threads : /\ v # t => r.state[v] = s.state[v]
                          /\ r.state[v] \ {"queued", "pending"} = s.state[v] \ {"queued", "pending"}
  BY <1>5, <1>14
<1>18. ReleasedOne(s, c, t, r)
  BY <1>3, <1>12, <1>13, <1>14, <1>15, <1>16, <1>17 DEF ReleasedOne
<1> QED BY <1>2, <1>18 DEF r

\* The states that the loop of unpend_all() goes through.
IsLoop(s, c, q, n, g) ==
    g = [i \in 0..n |-> IF i = 0 THEN s ELSE Release(g[i - 1], c, q[i])]

\* There are such states,
LEMMA LoopExists ==
    ASSUME NEW s, NEW c, NEW q
    PROVE  \A n \in Nat : \E g : IsLoop(s, c, q, n, g)
<1> DEFINE T == {n \in Nat : \E g : IsLoop(s, c, q, n, g)}
<1>1. ASSUME NEW n \in Nat, \A m \in Nat : m < n => m \in T
      PROVE  n \in T
  <2>1. CASE n = 0
    <3> DEFINE g == [i \in 0..0 |-> s]
    <3>1. IsLoop(s, c, q, 0, g)
      BY DEF IsLoop
    <3> QED BY <2>1, <3>1
  <2>2. CASE n # 0
    <3>1. n - 1 \in T
      BY <1>1, <2>2
    <3>2. PICK h : IsLoop(s, c, q, n - 1, h)
      BY <3>1
    <3> DEFINE last == Release(h[n - 1], c, q[n])
               g == [i \in 0..n |-> IF i = n THEN last ELSE h[i]]
    <3>3. \A i \in 0..(n - 1) : h[i] = IF i = 0 THEN s ELSE Release(h[i - 1], c, q[i])
      BY <3>2 DEF IsLoop
    <3>4. \A i \in 0..(n - 1) : g[i] = h[i]
      BY <2>2
    <3>5. g[n] = last
      BY <2>2
    <3> HIDE DEF last
    <3>6. \A i \in 0..n : g[i] = IF i = 0 THEN s ELSE Release(g[i - 1], c, q[i])
      <4> SUFFICES ASSUME NEW i \in 0..n
                   PROVE  g[i] = IF i = 0 THEN s ELSE Release(g[i - 1], c, q[i])
        OBVIOUS
      <4>1. CASE i = n
        <5>1. g[n - 1] = h[n - 1]
          BY <2>2, <3>4
        <5> HIDE DEF g
        <5> QED BY <2>2, <3>5, <4>1, <5>1 DEF last
      <4>2. CASE i # n
        <5>1. i \in 0..(n - 1) /\ (i # 0 => i - 1 \in 0..(n - 1))
          BY <4>2
        <5>2. g[i] = h[i] /\ (i # 0 => g[i - 1] = h[i - 1])
          BY <3>4, <5>1
        <5> HIDE DEF g
        <5> QED BY <3>3, <5>1, <5>2
      <4> QED BY <4>1, <4>2
    <3>7. g = [i \in 0..n |-> g[i]]
      OBVIOUS
    <3> HIDE DEF g
    <3>8. IsLoop(s, c, q, n, g)
      BY <3>6, <3>7 DEF IsLoop
    <3> QED BY <3>8
  <2> QED BY <2>1, <2>2
<1> HIDE DEF T
<1>2. \A n \in Nat : n \in T
  BY <1>1, CompleteInduction DEF T
<1> QED BY <1>2 DEF T

\* and the last is what it leaves.
LEMMA UnpendAllIs ==
    ASSUME NEW s, NEW c, NEW u, Len(s.join_queue[u]) \in Nat
    PROVE  \E g : /\ unpend_all(s, c, u) = g[Len(s.join_queue[u])]
                  /\ g[0] = s
                  /\ \A i \in 1..Len(s.join_queue[u]) :
                        g[i] = Release(g[i - 1], c, s.join_queue[u][i])
<1> DEFINE q == s.join_queue[u]
           g == CHOOSE h : IsLoop(s, c, q, Len(q), h)
<1>1. \E h : IsLoop(s, c, q, Len(q), h)
  BY LoopExists
<1>2. IsLoop(s, c, q, Len(q), g)
  BY <1>1
<1>3. unpend_all(s, c, u) = g[Len(q)]
  BY DEF unpend_all, IsLoop
<1> HIDE DEF g, q
<1>4. Len(q) \in Nat
  BY DEF q
<1>5. g[0] = s
  BY <1>2, <1>4 DEF IsLoop
<1>6. ASSUME NEW i \in 1..Len(q) PROVE g[i] = Release(g[i - 1], c, q[i])
  <2>1. i \in 0..Len(q) /\ i # 0
    BY <1>4
  <2> QED BY <1>2, <2>1 DEF IsLoop
<1> QED BY <1>3, <1>5, <1>6 DEF q

\* The threads in the first i places of the join queue q of u are released.
Released(s, c, q, i, u, r) ==
    /\ Sound(r, c) /\ Placed(r, NULL) /\ Frame(s, r)
    /\ Range(s.runq) \subseteq Range(r.runq) /\ r.armed \subseteq s.armed
    /\ \A w : DeadOK(s, w) => DeadOK(r, w)
    /\ \A v \in Threads : /\ r.state[v] \ {"queued", "pending"} = s.state[v] \ {"queued", "pending"}
                          /\ s.pended_on[v] # u => r.state[v] = s.state[v]
    /\ \A v \in Threads : r.pended_on[v] = IF \E j \in 1..i : q[j] = v THEN NULL
                                           ELSE s.pended_on[v]

\* Each turn releases one more.
LEMMA ReleasedNext ==
    ASSUME NEW s \in Kernel, NEW c \in CPUs, NEW u \in Threads, JoinOK(s),
           NEW i \in 1..Len(s.join_queue[u]), NEW r,
           Released(s, c, s.join_queue[u], i - 1, u, r)
    PROVE  Released(s, c, s.join_queue[u], i, u, Release(r, c, s.join_queue[u][i]))
<1> DEFINE q == s.join_queue[u]
           t == q[i]
           m == Release(r, c, t)
<1>1. q \in Seq(Threads) /\ IsInjective(q) /\ NULL \notin Threads
  BY SchedAssumption DEF Kernel, JoinOK
<1>2. t \in Threads /\ t \in Range(q) /\ \A j \in 1..(i - 1) : q[j] # t
  BY <1>1, ElementOfSeq, RangeMembers, LenProperties DEF IsInjective
<1>3. s.pended_on[t] = u
  BY <1>2 DEF JoinOK
<1>4. r \in Kernel
  BY DEF Released, Sound
<1>5. r.pended_on[t] = u
  BY <1>2, <1>3 DEF Released
<1> HIDE DEF t
<1>6. /\ Sound(m, c) /\ Placed(m, NULL) /\ Frame(r, m)
      /\ Range(r.runq) \subseteq Range(m.runq)
      /\ m.armed = r.armed \ {t} /\ Unjoined(r, t, m)
      /\ \A w : DeadOK(r, w) => DeadOK(m, w)
      /\ \A v \in Threads : /\ v # t => m.state[v] = r.state[v]
                            /\ m.state[v] \ {"queued", "pending"}
                                  = r.state[v] \ {"queued", "pending"}
  <2>1. r.pended_on[t] \in Threads /\ t \in Threads /\ Sound(r, c) /\ Placed(r, NULL)
    BY <1>2, <1>5 DEF Released
  <2>2. ReleasedOne(r, c, t, m)
    BY <1>4, <2>1, ReleaseSound
  <2> HIDE DEF m
  <2> QED BY <2>2 DEF ReleasedOne
<1> HIDE DEF m
<1>7. Frame(s, m)
  BY <1>6 DEF Frame, Released
<1>8. r.pended_on \in [Threads -> Threads \union {NULL}]
  BY <1>4 DEF Kernel
<1>9. \A v \in Threads : m.pended_on[v] = IF v = t THEN NULL ELSE r.pended_on[v]
  BY <1>6, <1>8 DEF Unjoined
<1> HIDE DEF q
<1>10. ASSUME NEW v \in Threads
       PROVE  m.pended_on[v] = IF \E j \in 1..i : q[j] = v THEN NULL ELSE s.pended_on[v]
  <2>1. r.pended_on[v] = IF \E j \in 1..(i - 1) : q[j] = v THEN NULL ELSE s.pended_on[v]
    BY DEF Released, q
  <2>2. (\E j \in 1..i : q[j] = v) <=> v = t \/ \E j \in 1..(i - 1) : q[j] = v
    <3>1. i \in Nat /\ i >= 1
      BY <1>1, LenProperties DEF q
    <3> QED BY <3>1 DEF t
  <2> QED BY <1>9, <2>1, <2>2
<1>11. \A v \in Threads : /\ m.state[v] \ {"queued", "pending"} = s.state[v] \ {"queued", "pending"}
                          /\ s.pended_on[v] # u => m.state[v] = s.state[v]
  BY <1>3, <1>6 DEF Released
<1>12. /\ Range(s.runq) \subseteq Range(m.runq) /\ m.armed \subseteq s.armed
       /\ \A w : DeadOK(s, w) => DeadOK(m, w)
  BY <1>6 DEF Released
<1>13. Released(s, c, q, i, u, m)
  BY <1>6, <1>7, <1>10, <1>11, <1>12 DEF Released
<1> QED BY <1>13 DEF m, q, t

\* unpend_all() releases all and leaves the join queue empty.
LEMMA UnpendAllSound ==
    ASSUME NEW s \in Kernel, NEW c \in CPUs, NEW u \in Threads, Sound(s, c), Placed(s, NULL)
    PROVE  LET r == unpend_all(s, c, u)
           IN  /\ Sound(r, c) /\ Placed(r, NULL) /\ Frame(s, r)
               /\ Range(s.runq) \subseteq Range(r.runq) /\ r.armed \subseteq s.armed
               /\ \A w : DeadOK(s, w) => DeadOK(r, w)
               /\ \A v \in Threads : r.state[v] \ {"queued", "pending"}
                                        = s.state[v] \ {"queued", "pending"}
               /\ \A v \in Threads : s.pended_on[v] # u => r.state[v] = s.state[v]
               /\ r.join_queue[u] = <<>>
<1> DEFINE q == s.join_queue[u]
           n == Len(q)
<1>1. q \in Seq(Threads) /\ n \in Nat /\ JoinOK(s) /\ NULL \notin Threads
  BY SchedAssumption, LenProperties DEF Kernel, Sound
<1>2. PICK g : /\ unpend_all(s, c, u) = g[n] /\ g[0] = s
               /\ \A i \in 1..n : g[i] = Release(g[i - 1], c, q[i])
  BY <1>1, UnpendAllIs
<1> DEFINE T == {i \in Nat : i <= n => Released(s, c, q, i, u, g[i])}
<1>3. Released(s, c, q, 0, u, s)
  BY <1>1 DEF Released, Frame
<1>4. ASSUME NEW i \in Nat, \A m \in Nat : m < i => m \in T PROVE i \in T
  <2>1. CASE i = 0
    BY <1>2, <1>3, <2>1
  <2>2. CASE i # 0
    <3> SUFFICES ASSUME i <= n PROVE Released(s, c, q, i, u, g[i])
      OBVIOUS
    <3>1. i \in 1..n /\ i - 1 \in Nat /\ i - 1 < i /\ i - 1 <= n
      BY <1>1, <2>2
    <3>2. Released(s, c, q, i - 1, u, g[i - 1])
      BY <1>4, <3>1
    <3>3. Released(s, c, q, i, u, Release(g[i - 1], c, q[i]))
      BY <1>1, <3>1, <3>2, ReleasedNext
    <3> QED BY <1>2, <3>1, <3>3
  <2> QED BY <2>1, <2>2
<1> HIDE DEF T
<1>5. \A i \in Nat : i \in T
  BY <1>4, CompleteInduction DEF T
<1> DEFINE r == g[n]
<1>6. Released(s, c, q, n, u, r)
  BY <1>1, <1>5 DEF T
<1> HIDE DEF r, n
<1>7. \A v \in Threads : r.pended_on[v] # u
  <2> SUFFICES ASSUME NEW v \in Threads, r.pended_on[v] = u PROVE FALSE
    OBVIOUS
  <2>1. s.pended_on[v] = u /\ ~\E j \in 1..n : q[j] = v
    BY <1>1, <1>6 DEF Released
  <2>2. v \in Range(q)
    BY <1>1, <2>1 DEF JoinOK
  <2> QED BY <1>1, <2>1, <2>2, RangeMembers DEF n
<1>8. r.join_queue[u] = <<>>
  <2>1. r \in Kernel /\ JoinOK(r)
    BY <1>6 DEF Released, Sound
  <2>2. r.join_queue[u] \in Seq(Threads)
    BY <2>1 DEF Kernel
  <2>3. Range(r.join_queue[u]) \subseteq Threads
    BY <2>2, RangeMembers
  <2>4. ~\E v \in Threads : v \in Range(r.join_queue[u])
    BY <1>7, <2>1 DEF JoinOK
  <2> QED BY <2>2, <2>3, <2>4, TailRange
<1>9. unpend_all(s, c, u) = r
  BY <1>2 DEF r
<1> QED BY <1>6, <1>8, <1>9 DEF Released

-----------------------------------------------------------------------------
(* The end of a thread. *)

\* r is s in the fields that the invariant is about,
SameCore(s, r) ==
    /\ r.state = s.state /\ r.runq = s.runq /\ r.cur = s.cur /\ r.prio = s.prio
    /\ r.armed = s.armed /\ r.pended_on = s.pended_on /\ r.join_queue = s.join_queue

\* and in all but swap_ok.
SameButCache(s, r) ==
    /\ SameCore(s, r) /\ r.sched_locked = s.sched_locked
    /\ r.pending_ipi = s.pending_ipi /\ r.ipi = s.ipi

\* update_cache() in the fields.
LEMMA CacheFields ==
    ASSUME NEW s \in Kernel, NEW c \in CPUs, NEW b \in BOOLEAN
    PROVE  /\ update_cache(s, c, b) \in Kernel
           /\ SameButCache(s, update_cache(s, c, b))
           /\ update_cache(s, c, b).swap_ok = [s.swap_ok EXCEPT ![c] = b]
BY DEF update_cache, Kernel, SameButCache, SameCore

\* swap_ok and the interrupts have no part in the invariant.
LEMMA CoreSound ==
    ASSUME NEW s \in Kernel, NEW r \in Kernel, SameCore(s, r), NEW c \in CPUs
    PROVE  /\ Sound(s, c) => Sound(r, c)
           /\ \A x : Placed(s, x) => Placed(r, x)
           /\ \A u : DeadOK(s, u) => DeadOK(r, u)
<1>1. \A t : z_is_thread_ready(r, t) <=> z_is_thread_ready(s, t)
  BY DEF SameCore, z_is_thread_ready, Prevented
<1>2. \A t : Prevented(r, t) <=> Prevented(s, t)
  BY DEF SameCore, Prevented
<1>3. QueueOK(s) => QueueOK(r)
  BY <1>1 DEF SameCore, QueueOK
<1>4. CurOK(s) => CurOK(r)
  BY DEF SameCore, CurOK
<1>5. JoinOK(s) => JoinOK(r)
  BY DEF SameCore, JoinOK
<1>6. AbortOK(s) => AbortOK(r)
  BY DEF SameCore, AbortOK
<1>7. RunsOK(s, c) => RunsOK(r, c)
  BY <1>2 DEF SameCore, RunsOK
<1>8. \A x : Placed(s, x) => Placed(r, x)
  BY <1>1 DEF SameCore, Placed
<1>9. \A u : DeadOK(s, u) => DeadOK(r, u)
  BY DEF SameCore, DeadOK
<1> QED BY <1>3, <1>4, <1>5, <1>6, <1>7, <1>8, <1>9 DEF Sound

\* update_cache() changes nothing that matters.
LEMMA CacheSound ==
    ASSUME NEW s \in Kernel, NEW r \in Kernel, SameButCache(s, r), NEW c \in CPUs
    PROVE  /\ Sound(s, c) => Sound(r, c)
           /\ \A x : Placed(s, x) => Placed(r, x)
           /\ \A u : DeadOK(s, u) => DeadOK(r, u)
           /\ Frame(s, r)
<1>1. SameCore(s, r)
  BY DEF SameButCache
<1>2. Frame(s, r)
  BY DEF SameButCache, SameCore, Frame
<1> QED BY <1>1, <1>2, CoreSound

\* What end_thread() leaves.
Ended(s, c, t, r) ==
    /\ Sound(r, c) /\ Placed(r, NULL) /\ DeadOK(r, NULL) /\ Frame(s, r)
    /\ r.armed \subseteq s.armed /\ Range(s.runq) \ {t} \subseteq Range(r.runq)
    /\ "dead" \in r.state[t] /\ "aborting" \notin r.state[t]
    /\ \A v \in Threads \ {t} :
          /\ r.state[v] \ {"queued", "pending"} = s.state[v] \ {"queued", "pending"}
          /\ "pending" \notin s.state[v] => r.state[v] = s.state[v]

\* A thread that is taken out of all queues but its own join queue.
LEMMA GoneSound ==
    ASSUME NEW s \in Kernel, NEW c \in CPUs, NEW t \in Threads, Sound(s, c),
           Placed(s, NULL), DeadOK(s, NULL), \A d \in CPUs \ {c} : s.cur[d] # t
    PROVE  LET m == [Unpended(unready_thread(Buried(s, t), c, t), t) EXCEPT !.armed = @ \ {t}]
           IN  /\ Sound(m, c) /\ Placed(m, NULL) /\ DeadOK(m, t) /\ Frame(s, m)
               /\ m.armed \subseteq s.armed /\ Range(s.runq) \ {t} \subseteq Range(m.runq)
               /\ "dead" \in m.state[t] /\ "aborting" \notin m.state[t]
               /\ \A v \in Threads \ {t} : /\ m.state[v] = s.state[v]
                                           /\ m.pended_on[v] = s.pended_on[v]
<1> DEFINE b == Buried(s, t)
           u == unready_thread(b, c, t)
           p == Unpended(u, t)
           m == [p EXCEPT !.armed = @ \ {t}]
           r == unready_thread(s, c, t)
<1>0. /\ s.state \in [Threads -> SUBSET Flags] /\ NULL \notin Threads
      /\ s.pended_on \in [Threads -> Threads \union {NULL}] /\ s.runq \in Seq(Threads)
  BY SchedAssumption DEF Kernel
<1>1. /\ b \in Kernel
      /\ b.state = [s.state EXCEPT ![t] = (@ \union {"dead"}) \ {"aborting"}]
      /\ b.runq = s.runq /\ b.cur = s.cur /\ b.prio = s.prio /\ b.armed = s.armed
      /\ b.pended_on = s.pended_on /\ b.join_queue = s.join_queue
      /\ b.sched_locked = s.sched_locked /\ b.pending_ipi = s.pending_ipi /\ b.ipi = s.ipi
  BY DEF Buried, Kernel, Flags
<1> HIDE DEF b
<1>2. u \in Kernel /\ Unqueued(b, c, t, u)
  BY <1>1, UnreadyFields
<1> HIDE DEF u
<1>3. \A v \in Threads : u.state[v] = IF v = t
                                      THEN (s.state[t] \union {"dead"}) \ {"aborting", "queued"}
                                      ELSE s.state[v]
  <2>1. \A v \in Threads : b.state[v] = IF v = t THEN (s.state[t] \union {"dead"}) \ {"aborting"}
                                        ELSE s.state[v]
    BY <1>0, <1>1
  <2>2. b.state \in [Threads -> SUBSET Flags]
    BY <1>1 DEF Kernel
  <2>3. \A v \in Threads : u.state[v] = IF v = t THEN b.state[t] \ {"queued"} ELSE b.state[v]
    BY <1>2, <2>2 DEF Unqueued
  <2> QED BY <2>1, <2>3
<1>4. /\ u.runq = IF "queued" \in s.state[t] /\ t # s.cur[c] THEN Without(s.runq, t) ELSE s.runq
      /\ u.cur = s.cur /\ u.prio = s.prio /\ u.armed = s.armed
      /\ u.pended_on = s.pended_on /\ u.join_queue = s.join_queue
      /\ u.sched_locked = s.sched_locked /\ u.pending_ipi = s.pending_ipi /\ u.ipi = s.ipi
  BY <1>0, <1>1, <1>2 DEF SameJoins, Unqueued
<1>5. /\ p \in Kernel /\ p.runq = u.runq /\ p.cur = u.cur /\ p.prio = u.prio /\ p.armed = u.armed
      /\ p.sched_locked = u.sched_locked /\ p.pending_ipi = u.pending_ipi /\ p.ipi = u.ipi
      /\ \A v \in Threads : p.state[v] = IF v = t THEN u.state[t] \ {"pending"} ELSE u.state[v]
      /\ \/ s.pended_on[t] \in Threads /\ Unjoined(u, t, p)
         \/ s.pended_on[t] = NULL /\ SameJoins(u, p)
  <2>1. CASE s.pended_on[t] # NULL
    <3>1. u.pended_on[t] \in Threads
      BY <1>0, <1>4, <2>1
    <3>2. p = unpend_thread_no_timeout(u, t)
      BY <1>4, <2>1 DEF Unpended
    <3>3. u.state \in [Threads -> SUBSET Flags]
      BY <1>2 DEF Kernel
    <3>4. p \in Kernel /\ UnpendOnly(u, t, p)
      BY <1>2, <3>1, <3>2, UnpendFields
    <3> HIDE DEF p
    <3> QED BY <1>4, <3>1, <3>3, <3>4 DEF UnpendOnly
  <2>2. CASE s.pended_on[t] = NULL
    <3>1. p = u
      BY <1>4, <2>2 DEF Unpended
    <3>2. "pending" \notin s.state[t]
      BY <2>2 DEF Sound, JoinOK
    <3>3. "pending" \notin u.state[t]
      BY <1>3, <3>2
    <3>4. \A v \in Threads : u.state[v] = IF v = t THEN u.state[t] \ {"pending"} ELSE u.state[v]
      BY <3>3
    <3> HIDE DEF p
    <3> QED BY <1>2, <2>2, <3>1, <3>4 DEF SameJoins
  <2> QED BY <2>1, <2>2
<1> HIDE DEF p
<1>6. /\ m \in Kernel /\ m.armed = s.armed \ {t} /\ m.state = p.state
      /\ m.runq = u.runq /\ m.cur = s.cur /\ m.prio = s.prio
      /\ m.join_queue = p.join_queue /\ m.pended_on = p.pended_on
      /\ m.sched_locked = s.sched_locked /\ m.pending_ipi = s.pending_ipi /\ m.ipi = s.ipi
  BY <1>4, <1>5 DEF Kernel
<1> HIDE DEF m
<1>7. \A v \in Threads :
         m.state[v] = IF v = t
                      THEN (s.state[t] \union {"dead"}) \ {"aborting", "queued", "pending"}
                      ELSE s.state[v]
  BY <1>3, <1>5, <1>6
<1>8. r \in Kernel /\ Unqueued(s, c, t, r)
  BY UnreadyFields
<1> HIDE DEF r
<1>9. /\ Sound(r, c) /\ t \notin Range(r.runq) /\ Range(r.runq) = Range(s.runq) \ {t}
      /\ Placed(s, t) => Placed(r, t)
      /\ \A v \in Threads : r.state[v] = IF v = t THEN s.state[v] \ {"queued"} ELSE s.state[v]
      /\ r.runq = u.runq /\ r.cur = s.cur /\ r.prio = s.prio /\ r.armed = s.armed
  <2>1. /\ Sound(r, c) /\ t \notin Range(r.runq) /\ Range(r.runq) = Range(s.runq) \ {t}
        /\ Placed(s, t) => Placed(r, t)
        /\ \A v \in Threads : r.state[v] = IF v = t THEN s.state[v] \ {"queued"} ELSE s.state[v]
    <3>1. Off(s, c, t, r)
      BY <1>8, UnreadySound
    <3> QED BY <3>1 DEF Off
  <2>2. r.runq = u.runq /\ r.cur = s.cur /\ r.prio = s.prio /\ r.armed = s.armed
    BY <1>4, <1>8 DEF Unqueued
  <2> QED BY <2>1, <2>2
<1>10. /\ JoinOK(m)
       /\ \A v \in Threads : s.join_queue[v] = <<>> => m.join_queue[v] = <<>>
       /\ \A v \in Threads : m.pended_on[v] = IF v = t THEN NULL ELSE s.pended_on[v]
  <2>1. CASE s.pended_on[t] \in Threads /\ Unjoined(u, t, p)
    <3>1. Unjoined(s, t, m)
      BY <1>4, <1>6, <2>1 DEF Unjoined
    <3>2. /\ "pending" \notin m.state[t] /\ JoinOK(s)
          /\ \A v \in Threads \ {t} : "pending" \in m.state[v] <=> "pending" \in s.state[v]
      BY <1>7 DEF Sound
    <3>3. m \in Kernel
      BY <1>6
    <3>4. JoinsWithout(s, t, m)
      BY <2>1, <3>1, <3>2, <3>3, UnjoinedOK
    <3>5. \A v \in Threads : m.pended_on[v] = IF v = t THEN NULL ELSE s.pended_on[v]
      BY <1>0, <3>1 DEF Unjoined
    <3> QED BY <3>4, <3>5 DEF JoinsWithout
  <2>2. CASE s.pended_on[t] = NULL /\ SameJoins(u, p)
    <3>1. m.join_queue = s.join_queue /\ m.pended_on = s.pended_on
      BY <1>4, <1>6, <2>2 DEF SameJoins
    <3>2. \A v \in Threads : "pending" \in m.state[v] <=> "pending" \in s.state[v]
      BY <1>7, <2>2 DEF Sound, JoinOK
    <3> QED BY <2>2, <3>1, <3>2 DEF Sound, JoinOK
  <2> QED BY <1>5, <2>1, <2>2
<1>11. Touched(r, t, m)
  BY <1>6, <1>7, <1>8, <1>9 DEF Touched
<1>12. FitFor(r, c, t, m)
  BY <1>6, <1>7, <1>8, <1>9 DEF FitFor
<1>13. ~z_is_thread_ready(m, t) /\ "dead" \in m.state[t] /\ "aborting" \notin m.state[t]
  BY <1>7 DEF z_is_thread_ready, Prevented
<1>14. Placed(s, t)
  BY <1>0 DEF Placed
<1>15. Sound(m, c) /\ Placed(m, NULL)
  BY <1>6, <1>8, <1>9, <1>10, <1>11, <1>12, <1>13, <1>14, TouchSound
<1>16. DeadOK(m, t)
  BY <1>0, <1>6, <1>7, <1>10 DEF DeadOK
<1>17. Frame(s, m)
  BY <1>6, <1>8, <1>9 DEF Frame
<1>18. Range(s.runq) \ {t} \subseteq Range(m.runq)
  BY <1>6, <1>9
<1> QED BY <1>6, <1>7, <1>10, <1>13, <1>15, <1>16, <1>17, <1>18 DEF m, p, u, b

\* end_thread().
LEMMA EndSound ==
    ASSUME NEW s \in Kernel, NEW c \in CPUs, NEW t \in Threads, Sound(s, c),
           Placed(s, NULL), DeadOK(s, NULL), \A d \in CPUs \ {c} : s.cur[d] # t
    PROVE  Ended(s, c, t, end_thread(s, c, t))
<1>1. CASE "dead" \in s.state[t]
  <2>1. end_thread(s, c, t) = s
    BY <1>1 DEF end_thread
  <2> QED BY <1>1, <2>1 DEF Ended, Frame, Sound, AbortOK
<1>2. CASE "dead" \notin s.state[t]
  <2> DEFINE m == [Unpended(unready_thread(Buried(s, t), c, t), t) EXCEPT !.armed = @ \ {t}]
             a == unpend_all(m, c, t)
             r == update_cache(a, c, TRUE)
  <2>1. end_thread(s, c, t) = r
    BY <1>2 DEF end_thread
  <2>2. /\ Sound(m, c) /\ Placed(m, NULL) /\ DeadOK(m, t) /\ Frame(s, m)
        /\ m.armed \subseteq s.armed /\ Range(s.runq) \ {t} \subseteq Range(m.runq)
        /\ "dead" \in m.state[t] /\ "aborting" \notin m.state[t]
        /\ \A v \in Threads \ {t} : /\ m.state[v] = s.state[v]
                                    /\ m.pended_on[v] = s.pended_on[v]
    BY GoneSound
  <2> HIDE DEF m
  <2>3. m \in Kernel
    BY <2>2 DEF Sound
  <2>4. /\ Sound(a, c) /\ Placed(a, NULL) /\ Frame(m, a)
        /\ Range(m.runq) \subseteq Range(a.runq) /\ a.armed \subseteq m.armed
        /\ \A w : DeadOK(m, w) => DeadOK(a, w)
        /\ \A v \in Threads : a.state[v] \ {"queued", "pending"}
                                 = m.state[v] \ {"queued", "pending"}
        /\ \A v \in Threads : m.pended_on[v] # t => a.state[v] = m.state[v]
        /\ a.join_queue[t] = <<>>
    BY <2>2, <2>3, UnpendAllSound
  <2> HIDE DEF a
  <2>5. a \in Kernel
    BY <2>4 DEF Sound
  <2>6. r \in Kernel /\ SameButCache(a, r)
    BY <2>5, CacheFields
  <2> HIDE DEF r
  <2>7. Sound(r, c) /\ Placed(r, NULL) /\ Frame(a, r)
    BY <2>4, <2>5, <2>6, CacheSound
  <2>8. DeadOK(r, NULL)
    <3>1. DeadOK(a, t)
      BY <2>2, <2>4
    <3>2. DeadOK(a, NULL)
      BY <2>4, <3>1 DEF DeadOK
    <3> QED BY <2>5, <2>6, <3>2, CacheSound
  <2>9. Frame(s, r)
    BY <2>2, <2>4, <2>7 DEF Frame
  <2>10. r.armed \subseteq s.armed /\ Range(s.runq) \ {t} \subseteq Range(r.runq)
    BY <2>2, <2>4, <2>6 DEF SameButCache, SameCore
  <2>11. "dead" \in r.state[t] /\ "aborting" \notin r.state[t]
    BY <2>2, <2>4, <2>6 DEF SameButCache, SameCore
  <2>12. ASSUME NEW v \in Threads \ {t}
         PROVE  /\ r.state[v] \ {"queued", "pending"} = s.state[v] \ {"queued", "pending"}
                /\ "pending" \notin s.state[v] => r.state[v] = s.state[v]
    <3>1. r.state[v] = a.state[v] /\ m.state[v] = s.state[v] /\ m.pended_on[v] = s.pended_on[v]
      BY <2>2, <2>6 DEF SameButCache, SameCore
    <3>2. "pending" \notin s.state[v] => s.pended_on[v] = NULL
      BY DEF Sound, JoinOK
    <3> QED BY <2>4, <3>1, <3>2, SchedAssumption
  <2> QED BY <2>1, <2>7, <2>8, <2>9, <2>10, <2>11, <2>12 DEF Ended
<1> QED BY <1>1, <1>2

-----------------------------------------------------------------------------
(* The switch. *)

\* What the first part of next_up() leaves, which ends an aborted thread.
Aborted(s, c, a) ==
    /\ Sound(a, c) /\ Placed(a, NULL) /\ DeadOK(a, NULL) /\ Frame(s, a)
    /\ a.armed \subseteq s.armed /\ Range(s.runq) \subseteq Range(a.runq)
    /\ s.cur[c] # NULL => "aborting" \notin a.state[s.cur[c]]
    /\ s.cur[c] # NULL /\ "aborting" \in s.state[s.cur[c]] => "dead" \in a.state[s.cur[c]]
    /\ \A v \in Threads : v # s.cur[c] =>
          /\ a.state[v] \ {"queued", "pending"} = s.state[v] \ {"queued", "pending"}
          /\ "pending" \notin s.state[v] => a.state[v] = s.state[v]
    /\ a = s \/ (s.cur[c] # NULL /\ "aborting" \in s.state[s.cur[c]])

\* Only a thread of this CPU is ended.
LEMMA EndAbortedSound ==
    ASSUME NEW s \in Kernel, NEW c \in CPUs, Sound(s, c), Placed(s, NULL), DeadOK(s, NULL)
    PROVE  Aborted(s, c, EndAborted(s, c))
<1> DEFINE t == s.cur[c]
           a == EndAborted(s, c)
<1>1. CASE t # NULL /\ "aborting" \in s.state[t]
  <2>1. t \in Threads
    BY <1>1 DEF Kernel
  <2>2. \A d \in CPUs \ {c} : s.cur[d] # t
    BY <1>1 DEF Sound, CurOK
  <2>3. a = end_thread(s, c, t)
    BY <1>1 DEF EndAborted
  <2>4. Ended(s, c, t, a)
    BY <2>1, <2>2, <2>3, EndSound
  <2>5. t \notin Range(s.runq)
    BY DEF Sound, CurOK
  <2> HIDE DEF a, t
  <2> QED BY <1>1, <2>4, <2>5 DEF Ended, Aborted, a, t
<1>2. CASE ~(t # NULL /\ "aborting" \in s.state[t])
  <2>1. a = s
    BY <1>2 DEF EndAborted
  <2> QED BY <1>2, <2>1 DEF Aborted, Frame
<1> QED BY <1>1, <1>2

\* The thread that comes back into the run queue.
Back(a, c) == a.cur[c] # NULL /\ ~Prevented(a, a.cur[c])

\* r is a after the current thread of c has given way to new.
Switched(a, c, new, r) ==
    /\ r.cur = [a.cur EXCEPT ![c] = new]
    /\ r.prio = a.prio /\ r.armed = a.armed /\ SameJoins(a, r)
    /\ r.sched_locked = a.sched_locked /\ r.pending_ipi = a.pending_ipi /\ r.ipi = a.ipi
    /\ \A v \in Threads :
          r.state[v] = IF v = new THEN a.state[v] \ {"queued"}
                       ELSE IF v = a.cur[c] /\ Back(a, c) THEN a.state[v] \union {"queued"}
                       ELSE a.state[v]
    /\ LET rest == IF new \in Range(a.runq) THEN Without(a.runq, new) ELSE a.runq
       IN  r.runq = IF new # a.cur[c] /\ Back(a, c) THEN InsertByPrio(a, rest, a.cur[c])
                    ELSE rest

\* The rest of next_up(), and z_requeue_current().
LEMMA SwitchFields ==
    ASSUME NEW a \in Kernel, NEW c \in CPUs, Sound(a, c),
           NEW new \in Range(a.runq) \union {NULL, a.cur[c]}
    PROVE  /\ Requeue(TakeNext(a, c, new), c, a.cur[c]) \in Kernel
           /\ Switched(a, c, new, Requeue(TakeNext(a, c, new), c, a.cur[c]))
<1> DEFINE old == a.cur[c]
           p == PutBack(a, c, new)
           u == unready_thread(p, c, new)
           n == [u EXCEPT !.swap_ok[c] = FALSE, !.cur[c] = new]
           r == Requeue(n, c, old)
<1>0. /\ a.runq \in Seq(Threads) /\ a.state \in [Threads -> SUBSET Flags]
      /\ a.cur \in [CPUs -> Threads \union {NULL}] /\ NULL \notin Threads
      /\ a.prio \in [Threads -> Int]
  BY SchedAssumption DEF Kernel
<1>1. Range(a.runq) \subseteq Threads /\ new \in Threads \union {NULL}
  BY <1>0, RangeMembers
<1>2. old \notin Range(a.runq)
  BY DEF Sound, CurOK
<1>3. /\ p \in Kernel /\ p.runq = a.runq /\ p.cur = a.cur /\ p.prio = a.prio
      /\ p.armed = a.armed /\ SameJoins(a, p) /\ p.sched_locked = a.sched_locked
      /\ p.pending_ipi = a.pending_ipi /\ p.ipi = a.ipi
      /\ \A v \in Threads : p.state[v] = IF v = old /\ new # old /\ Back(a, c)
                                         THEN a.state[v] \union {"queued"} ELSE a.state[v]
  <2>1. CASE new # old /\ old # NULL /\ ~Prevented(a, old) /\ "queued" \notin a.state[old]
    <3>1. p = queue_thread(a, c, old) /\ old \in Threads
      BY <1>0, <2>1 DEF PutBack
    <3>2. /\ p \in Kernel /\ Queued(a, c, old, p)
          /\ p.sched_locked = a.sched_locked /\ p.pending_ipi = a.pending_ipi /\ p.ipi = a.ipi
      BY <3>1, QueueFields
    <3> HIDE DEF p
    <3> QED BY <1>0, <2>1, <3>1, <3>2 DEF Queued, SameJoins, Back
  <2>2. CASE ~(new # old /\ old # NULL /\ ~Prevented(a, old) /\ "queued" \notin a.state[old])
    <3>1. p = a
      BY <2>2 DEF PutBack
    <3> HIDE DEF p
    <3>2. new # old /\ Back(a, c) => "queued" \in a.state[old]
      BY <2>2 DEF Back
    <3> QED BY <3>1, <3>2 DEF SameJoins
  <2> QED BY <2>1, <2>2
<1> HIDE DEF p
<1>4. /\ u \in Kernel /\ u.cur = a.cur /\ u.prio = a.prio
      /\ u.armed = a.armed /\ SameJoins(a, u) /\ u.sched_locked = a.sched_locked
      /\ u.pending_ipi = a.pending_ipi /\ u.ipi = a.ipi
      /\ \A v \in Threads : u.state[v] = IF v = new THEN p.state[v] \ {"queued"} ELSE p.state[v]
      /\ u.runq = IF new \in Range(a.runq) THEN Without(a.runq, new) ELSE a.runq
  <2>1. CASE new = NULL
    <3>1. u = p
      BY <2>1 DEF unready_thread
    <3> QED BY <1>0, <1>1, <1>3, <2>1, <3>1
  <2>2. CASE new # NULL
    <3>1. new \in Threads
      BY <1>1, <2>2
    <3>2. u \in Kernel /\ Unqueued(p, c, new, u)
      BY <1>3, <3>1, UnreadyFields
    <3> HIDE DEF u
    <3>3. p.state \in [Threads -> SUBSET Flags]
      BY <1>3 DEF Kernel
    <3>4. new \in Range(a.runq) => "queued" \in p.state[new] /\ new # p.cur[c]
      BY <1>2, <1>3, <3>1 DEF Sound, QueueOK
    <3>5. new \notin Range(a.runq) => new = p.cur[c]
      BY <1>3, <2>2
    <3>6. u.runq = IF new \in Range(a.runq) THEN Without(a.runq, new) ELSE a.runq
      BY <1>3, <3>2, <3>4, <3>5 DEF Unqueued
    <3> QED BY <1>3, <3>1, <3>2, <3>3, <3>6 DEF Unqueued, SameJoins
  <2> QED BY <2>1, <2>2
<1> HIDE DEF u
<1>5. /\ n \in Kernel /\ n.cur = [a.cur EXCEPT ![c] = new] /\ n.prio = a.prio
      /\ n.armed = a.armed /\ n.pended_on = u.pended_on /\ n.join_queue = u.join_queue
      /\ n.sched_locked = a.sched_locked
      /\ n.pending_ipi = a.pending_ipi /\ n.ipi = a.ipi
      /\ n.state = u.state /\ n.runq = u.runq
  BY <1>1, <1>4 DEF Kernel
<1>6. TakeNext(a, c, new) = n
  BY DEF TakeNext, u, p
<1> HIDE DEF n
<1>7. \A v \in Threads :
         n.state[v] = IF v = new THEN a.state[v] \ {"queued"}
                      ELSE IF v = old /\ Back(a, c) THEN a.state[v] \union {"queued"}
                      ELSE a.state[v]
  BY <1>3, <1>4, <1>5
<1>8. n.cur[c] = new /\ n.runq \in Seq(Threads)
  BY <1>0, <1>5 DEF Kernel
<1>9. n.cur[c] # old /\ old # NULL /\ "queued" \in n.state[old] <=> new # old /\ Back(a, c)
  <2>1. CASE old = NULL \/ new = old
    BY <1>8, <2>1 DEF Back
  <2>2. CASE old # NULL /\ new # old
    <3>1. old \in Threads
      BY <1>0, <2>2
    <3>2. "queued" \in a.state[old] => ~Prevented(a, old)
      BY <3>1 DEF Sound, QueueOK, z_is_thread_ready
    <3>3. n.state[old] = IF Back(a, c) THEN a.state[old] \union {"queued"} ELSE a.state[old]
      BY <1>7, <2>2, <3>1
    <3> QED BY <1>8, <2>2, <3>2, <3>3 DEF Back
  <2> QED BY <2>1, <2>2
<1>10. InsertByPrio(n, n.runq, old) = InsertByPrio(a, n.runq, old)
  BY <1>5 DEF InsertByPrio, Before
<1>11. CASE new # old /\ Back(a, c)
  <2>1. r = [n EXCEPT !.runq = InsertByPrio(n, @, old)]
    BY <1>9, <1>11 DEF Requeue
  <2>2. old \in Threads
    BY <1>0, <1>11 DEF Back
  <2>3. InsertByPrio(n, n.runq, old) \in Seq(Threads)
    BY <1>5, <1>8, <2>2, InsertFacts
  <2>4. /\ r \in Kernel /\ r.cur = n.cur /\ r.prio = n.prio /\ r.armed = n.armed
        /\ r.pended_on = n.pended_on /\ r.join_queue = n.join_queue
        /\ r.sched_locked = n.sched_locked /\ r.pending_ipi = n.pending_ipi /\ r.ipi = n.ipi
        /\ r.state = n.state /\ r.runq = InsertByPrio(n, n.runq, old)
    BY <1>5, <2>1, <2>3 DEF Kernel
  <2> HIDE DEF r
  <2>5. Switched(a, c, new, r)
    <3>1. /\ r.cur = [a.cur EXCEPT ![c] = new]
          /\ r.prio = a.prio /\ r.armed = a.armed /\ SameJoins(a, r)
          /\ r.sched_locked = a.sched_locked /\ r.pending_ipi = a.pending_ipi /\ r.ipi = a.ipi
      BY <1>4, <1>5, <2>4 DEF SameJoins
    <3>2. \A v \in Threads :
             r.state[v] = IF v = new THEN a.state[v] \ {"queued"}
                          ELSE IF v = old /\ Back(a, c) THEN a.state[v] \union {"queued"}
                          ELSE a.state[v]
      BY <1>7, <2>4
    <3> DEFINE rest == IF new \in Range(a.runq) THEN Without(a.runq, new) ELSE a.runq
    <3>3. n.runq = rest
      BY <1>4, <1>5
    <3> HIDE DEF rest
    <3>4. r.runq = InsertByPrio(a, rest, old)
      BY <1>10, <2>4, <3>3
    <3>5. r.runq = IF new # old /\ Back(a, c) THEN InsertByPrio(a, rest, old) ELSE rest
      BY <1>11, <3>4
    <3> QED BY <3>1, <3>2, <3>5 DEF Switched, rest
  <2> QED BY <1>6, <2>4, <2>5 DEF r
<1>12. CASE ~(new # old /\ Back(a, c))
  <2>1. r = n
    BY <1>9, <1>12 DEF Requeue
  <2> HIDE DEF r
  <2>2. Switched(a, c, new, r)
    BY <1>4, <1>5, <1>7, <1>12, <2>1 DEF Switched, SameJoins
  <2> QED BY <1>5, <1>6, <2>1, <2>2 DEF r
<1> QED BY <1>11, <1>12

\* The switch keeps the record sound: the old thread is back in the run queue
\* if it may run, and the new one is out of it.
LEMMA SwitchedSound ==
    ASSUME NEW a \in Kernel, NEW c \in CPUs, NEW r \in Kernel,
           NEW new \in Range(a.runq) \union {NULL, a.cur[c]},
           Sound(a, c), Placed(a, NULL), DeadOK(a, NULL), Switched(a, c, new, r),
           a.cur[c] # NULL => "aborting" \notin a.state[a.cur[c]],
           new # NULL /\ new = a.cur[c] => ~Prevented(a, new)
    PROVE  /\ Sound(r, c) /\ Placed(r, NULL) /\ DeadOK(r, NULL)
           /\ new # NULL => z_is_thread_ready(r, new) /\ "aborting" \notin r.state[new]
           /\ \A x \in Range(r.runq) : x \in Range(a.runq) \/ (x = a.cur[c] /\ x # new /\ Back(a, c))
<1> DEFINE old == a.cur[c]
           rest == IF new \in Range(a.runq) THEN Without(a.runq, new) ELSE a.runq
<1>0. /\ a.runq \in Seq(Threads) /\ a.state \in [Threads -> SUBSET Flags]
      /\ a.cur \in [CPUs -> Threads \union {NULL}] /\ NULL \notin Threads
      /\ a.prio \in [Threads -> Int]
  BY SchedAssumption DEF Kernel
<1>1. Range(a.runq) \subseteq Threads /\ new \in Threads \union {NULL}
  BY <1>0, RangeMembers
<1>2. \A d \in CPUs : a.cur[d] \notin Range(a.runq)
  BY DEF Sound, CurOK
<1>3. /\ \A d \in CPUs : r.cur[d] = IF d = c THEN new ELSE a.cur[d]
      /\ r.prio = a.prio /\ r.armed = a.armed
      /\ r.pended_on = a.pended_on /\ r.join_queue = a.join_queue
      /\ \A v \in Threads :
            r.state[v] = IF v = new THEN a.state[v] \ {"queued"}
                         ELSE IF v = old /\ Back(a, c) THEN a.state[v] \union {"queued"}
                         ELSE a.state[v]
      /\ r.runq = IF new # old /\ Back(a, c) THEN InsertByPrio(a, rest, old) ELSE rest
  BY <1>0 DEF Switched, SameJoins
<1>4. /\ rest \in Seq(Threads) /\ IsInjective(rest) /\ Ordered(rest, a.prio)
      /\ Range(rest) = Range(a.runq) \ {new}
  <2>1. IsInjective(a.runq) /\ Ordered(a.runq, a.prio)
    BY DEF Sound, QueueOK
  <2> QED BY <1>0, <1>1, <2>1, WithoutFacts
<1> HIDE DEF rest
<1>5. /\ IsInjective(r.runq) /\ Ordered(r.runq, r.prio)
      /\ Range(r.runq) = (Range(a.runq) \ {new})
                            \union (IF new # old /\ Back(a, c) THEN {old} ELSE {})
  <2>1. CASE new # old /\ Back(a, c)
    <3>1. old \in Threads /\ old \notin Range(rest)
      BY <1>0, <1>2, <1>4, <2>1 DEF Back
    <3> DEFINE q == InsertByPrio(a, rest, old)
    <3>2. /\ Range(q) = Range(rest) \union {old}
          /\ IsInjective(rest) /\ old \notin Range(rest) => IsInjective(q)
          /\ Ordered(rest, a.prio) => Ordered(q, a.prio)
      <4>1. rest \in Seq(Threads) /\ old \in Threads
        BY <1>4, <3>1
      <4> HIDE DEF old
      <4> QED BY <4>1, InsertFacts
    <3> HIDE DEF q
    <3>3. r.runq = q
      BY <1>3, <2>1 DEF q
    <3> QED BY <1>3, <1>4, <2>1, <3>1, <3>2, <3>3
  <2>2. CASE ~(new # old /\ Back(a, c))
    BY <1>3, <1>4, <2>2
  <2> QED BY <2>1, <2>2
<1>6. \A v \in Threads : /\ Prevented(r, v) <=> Prevented(a, v)
                         /\ z_is_thread_ready(r, v) <=> z_is_thread_ready(a, v)
  BY <1>3 DEF Prevented, z_is_thread_ready
<1>7. ASSUME NEW v \in Threads, NEW f, f # "queued"
       PROVE  f \in r.state[v] <=> f \in a.state[v]
  <2>1. CASE v = new
    BY <1>3, <1>7, <2>1
  <2>2. CASE v # new /\ v = old /\ Back(a, c)
    <3>1. r.state[v] = a.state[v] \union {"queued"}
      BY <1>3, <2>2
    <3> QED BY <1>7, <3>1
  <2>3. CASE v # new /\ ~(v = old /\ Back(a, c))
    BY <1>3, <2>3
  <2> QED BY <2>1, <2>2, <2>3
<1>8. Back(a, c) => old \in Threads /\ z_is_thread_ready(a, old)
  BY <1>0 DEF Back, Sound, RunsOK, z_is_thread_ready
<1>9. new # NULL => new \in Threads /\ z_is_thread_ready(a, new)
  <2>1. CASE new \in Range(a.runq)
    BY <1>1, <2>1 DEF Sound, QueueOK
  <2>2. CASE new = old
    BY <1>8, <2>2 DEF Back
  <2> QED BY <2>1, <2>2
<1>10. QueueOK(r)
  <2>1. ASSUME NEW v \in Range(r.runq) PROVE "queued" \in r.state[v]
    <3>1. v \in Threads /\ v # new
      BY <1>1, <1>5, <1>8
    <3>2. CASE v \in Range(a.runq)
      <4>1. "queued" \in a.state[v]
        BY <3>2 DEF Sound, QueueOK
      <4> QED BY <1>3, <3>1, <4>1
    <3>3. CASE v = old /\ Back(a, c)
      BY <1>3, <3>1, <3>3
    <3> QED BY <1>5, <3>2, <3>3
  <2>2. ASSUME NEW v \in Threads, "queued" \in r.state[v]
        PROVE  /\ z_is_thread_ready(r, v)
               /\ v \in Range(r.runq) \/ \E d \in CPUs : r.cur[d] = v
    <3>1. v # new
      BY <1>3, <2>2
    <3>2. CASE v = old /\ Back(a, c)
      BY <1>5, <1>6, <1>8, <3>1, <3>2
    <3>3. CASE ~(v = old /\ Back(a, c))
      <4>1. "queued" \in a.state[v]
        BY <1>3, <2>2, <3>1, <3>3
      <4>2. z_is_thread_ready(a, v) /\ (v \in Range(a.runq) \/ \E d \in CPUs : a.cur[d] = v)
        BY <4>1 DEF Sound, QueueOK
      <4>3. v # old
        BY <1>0, <3>3, <4>2 DEF Back, z_is_thread_ready
      <4>4. v \in Range(r.runq) \/ \E d \in CPUs \ {c} : a.cur[d] = v
        BY <1>5, <3>1, <4>2, <4>3
      <4> QED BY <1>3, <1>6, <4>2, <4>4
    <3> QED BY <3>2, <3>3
  <2> QED BY <1>5, <2>1, <2>2 DEF QueueOK
<1>11. CurOK(r)
  <2>1. \A d \in CPUs : d # c /\ new # NULL => a.cur[d] # new
    BY <1>2 DEF Sound, CurOK
  <2>2. \A d, e \in CPUs : d # e /\ r.cur[d] # NULL => r.cur[d] # r.cur[e]
    BY <1>3, <2>1 DEF Sound, CurOK
  <2>3. new \notin Range(r.runq)
    BY <1>5
  <2>4. ASSUME NEW d \in CPUs, d # c PROVE a.cur[d] \notin Range(r.runq)
    BY <1>2, <1>5, <2>4 DEF Back, Sound, CurOK
  <2> QED BY <1>3, <2>2, <2>3, <2>4 DEF CurOK
<1>12. JoinOK(r) /\ DeadOK(r, NULL)
  <2>1. \A v \in Threads : /\ "pending" \in r.state[v] <=> "pending" \in a.state[v]
                           /\ "dead" \in r.state[v] <=> "dead" \in a.state[v]
    BY <1>7
  <2>2. JoinOK(r)
    BY <1>3, <2>1 DEF Sound, JoinOK
  <2> QED BY <1>3, <2>1, <2>2 DEF DeadOK
<1>13. AbortOK(r)
  <2> SUFFICES ASSUME NEW v \in Threads, "aborting" \in r.state[v]
               PROVE  "dead" \notin r.state[v] /\ \E d \in CPUs : r.cur[d] = v
    BY DEF AbortOK
  <2>1. "aborting" \in a.state[v] /\ ("dead" \in r.state[v] <=> "dead" \in a.state[v])
    BY <1>7
  <2>2. "dead" \notin a.state[v] /\ \E d \in CPUs : a.cur[d] = v
    BY <2>1 DEF Sound, AbortOK
  <2>3. v # old
    BY <1>0, <2>1
  <2> QED BY <1>3, <2>1, <2>2, <2>3
<1>14. RunsOK(r, c)
  <2>1. ASSUME NEW d \in CPUs \ {c}, r.cur[d] # NULL
        PROVE  /\ r.cur[d] \notin r.armed
               /\ r.state[r.cur[d]] \intersect {"pending", "prestart", "dead"} = {}
    <3>1. r.cur[d] = a.cur[d] /\ a.cur[d] \in Threads
      BY <1>0, <1>3, <2>1
    <3>2. /\ a.cur[d] \notin a.armed
          /\ a.state[a.cur[d]] \intersect {"pending", "prestart", "dead"} = {}
      BY <2>1, <3>1 DEF Sound, RunsOK
    <3> QED BY <1>3, <1>7, <3>1, <3>2
  <2>2. r.cur[c] # NULL => r.cur[c] \notin r.armed
    BY <1>3, <1>9 DEF z_is_thread_ready
  <2> QED BY <2>1, <2>2 DEF RunsOK
<1>15. Placed(r, NULL)
  <2> SUFFICES ASSUME NEW v \in Threads, z_is_thread_ready(r, v)
               PROVE  v \in Range(r.runq) \/ (\E d \in CPUs : r.cur[d] = v) \/ InHand(v)
    BY DEF Placed
  <2>1. v \in Range(a.runq) \/ (\E d \in CPUs : a.cur[d] = v) \/ InHand(v)
    BY <1>0, <1>6 DEF Placed
  <2>2. CASE v = new
    BY <1>1, <1>3, <2>2
  <2>3. CASE v # new /\ v \in Range(a.runq)
    BY <1>5, <2>3
  <2>4. CASE v # new /\ v = old
    <3>1. Back(a, c)
      BY <1>0, <1>6, <2>4 DEF Back, z_is_thread_ready
    <3> QED BY <1>5, <2>4, <3>1
  <2>5. CASE \E d \in CPUs \ {c} : a.cur[d] = v
    BY <1>3, <2>5
  <2> QED BY <2>1, <2>2, <2>3, <2>4, <2>5
<1>16. new # NULL => z_is_thread_ready(r, new) /\ "aborting" \notin r.state[new]
  <2> SUFFICES ASSUME new # NULL
               PROVE  z_is_thread_ready(r, new) /\ "aborting" \notin r.state[new]
    OBVIOUS
  <2>1. "aborting" \notin a.state[new]
    BY <1>1, <1>2 DEF Sound, AbortOK
  <2> QED BY <1>3, <1>6, <1>9, <2>1
<1>17. \A x \in Range(r.runq) : x \in Range(a.runq) \/ (x = old /\ x # new /\ Back(a, c))
  BY <1>5
<1> QED BY <1>10, <1>11, <1>12, <1>13, <1>14, <1>15, <1>16, <1>17 DEF Sound

\* Before() as a comparison of ranks.
LEMMA BeforeFacts ==
    ASSUME NEW s \in Kernel, NEW t \in Threads, NEW u \in Threads
    PROVE  /\ Before(s, t, u) <=> s.prio[t] < s.prio[u]
           /\ s.prio[t] \in Int /\ s.prio[u] \in Int
           /\ Before(s, t, NULL) /\ ~Before(s, NULL, t) /\ ~Before(s, NULL, NULL)
BY SchedAssumption DEF Before, Kernel

\* The head of the run queue is one of its most urgent threads.
IsBest(s, b) ==
    /\ b = NULL => Range(s.runq) = {}
    /\ b # NULL => b \in Range(s.runq) /\ b \in Threads
    /\ \A t \in Range(s.runq) : t \in Threads /\ ~Before(s, t, b)

\* Best() is such a thread.
LEMMA BestFacts ==
    ASSUME NEW s \in Kernel, QueueOK(s)
    PROVE  IsBest(s, Best(s))
<1>1. s.runq \in Seq(Threads) /\ s.prio \in [Threads -> Int] /\ NULL \notin Threads
  BY SchedAssumption DEF Kernel
<1>2. Range(s.runq) \subseteq Threads
  BY <1>1, RangeMembers
<1>3. CASE s.runq = <<>>
  <2>1. Range(s.runq) = {}
    BY <1>3 DEF Range
  <2>2. Best(s) = NULL
    BY <1>3 DEF Best
  <2> QED BY <2>1, <2>2 DEF IsBest
<1>4. CASE s.runq # <<>>
  <2>1. Best(s) = Head(s.runq)
    BY <1>4 DEF Best
  <2>2. Head(s.runq) \in Threads /\ Head(s.runq) \in Range(s.runq)
    BY <1>1, <1>4, TailRange
  <2>3. \A t \in Range(s.runq) : s.prio[Head(s.runq)] <= s.prio[t]
    <3>1. Ordered(s.runq, s.prio)
      BY DEF QueueOK
    <3> QED BY <1>1, <1>4, <3>1, RankHead
  <2>4. ASSUME NEW t \in Range(s.runq) PROVE t \in Threads /\ ~Before(s, t, Best(s))
    <3>1. t \in Threads
      BY <1>2
    <3>2. s.prio[Head(s.runq)] <= s.prio[t]
      BY <2>3
    <3> QED BY <2>1, <2>2, <3>1, <3>2, BeforeFacts
  <2> QED BY <1>1, <2>1, <2>2, <2>4 DEF IsBest
<1> QED BY <1>3, <1>4

\* What next_up() chooses: of the thread that goes back, and of those in the
\* run queue before it ended another, none should run instead.
Choice(s, c, a, new) ==
    /\ new \in Range(a.runq) \union {NULL, a.cur[c]}
    /\ new # NULL /\ new = a.cur[c] => ~Prevented(a, new)
    /\ new # a.cur[c] /\ Back(a, c) => new \in Range(s.runq) /\ ~Before(a, a.cur[c], new)
    /\ a = s => \A t \in Range(s.runq) : ~(Before(s, t, new) /\ Preemptible(s, new))

\* Chosen() chooses so.
LEMMA ChoiceFacts ==
    ASSUME NEW s \in Kernel, NEW c \in CPUs, NEW a \in Kernel, Sound(s, c), Aborted(s, c, a)
    PROVE  Choice(s, c, a, Chosen(a, c, Best(s)))
<1> DEFINE old == a.cur[c]
           best == Best(s)
           new == Chosen(a, c, best)
           keep == \/ Before(a, old, best)
                   \/ ~a.swap_ok[c] /\ (Alike(a, old, best) \/ ~Preemptible(a, old))
<1>1. IsBest(s, best)
  BY BestFacts DEF Sound
<1> HIDE DEF best
<1>2. /\ a.cur \in [CPUs -> Threads \union {NULL}] /\ NULL \notin Threads
      /\ a.cur = s.cur /\ Range(s.runq) \subseteq Range(a.runq)
      /\ \A d \in CPUs : a.cur[d] \notin Range(a.runq)
  BY SchedAssumption DEF Kernel, Aborted, Frame, Sound, CurOK
<1>3. best # old \/ best = NULL
  BY <1>1, <1>2 DEF IsBest
<1>4. /\ (old = NULL \/ ~Prevented(a, old)) /\ keep => new = old
      /\ ~((old = NULL \/ ~Prevented(a, old)) /\ keep) => new = best
  BY DEF Chosen
<1> HIDE DEF new
<1>5. new \in Range(a.runq) \union {NULL, old}
  BY <1>1, <1>2, <1>4 DEF IsBest
<1>6. new # NULL /\ new = old => ~Prevented(a, new)
  BY <1>3, <1>4
<1>7. ASSUME new # old, Back(a, c) PROVE new \in Range(s.runq) /\ ~Before(a, old, new)
  <2>1. old # NULL /\ ~Prevented(a, old)
    BY <1>7 DEF Back
  <2>2. new = best /\ ~keep
    BY <1>4, <1>7, <2>1
  <2>3. ~Before(a, old, best)
    BY <2>2
  <2>4. best # NULL
    BY <2>1, <2>3 DEF Before
  <2> QED BY <1>1, <2>2, <2>3, <2>4 DEF IsBest
<1>8. ASSUME a = s, NEW t \in Range(s.runq)
      PROVE  ~(Before(s, t, new) /\ Preemptible(s, new))
  <2>1. t \in Threads /\ ~Before(s, t, best) /\ best # NULL /\ best \in Threads
    BY <1>1 DEF IsBest
  <2>2. CASE new = best
    BY <2>1, <2>2
  <2>3. CASE new = old /\ keep
    <3>1. CASE ~Preemptible(a, old)
      BY <1>8, <2>3, <3>1
    <3>2. CASE Before(a, old, best) \/ Alike(a, old, best)
      <4>1. old # NULL
        BY <2>1, <3>2 DEF Before, Alike
      <4>2. old \in Threads
        BY <1>2, <4>1
      <4>3. ~Before(s, best, old)
        BY <1>8, <2>1, <3>2, <4>2, BeforeFacts DEF Alike
      <4> HIDE DEF old
      <4>4. ~Before(s, t, old)
        BY <2>1, <4>2, <4>3, BeforeFacts
      <4> QED BY <2>3, <4>4
    <3> QED BY <2>3, <3>1, <3>2
  <2> QED BY <1>4, <2>2, <2>3
<1> QED BY <1>5, <1>6, <1>7, <1>8 DEF Choice, new, best

\* CPU d has no reason to switch, or will be told.
Calm(s, d) ==
    \/ s.ipi[d] \/ s.pending_ipi
    \/ \A t \in Range(s.runq) : ~(Before(s, t, s.cur[d]) /\ Preemptible(s, s.cur[d]))

\* signal_pending_ipi() in the fields.
Signalled(s, c, r) ==
    /\ SameCore(s, r) /\ r.sched_locked = s.sched_locked
    /\ \A d \in CPUs : r.ipi[d] <=> s.ipi[d] \/ (s.pending_ipi /\ d # c)

\* The interrupt goes to all CPUs but the calling one.
LEMMA SignalFields ==
    ASSUME NEW s \in Kernel, NEW c \in CPUs
    PROVE  /\ signal_pending_ipi(s, c) \in Kernel
           /\ Signalled(s, c, signal_pending_ipi(s, c))
<1>1. CASE s.pending_ipi
  <2> DEFINE told == [d \in CPUs |-> s.ipi[d] \/ d # c]
             r == [s EXCEPT !.pending_ipi = FALSE, !.ipi = told]
  <2>1. signal_pending_ipi(s, c) = r
    BY <1>1 DEF signal_pending_ipi
  <2>2. \A d \in CPUs : told[d] <=> s.ipi[d] \/ d # c
    OBVIOUS
  <2>3. told \in [CPUs -> BOOLEAN]
    OBVIOUS
  <2> HIDE DEF told
  <2>4. r \in Kernel /\ SameCore(s, r) /\ r.sched_locked = s.sched_locked /\ r.ipi = told
    BY <2>3 DEF Kernel, SameCore
  <2> HIDE DEF r
  <2> QED BY <1>1, <2>1, <2>2, <2>4 DEF Signalled
<1>2. CASE ~s.pending_ipi
  <2>1. signal_pending_ipi(s, c) = s
    BY <1>2 DEF signal_pending_ipi
  <2> QED BY <1>2, <2>1 DEF Signalled, SameCore
<1> QED BY <1>1, <1>2

\* CPU d has no reason to switch.
Content(s, d) == \A t \in Range(s.runq) : ~(Before(s, t, s.cur[d]) /\ Preemptible(s, s.cur[d]))

\* What a switch leaves.
Switches(s, c, r) ==
    /\ Sound(r, c) /\ Placed(r, NULL) /\ DeadOK(r, NULL)
    /\ \A d \in CPUs \ {c} : r.cur[d] = s.cur[d] /\ (s.ipi[d] => r.ipi[d])
    /\ r.cur[c] # NULL => /\ z_is_thread_ready(r, r.cur[c])
                          /\ "aborting" \notin r.state[r.cur[c]]
    /\ \A v \in Threads : "aborting" \in r.state[v] =>
          v # s.cur[c] /\ "aborting" \in s.state[v]
    /\ \A v \in Threads : "suspended" \in r.state[v] => v = s.cur[c] \/ "suspended" \in s.state[v]
    /\ s.cur[c] # NULL /\ "aborting" \in s.state[s.cur[c]] => "dead" \in r.state[s.cur[c]]
    /\ Spares(s, r, NULL) /\ r.armed \subseteq s.armed

\* The locked part of a switch.
LEMMA SwappedSound ==
    ASSUME NEW s \in Kernel, NEW c \in CPUs, Sound(s, c), Placed(s, NULL), DeadOK(s, NULL)
    PROVE  /\ Swapped(s, c) \in Kernel /\ Switches(s, c, Swapped(s, c))
           /\ \A d \in CPUs \ {c} : Calm(s, d) => Calm(Swapped(s, c), d)
           /\ s.cur[c] = NULL \/ "aborting" \notin s.state[s.cur[c]] => Content(Swapped(s, c), c)
<1> DEFINE a == EndAborted(s, c)
           old == s.cur[c]
           new == Chosen(a, c, Best(s))
           r == Requeue(TakeNext(a, c, new), c, old)
<1>1. Aborted(s, c, a)
  BY EndAbortedSound
<1>2. Swapped(s, c) = r
  BY DEF Swapped, next_up
<1> HIDE DEF a
<1>3. a \in Kernel /\ Sound(a, c) /\ Placed(a, NULL) /\ DeadOK(a, NULL) /\ Frame(s, a)
  BY <1>1 DEF Aborted, Sound
<1>4. Choice(s, c, a, new)
  BY <1>1, <1>3, ChoiceFacts
<1> HIDE DEF new
<1>5. a.cur = s.cur /\ a.prio = s.prio /\ a.sched_locked = s.sched_locked
  BY <1>3 DEF Frame
<1>6. new \in Range(a.runq) \union {NULL, a.cur[c]}
  BY <1>4 DEF Choice
<1>7. r \in Kernel /\ Switched(a, c, new, r)
  BY <1>3, <1>5, <1>6, SwitchFields
<1> HIDE DEF r
<1>8. /\ a.cur[c] # NULL => "aborting" \notin a.state[a.cur[c]]
      /\ new # NULL /\ new = a.cur[c] => ~Prevented(a, new)
  BY <1>1, <1>4, <1>5 DEF Aborted, Choice
<1>9. /\ Sound(r, c) /\ Placed(r, NULL) /\ DeadOK(r, NULL)
      /\ new # NULL => z_is_thread_ready(r, new) /\ "aborting" \notin r.state[new]
      /\ \A x \in Range(r.runq) : x \in Range(a.runq) \/ (x = a.cur[c] /\ x # new /\ Back(a, c))
  BY <1>3, <1>6, <1>7, <1>8, SwitchedSound
<1>13. /\ s.cur \in [CPUs -> Threads \union {NULL}] /\ NULL \notin Threads
       /\ s.runq \in Seq(Threads) /\ s.prio \in [Threads -> Int]
  BY SchedAssumption DEF Kernel
<1>14. /\ r.cur[c] = new /\ \A d \in CPUs \ {c} : r.cur[d] = s.cur[d]
       /\ r.prio = s.prio /\ r.sched_locked = s.sched_locked
       /\ r.pending_ipi = a.pending_ipi /\ r.ipi = a.ipi /\ r.armed = a.armed
  BY <1>5, <1>7, <1>13 DEF Switched
<1>16. \A v \in Threads : \A f : f # "queued" => (f \in r.state[v] <=> f \in a.state[v])
  <2> SUFFICES ASSUME NEW v \in Threads, NEW f, f # "queued"
               PROVE  f \in r.state[v] <=> f \in a.state[v]
    OBVIOUS
  <2>1. \/ r.state[v] = a.state[v] \/ r.state[v] = a.state[v] \ {"queued"}
        \/ r.state[v] = a.state[v] \union {"queued"}
    BY <1>7 DEF Switched
  <2> QED BY <2>1
<1>17. Switches(s, c, r)
  <2>1. \A d \in CPUs \ {c} : r.cur[d] = s.cur[d] /\ (s.ipi[d] => r.ipi[d])
    BY <1>3, <1>14 DEF Frame
  <2>2. r.cur[c] # NULL => /\ z_is_thread_ready(r, r.cur[c])
                           /\ "aborting" \notin r.state[r.cur[c]]
    BY <1>9, <1>14
  <2>3. ASSUME NEW v \in Threads, v # old, NEW f, f \notin {"queued", "pending"}
        PROVE  f \in r.state[v] <=> f \in s.state[v]
    <3>1. a.state[v] \ {"queued", "pending"} = s.state[v] \ {"queued", "pending"}
      BY <1>1, <2>3 DEF Aborted
    <3> QED BY <1>16, <2>3, <3>1
  <2>4. old # NULL => "aborting" \notin r.state[old]
    BY <1>1, <1>13, <1>16 DEF Aborted
  <2>5. \A v \in Threads : "aborting" \in r.state[v] => v # old /\ "aborting" \in s.state[v]
    BY <1>13, <2>3, <2>4
  <2>6. \A v \in Threads : "suspended" \in r.state[v] => v = old \/ "suspended" \in s.state[v]
    BY <2>3
  <2>7. old # NULL /\ "aborting" \in s.state[old] => "dead" \in r.state[old]
    BY <1>1, <1>13, <1>16 DEF Aborted
  <2>8. Spares(s, r, NULL)
    <3> SUFFICES ASSUME NEW v \in Threads
                 PROVE  /\ s.state[v] = {"suspended"} => r.state[v] = {"suspended"}
                        /\ "dead" \in s.state[v] => "dead" \in r.state[v]
                        /\ r.state[v] \intersect Ending # {} => s.state[v] \intersect Ending # {}
      BY <2>5 DEF Spares
    <3>1. CASE v = old /\ "aborting" \in s.state[old]
      BY <1>13, <2>7, <3>1 DEF Ending
    <3>2. CASE ~(v = old /\ "aborting" \in s.state[old])
      <4>1. \A f : f \notin {"queued", "pending"} => (f \in a.state[v] <=> f \in s.state[v])
        <5>1. CASE v = old
          BY <1>1, <3>2, <5>1 DEF Aborted
        <5>2. CASE v # old
          BY <1>16, <2>3, <5>2
        <5> QED BY <5>1, <5>2
      <4>2. \A f \in {"dead", "aborting"} : f \in r.state[v] <=> f \in s.state[v]
        BY <1>16, <4>1
      <4>3. ASSUME s.state[v] = {"suspended"} PROVE r.state[v] = {"suspended"}
        <5>1. a.state[v] = s.state[v]
          BY <1>1, <3>2, <4>3 DEF Aborted
        <5>2. Prevented(a, v)
          BY <4>3, <5>1 DEF Prevented
        <5>3. "queued" \notin a.state[v]
          BY <4>3, <5>1
        <5>4. \/ r.state[v] = a.state[v] \/ r.state[v] = a.state[v] \ {"queued"}
              \/ v = a.cur[c] /\ Back(a, c)
          BY <1>7 DEF Switched
        <5>5. r.state[v] = a.state[v]
          BY <5>2, <5>3, <5>4 DEF Back
        <5> QED BY <4>3, <5>1, <5>5
      <4> QED BY <4>2, <4>3 DEF Ending
    <3> QED BY <3>1, <3>2
  <2>9. r.armed \subseteq s.armed
    BY <1>1, <1>14 DEF Aborted
  <2> QED BY <1>9, <2>1, <2>2, <2>5, <2>6, <2>7, <2>8, <2>9 DEF Switches
<1>18. \A x \in Range(r.runq) : x \in Range(a.runq) \/ (x = old /\ x # new /\ Back(a, c))
  BY <1>5, <1>9
<1>19. \A t, u : Before(r, t, u) <=> Before(s, t, u)
  BY <1>14 DEF Before
<1>20. \A t, u : Before(a, t, u) <=> Before(s, t, u)
  BY <1>5 DEF Before
<1>21. \A t : Preemptible(r, t) <=> Preemptible(s, t)
  BY <1>14 DEF Preemptible
<1>22. Range(s.runq) \subseteq Threads
  BY <1>13, RangeMembers
<1>23. new # old /\ Back(a, c) => /\ new \in Range(s.runq) /\ new \in Threads /\ old \in Threads
                                  /\ ~Before(s, old, new)
  BY <1>4, <1>5, <1>13, <1>20, <1>22 DEF Choice, Back
<1>24. ASSUME NEW d \in CPUs \ {c}, Calm(s, d) PROVE Calm(r, d)
  <2>1. CASE a.pending_ipi
    BY <1>14, <2>1 DEF Calm
  <2>2. CASE s.ipi[d]
    BY <1>3, <1>14, <2>2 DEF Calm, Frame
  <2>3. CASE ~a.pending_ipi /\ ~s.ipi[d]
    <3>1. ~s.pending_ipi /\ Range(a.runq) \subseteq Range(s.runq)
      BY <1>3, <2>3 DEF Frame
    <3>2. \A t \in Range(s.runq) : ~(Before(s, t, s.cur[d]) /\ Preemptible(s, s.cur[d]))
      BY <1>24, <2>3, <3>1 DEF Calm
    <3>3. ASSUME NEW x \in Range(r.runq)
          PROVE  ~(Before(r, x, r.cur[d]) /\ Preemptible(r, r.cur[d]))
      <4>1. r.cur[d] = s.cur[d]
        BY <1>14
      <4>2. CASE x \in Range(a.runq)
        BY <1>19, <1>21, <3>1, <3>2, <4>1, <4>2
      <4>3. CASE x = old /\ x # new /\ Back(a, c)
        <5>1. /\ new \in Range(s.runq) /\ new \in Threads /\ old \in Threads
              /\ ~Before(s, old, new)
          BY <1>23, <4>3
        <5>2. CASE s.cur[d] = NULL
          BY <3>2, <5>1, <5>2, BeforeFacts DEF Preemptible
        <5>3. CASE s.cur[d] # NULL
          <6>1. s.cur[d] \in Threads
            BY <1>13, <5>3
          <6>2. ~(Before(s, new, s.cur[d]) /\ Preemptible(s, s.cur[d]))
            BY <3>2, <5>1
          <6>3. Before(s, old, s.cur[d]) => Before(s, new, s.cur[d])
            <7> HIDE DEF old
            <7> QED BY <5>1, <6>1, BeforeFacts
          <6> QED BY <1>19, <1>21, <4>1, <4>3, <6>2, <6>3
        <5> QED BY <5>2, <5>3
      <4> QED BY <1>18, <4>2, <4>3
    <3> QED BY <3>3 DEF Calm
  <2> QED BY <2>1, <2>2, <2>3
<1>25. ASSUME old = NULL \/ "aborting" \notin s.state[old] PROVE Content(r, c)
  <2>1. a = s
    BY <1>1, <1>25 DEF Aborted
  <2>2. ASSUME NEW x \in Range(r.runq)
        PROVE  ~(Before(r, x, new) /\ Preemptible(r, new))
    <3>1. CASE x \in Range(a.runq)
      BY <1>4, <1>19, <1>21, <2>1, <3>1 DEF Choice
    <3>2. CASE x = old /\ x # new /\ Back(a, c)
      BY <1>19, <1>23, <3>2
    <3> QED BY <1>18, <3>1, <3>2
  <2> QED BY <1>14, <2>2 DEF Content
<1> QED BY <1>2, <1>7, <1>17, <1>24, <1>25

\* Signalling changes no thread, and tells the other CPUs.
LEMMA SignalSound ==
    ASSUME NEW s \in Kernel, NEW c \in CPUs, NEW r \in Kernel, Signalled(s, c, r)
    PROVE  /\ SameCore(s, r) /\ \A d \in CPUs : s.ipi[d] => r.ipi[d]
           /\ \A d \in CPUs \ {c} : Calm(s, d) => Calm(r, d)
           /\ \A d \in CPUs : Content(s, d) => Content(r, d)
<1>1. SameCore(s, r) /\ r.sched_locked = s.sched_locked
  BY DEF Signalled
<1>2. \A t, u : Before(r, t, u) <=> Before(s, t, u)
  BY <1>1 DEF Before, SameCore
<1>3. \A t : Preemptible(r, t) <=> Preemptible(s, t)
  BY <1>1 DEF Preemptible, SameCore
<1>4. \A d \in CPUs : Content(s, d) => Content(r, d)
  BY <1>1, <1>2, <1>3 DEF Content, SameCore
<1>5. \A d \in CPUs \ {c} : Calm(s, d) => Calm(r, d)
  BY <1>4 DEF Calm, Content, Signalled
<1> QED BY <1>1, <1>4, <1>5 DEF Signalled

\* do_swap() with its signal.
LEMMA SwitchSound ==
    ASSUME NEW s \in Kernel, NEW c \in CPUs, Sound(s, c), Placed(s, NULL), DeadOK(s, NULL)
    PROVE  /\ Switches(s, c, Switch(s, c))
           /\ \A d \in CPUs \ {c} : Calm(s, d) => Calm(Switch(s, c), d)
           /\ s.cur[c] = NULL \/ "aborting" \notin s.state[s.cur[c]] => Content(Switch(s, c), c)
<1> DEFINE w == Swapped(s, c)
           r == signal_pending_ipi(w, c)
<1>1. Switch(s, c) = r
  BY DEF Switch
<1>2. /\ w \in Kernel /\ Switches(s, c, w)
      /\ \A d \in CPUs \ {c} : Calm(s, d) => Calm(w, d)
      /\ s.cur[c] = NULL \/ "aborting" \notin s.state[s.cur[c]] => Content(w, c)
  BY SwappedSound
<1> HIDE DEF w
<1>3. r \in Kernel /\ Signalled(w, c, r)
  BY <1>2, SignalFields
<1> HIDE DEF r
<1>4. /\ SameCore(w, r) /\ \A d \in CPUs : w.ipi[d] => r.ipi[d]
      /\ \A d \in CPUs \ {c} : Calm(w, d) => Calm(r, d)
      /\ \A d \in CPUs : Content(w, d) => Content(r, d)
  BY <1>2, <1>3, SignalSound
<1>5. Sound(r, c) /\ Placed(r, NULL) /\ DeadOK(r, NULL)
  BY <1>2, <1>3, <1>4, CoreSound DEF Switches
<1>6. r.cur = w.cur /\ r.state = w.state /\ r.armed = w.armed
  BY <1>4 DEF SameCore
<1>7. Switches(s, c, r)
  BY <1>2, <1>4, <1>5, <1>6 DEF Switches, Spares, z_is_thread_ready, Prevented
<1> QED BY <1>1, <1>2, <1>4, <1>7

-----------------------------------------------------------------------------
(* The invariant between the sections, and what a section has to leave. *)

Places == {"off", "thread", "resched", "isr", "timeout", "signal"}

Doings ==
    [op : {"none", "suspend", "abort", "test", "load", "store", "ready"},
     on : Threads \union {NULL}, saved : SUBSET Flags]

\* Only the CPUs of the application run.
CpusOK ==
    \A d \in CPUs : (pc[d] = "off" <=> d \notin app.cpus) /\ (pc[d] = "off" => k.cur[d] = NULL)

\* A current thread may run, unless it has suspended itself and is about to be
\* switched out.
CurrentOK ==
    \A d \in CPUs : k.cur[d] # NULL =>
        /\ k.cur[d] \notin k.armed
        /\ k.state[k.cur[d]] \intersect {"pending", "prestart", "dead"} = {}
        /\ "suspended" \in k.state[k.cur[d]] => pc[d] = "resched"

\* With several CPUs a thread with a timeout is in k_sleep(), where nothing but
\* the timeout or an abort finds it,
Asleep(s, t) == s.state[t] = {"suspended"} \/ "dead" \in s.state[t]

ArmedOK == \A t \in k.armed : OneCpu(app) \/ k.state[t] = {"suspended"}

\* also while the timeout is being handled.
TimeoutOK ==
    \A d \in CPUs :
        /\ pc[d] = "timeout" => /\ expired[d] \in Threads \ k.armed
                                /\ \A e \in CPUs : k.cur[e] # expired[d]
                                /\ OneCpu(app) \/ Asleep(k, expired[d])
                                /\ \A e \in CPUs \ {d} : expired[e] # expired[d]
        /\ pc[d] # "timeout" => expired[d] = NULL

\* Nobody wakes a thread that has a timeout.
Unwoken(t) == \A w \in Threads : ~Calls(app, "wakeup", w, t)

UnwokenOK == \A t \in Threads : t \in k.armed \/ (\E d \in CPUs : expired[d] = t) => Unwoken(t)

\* What a thread w that is in the call x may rely on: the application makes the
\* call, the thread that it wakes stays suspended, and w lives until it returns.
GoodCall(s, w, x) ==
    /\ x.op # "none" => x.on \in Threads
    /\ x.op = "suspend" => Calls(app, "suspend", w, x.on)
    /\ x.op \in {"abort", "test", "load", "store", "ready"} => Calls(app, "wakeup", w, x.on)
    /\ x.op \in {"load", "store"} => s.state[x.on] = {"suspended"}
    /\ x.op = "store" => x.saved = {"suspended"}
    /\ x.op # "none" /\ x.on # w => s.state[w] \intersect Ending = {}

CallsOK == \A w \in Threads : GoodCall(k, w, doing[w])

\* Whoever is being aborted is one that the application aborts.
Doomed(w) == \E v \in Threads \ {w} : Calls(app, "abort", v, w)

DoomedOK == \A w \in Threads : "aborting" \in k.state[w] => Doomed(w)

\* A CPU that has looked and goes on with its thread.
Goes(where) == where \in {"thread", "signal"}

AbortSeen ==
    \A d \in CPUs : k.cur[d] # NULL /\ "aborting" \in k.state[k.cur[d]] /\ Goes(pc[d]) => k.ipi[d]

CalmOK == \A d \in CPUs \ blind : Goes(pc[d]) => Calm(k, d)

Inv ==
    /\ k \in Kernel /\ pc \in [CPUs -> Places] /\ doing \in [Threads -> Doings]
    /\ expired \in [CPUs -> Threads \union {NULL}] /\ Disciplined(app)
    /\ QueueOK(k) /\ CurOK(k) /\ JoinOK(k) /\ AbortOK(k) /\ DeadOK(k, NULL)
    /\ CpusOK /\ CurrentOK /\ ArmedOK /\ TimeoutOK /\ UnwokenOK /\ CallsOK /\ DoomedOK
    /\ NoReadyThreadLost /\ AbortSeen /\ CalmOK

\* What the thread on CPU c may be when c leaves the lock for next.
OwnOK(c, r, next) ==
    r.cur[c] # NULL =>
        /\ r.cur[c] \notin r.armed
        /\ r.state[r.cur[c]] \intersect {"pending", "prestart", "dead"} = {}
        /\ "suspended" \in r.state[r.cur[c]] => next = "resched"
        /\ "aborting" \in r.state[r.cur[c]] /\ Goes(next) => r.ipi[c]
        /\ r.cur[c] = k.cur[c] \/ ~Prevented(r, r.cur[c])

\* What a section of c may do to another CPU d.
OtherOK(d, r) ==
    /\ r.cur[d] = k.cur[d] /\ (k.ipi[d] => r.ipi[d]) /\ (Calm(k, d) => Calm(r, d))
    /\ k.cur[d] # NULL =>
          /\ "suspended" \in r.state[k.cur[d]] => "suspended" \in k.state[k.cur[d]]
          /\ "aborting" \in r.state[k.cur[d]] => "aborting" \in k.state[k.cur[d]] \/ r.ipi[d]

\* r is a state that c may leave for next, handling the timeout of x.
Leaves(c, r, next, x) ==
    /\ Sound(r, c) /\ DeadOK(r, NULL) /\ Placed(r, x)
    /\ OwnOK(c, r, next) /\ \A d \in CPUs \ {c} : OtherOK(d, r)
    /\ Goes(next) /\ c \notin Blind(c, r) => Calm(r, c)

\* A section that changes the state of y does not do so behind the back of a
\* timeout or of a call in progress.
MayChange(c, r, y) ==
    /\ \A w \in Threads : doing[w].on = y => doing[w].op \notin {"load", "store"}
    /\ \A d \in CPUs \ {c} : expired[d] = y => "dead" \in r.state[y]
    /\ y \in r.armed => OneCpu(app)
    /\ "aborting" \in r.state[y] => Doomed(y)
    /\ r.state[y] \intersect Ending # {} /\ doing[y].op # "none" /\ doing[y].on # y =>
          k.state[y] \intersect Ending # {}

\* The current thread v has got a timeout.
MayWait(r, v) == Unwoken(v) /\ (OneCpu(app) \/ r.state[v] \ {"aborting"} = {"suspended"})

\* What a section may do to the threads: y is the one whose state it changes, the
\* current one apart.
Harmless(c, r, y) ==
    /\ Spares(k, r, y)
    /\ \A v \in r.armed : v \in k.armed \/ (v = k.cur[c] /\ MayWait(r, v))
    /\ y \in Threads => MayChange(c, r, y)

\* The calls go on, but for one that is over and leaves nobody behind.
Finishes(t, r) ==
    /\ doing' = [doing EXCEPT ![t] = Idle] /\ doing[t].on \in Threads
    /\ z_is_thread_ready(r, doing[t].on) => There(r, doing[t].on)

Continues(r) == doing' = doing \/ \E t \in Threads : Finishes(t, r)

\* Two CPUs that run are those of an application with several.
LEMMA Others ==
    ASSUME Inv, NEW c \in CPUs, NEW d \in CPUs \ {c}, pc[c] # "off", pc[d] # "off"
    PROVE  ~OneCpu(app)
BY DEF Inv, CpusOK, OneCpu

\* Then the invariant holds again.
LEMMA SectionInv ==
    ASSUME NEW c \in CPUs, NEW r, NEW next \in Places \ {"off"}, NEW x \in Threads \union {NULL},
           NEW y \in Threads \union {NULL},
           Inv, pc[c] # "off", Leaves(c, r, next, x), Harmless(c, r, y), Continues(r),
           Section(c, r, next), expired' = [expired EXCEPT ![c] = x],
           next = "timeout" => /\ x \in k.armed \ r.armed /\ r.cur = k.cur
                               /\ r.state = k.state,
           next # "timeout" => x = NULL
    PROVE  Inv'
<1>1. k' = r /\ pc' = [pc EXCEPT ![c] = next] /\ blind' = Blind(c, r) /\ app' = app
  BY DEF Section
<1>2. /\ pc \in [CPUs -> Places] /\ expired \in [CPUs -> Threads \union {NULL}]
      /\ k \in Kernel /\ k.cur \in [CPUs -> Threads \union {NULL}] /\ NULL \notin Threads
      /\ k.armed \subseteq Threads /\ doing \in [Threads -> Doings]
  BY SchedAssumption DEF Inv, Kernel
<1>3. /\ r \in Kernel /\ QueueOK(r) /\ CurOK(r) /\ JoinOK(r) /\ AbortOK(r) /\ RunsOK(r, c)
      /\ DeadOK(r, NULL) /\ Placed(r, x)
      /\ OwnOK(c, r, next) /\ \A d \in CPUs \ {c} : OtherOK(d, r)
      /\ Goes(next) /\ c \notin Blind(c, r) => Calm(r, c)
  BY DEF Leaves, Sound
<1>4. /\ pc' \in [CPUs -> Places] /\ expired' \in [CPUs -> Threads \union {NULL}]
      /\ pc'[c] = next /\ expired'[c] = x
      /\ \A d \in CPUs \ {c} : pc'[d] = pc[d] /\ expired'[d] = expired[d]
  BY <1>1, <1>2
<1>5. /\ Spares(k, r, y) /\ r.armed \subseteq Threads
      /\ \A v \in r.armed : v \in k.armed \/ (v = k.cur[c] /\ MayWait(r, v))
      /\ y \in Threads => MayChange(c, r, y)
  BY <1>3 DEF Harmless, Kernel
<1>6. CpusOK'
  BY <1>1, <1>3, <1>4 DEF CpusOK, Inv, OtherOK
<1>7. CurrentOK'
  <2> SUFFICES ASSUME NEW d \in CPUs, r.cur[d] # NULL
               PROVE  /\ r.cur[d] \notin r.armed
                      /\ r.state[r.cur[d]] \intersect {"pending", "prestart", "dead"} = {}
                      /\ "suspended" \in r.state[r.cur[d]] => pc'[d] = "resched"
    BY <1>1 DEF CurrentOK
  <2>1. CASE d = c
    BY <1>3, <1>4, <2>1 DEF OwnOK
  <2>2. CASE d # c
    <3>1. /\ r.cur[d] \notin r.armed
          /\ r.state[r.cur[d]] \intersect {"pending", "prestart", "dead"} = {}
      BY <1>3, <2>2 DEF RunsOK
    <3>2. OtherOK(d, r)
      BY <1>3, <2>2
    <3>3. "suspended" \in r.state[r.cur[d]] => pc[d] = "resched"
      BY <3>2 DEF OtherOK, Inv, CurrentOK
    <3> QED BY <1>4, <2>2, <3>1, <3>3
  <2> QED BY <2>1, <2>2
<1>8. ASSUME NEW t \in r.armed PROVE OneCpu(app) \/ r.state[t] = {"suspended"}
  <2>1. t \in Threads
    BY <1>5
  <2>2. CASE t \in k.armed /\ t # y
    BY <1>5, <2>1, <2>2 DEF Inv, ArmedOK, Spares
  <2>3. CASE t = y
    BY <1>5, <1>8, <2>1, <2>3 DEF MayChange
  <2>4. CASE t = k.cur[c] /\ MayWait(r, t)
    <3>1. \A d \in CPUs : r.cur[d] # t
      BY <1>2, <1>3, <1>8, <2>1 DEF OwnOK, RunsOK
    <3>2. "aborting" \notin r.state[t]
      BY <1>3, <2>1, <3>1 DEF AbortOK
    <3>3. r.state[t] \ {"aborting"} = r.state[t]
      BY <3>2
    <3> QED BY <2>4, <3>3 DEF MayWait
  <2> QED BY <1>5, <2>2, <2>3, <2>4
<1>9. ArmedOK'
  BY <1>1, <1>8 DEF ArmedOK
<1>10. ASSUME NEW d \in CPUs, pc'[d] = "timeout"
       PROVE  /\ expired'[d] \in Threads \ r.armed
              /\ \A e \in CPUs : r.cur[e] # expired'[d]
              /\ OneCpu(app) \/ Asleep(r, expired'[d])
              /\ \A e \in CPUs \ {d} : expired'[e] # expired'[d]
  <2>1. CASE d = c
    <3>1. next = "timeout" /\ expired'[d] = x /\ x \in k.armed \ r.armed /\ x \in Threads
      BY <1>2, <1>4, <1>10, <2>1
    <3>2. \A e \in CPUs : r.cur[e] # x
      BY <1>2, <3>1 DEF Inv, CurrentOK
    <3>3. OneCpu(app) \/ Asleep(r, x)
      BY <3>1 DEF Inv, ArmedOK, Asleep
    <3>4. \A e \in CPUs \ {c} : expired[e] # x
      BY <1>2, <3>1 DEF Inv, TimeoutOK
    <3> QED BY <1>4, <2>1, <3>1, <3>2, <3>3, <3>4
  <2>2. CASE d # c
    <3> DEFINE v == expired[d]
    <3>1. pc[d] = "timeout" /\ expired'[d] = v
      BY <1>4, <1>10, <2>2
    <3>2. ~OneCpu(app)
      BY <2>2, <3>1, Others
    <3>3. /\ v \in Threads \ k.armed /\ Asleep(k, v)
          /\ \A e \in CPUs : k.cur[e] # v
          /\ \A e \in CPUs \ {d} : expired[e] # v
      BY <3>1, <3>2 DEF Inv, TimeoutOK
    <3> HIDE DEF v
    <3>4. v \notin r.armed
      BY <1>5, <3>3
    <3>5. Asleep(r, v)
      <4>1. CASE v = y
        BY <1>5, <2>2, <3>3, <4>1 DEF MayChange, Asleep, v
      <4>2. CASE v # y
        BY <1>5, <3>3, <4>2 DEF Spares, Asleep
      <4> QED BY <4>1, <4>2
    <3>6. Prevented(r, v)
      BY <3>5 DEF Asleep, Prevented
    <3>7. \A e \in CPUs : r.cur[e] # v
      BY <1>2, <1>3, <3>3, <3>6 DEF OwnOK, OtherOK
    <3>8. x # v
      BY <1>2, <3>3
    <3> QED BY <1>4, <3>1, <3>3, <3>4, <3>5, <3>7, <3>8
  <2> QED BY <2>1, <2>2
<1>11. ASSUME NEW d \in CPUs, pc'[d] # "timeout" PROVE expired'[d] = NULL
  BY <1>4, <1>11 DEF Inv, TimeoutOK
<1>12. TimeoutOK'
  BY <1>1, <1>10, <1>11 DEF TimeoutOK, Asleep
<1>13. UnwokenOK'
  <2> SUFFICES ASSUME NEW t \in Threads, t \in r.armed \/ \E d \in CPUs : expired'[d] = t
               PROVE  Unwoken(t)
    BY <1>1 DEF UnwokenOK, Unwoken
  <2>1. t \in k.armed \/ (\E d \in CPUs : expired[d] = t) => Unwoken(t)
    BY DEF Inv, UnwokenOK
  <2>2. t = x => t \in k.armed
    BY <1>2
  <2> QED BY <1>4, <1>5, <2>1, <2>2 DEF MayWait
<1>14. ASSUME NEW w \in Threads PROVE GoodCall(r, w, doing[w])
  <2>1. GoodCall(k, w, doing[w])
    BY DEF Inv, CallsOK
  <2>2. ASSUME doing[w].op \in {"load", "store"} PROVE r.state[doing[w].on] = {"suspended"}
    <3>1. doing[w].on \in Threads /\ k.state[doing[w].on] = {"suspended"}
      BY <2>1, <2>2 DEF GoodCall
    <3>2. doing[w].on # y
      BY <1>5, <2>2, <3>1 DEF MayChange
    <3> QED BY <1>5, <3>1, <3>2 DEF Spares
  <2>3. ASSUME doing[w].op # "none", doing[w].on # w PROVE r.state[w] \intersect Ending = {}
    <3>1. k.state[w] \intersect Ending = {}
      BY <2>1, <2>3 DEF GoodCall
    <3>2. CASE w = y
      BY <1>5, <2>3, <3>1, <3>2 DEF MayChange
    <3>3. CASE w # y
      BY <1>5, <3>1, <3>3 DEF Spares
    <3> QED BY <3>2, <3>3
  <2> QED BY <2>1, <2>2, <2>3 DEF GoodCall
<1>15. /\ doing' \in [Threads -> Doings]
       /\ \A w \in Threads : doing'[w] = doing[w] \/ doing'[w] = Idle
  <2>1. Idle \in Doings
    BY DEF Idle, Doings
  <2> QED BY <1>2, <2>1 DEF Continues, Finishes
<1>16. CallsOK'
  <2> SUFFICES ASSUME NEW w \in Threads PROVE GoodCall(r, w, doing'[w])
    BY <1>1 DEF CallsOK, GoodCall
  <2>1. CASE doing'[w] = doing[w]
    BY <1>14, <2>1
  <2>2. CASE doing'[w] = Idle
    BY <2>2 DEF GoodCall, Idle
  <2> QED BY <1>15, <2>1, <2>2
<1>17. DoomedOK'
  <2> SUFFICES ASSUME NEW w \in Threads, "aborting" \in r.state[w] PROVE Doomed(w)
    BY <1>1 DEF DoomedOK, Doomed
  <2>1. CASE w = y
    BY <1>5, <2>1 DEF MayChange
  <2>2. CASE w # y
    BY <1>5, <2>2 DEF Inv, DoomedOK, Spares
  <2> QED BY <2>1, <2>2
<1>18. NoReadyThreadLost'
  <2> SUFFICES ASSUME NEW t \in Threads, z_is_thread_ready(r, t)
               PROVE  \/ There(r, t)
                      \/ \E d \in CPUs : expired'[d] = t
                      \/ \E w \in Threads : /\ doing'[w].op \in {"ready", "suspend"}
                                            /\ doing'[w].on = t /\ "dead" \notin r.state[w]
    BY <1>1 DEF NoReadyThreadLost, There
  <2>1. CASE t = x
    BY <1>4, <2>1
  <2>2. CASE There(r, t)
    BY <2>2
  <2>3. CASE t # x /\ ~There(r, t)
    <3>1. InHand(t)
      BY <1>3, <2>3 DEF Placed, There
    <3>2. PICK w \in Threads : doing[w].op \in {"ready", "suspend"} /\ doing[w].on = t
      BY <3>1 DEF InHand
    <3>3. doing'[w] = doing[w]
      <4>1. CASE doing' = doing
        BY <4>1
      <4>2. ASSUME NEW u \in Threads, Finishes(u, r) PROVE doing'[w] = doing[w]
        <5>1. u # w
          BY <2>3, <3>2, <4>2 DEF Finishes
        <5> QED BY <1>2, <4>2, <5>1 DEF Finishes
      <4> QED BY <4>1, <4>2 DEF Continues
    <3>4. "dead" \notin r.state[w]
      <4>1. CASE w = t
        BY <4>1 DEF z_is_thread_ready, Prevented
      <4>2. CASE w # t
        BY <1>14, <3>2, <4>2 DEF GoodCall, Ending
      <4> QED BY <4>1, <4>2
    <3> QED BY <3>2, <3>3, <3>4
  <2> QED BY <2>1, <2>2, <2>3
<1>19. AbortSeen'
  <2> SUFFICES ASSUME NEW d \in CPUs, r.cur[d] # NULL, "aborting" \in r.state[r.cur[d]],
                      Goes(pc'[d])
               PROVE  r.ipi[d]
    BY <1>1 DEF AbortSeen, Goes
  <2>1. CASE d = c
    BY <1>3, <1>4, <2>1 DEF OwnOK
  <2>2. CASE d # c
    <3>1. OtherOK(d, r) /\ pc'[d] = pc[d]
      BY <1>3, <1>4, <2>2
    <3> QED BY <3>1 DEF OtherOK, Inv, AbortSeen
  <2> QED BY <2>1, <2>2
<1>20. CalmOK'
  <2> SUFFICES ASSUME NEW d \in CPUs, d \notin Blind(c, r), Goes(pc'[d])
               PROVE  Calm(r, d)
    BY <1>1 DEF CalmOK, Goes
  <2>1. CASE d = c
    BY <1>3, <1>4, <2>1
  <2>2. CASE d # c
    <3>1. d \notin blind
      BY <2>2 DEF Blind
    <3>2. Calm(k, d)
      BY <1>4, <2>2, <3>1 DEF Inv, CalmOK
    <3> QED BY <1>3, <2>2, <3>2 DEF OtherOK
  <2> QED BY <2>1, <2>2
<1> QED BY <1>1, <1>3, <1>4, <1>6, <1>7, <1>9, <1>12, <1>13, <1>15, <1>16, <1>17, <1>18, <1>19, <1>20 DEF Inv

\* What holds when a CPU c takes the lock, t being its thread.
LEMMA AtEntry ==
    ASSUME NEW c \in CPUs, Inv
    PROVE  /\ k \in Kernel /\ Sound(k, c) /\ DeadOK(k, NULL)
           /\ k.cur \in [CPUs -> Threads \union {NULL}] /\ NULL \notin Threads
           /\ k.state \in [Threads -> SUBSET Flags]
<1>1. RunsOK(k, c)
  BY DEF Inv, CurrentOK, RunsOK
<1> QED BY <1>1, SchedAssumption DEF Inv, Sound, Kernel

\* The others have in their hands, by a timeout, only threads that sleep.
LEMMA AllPlaced ==
    ASSUME NEW c \in CPUs, Inv, pc[c] # "off"
    PROVE  /\ Placed(k, expired[c])
           /\ pc[c] # "timeout" => Placed(k, NULL) /\ expired = [expired EXCEPT ![c] = NULL]
<1>1. Placed(k, expired[c])
  <2> SUFFICES ASSUME NEW t \in Threads \ {expired[c]}, z_is_thread_ready(k, t),
                      NEW d \in CPUs, expired[d] = t
               PROVE  FALSE
    BY DEF Inv, NoReadyThreadLost, Placed, InHand
  <2>1. d # c /\ pc[d] = "timeout"
    BY SchedAssumption DEF Inv, TimeoutOK
  <2>2. ~OneCpu(app)
    BY <2>1, Others
  <2>3. Asleep(k, t)
    BY <2>1, <2>2 DEF Inv, TimeoutOK
  <2> QED BY <2>3 DEF Asleep, z_is_thread_ready, Prevented
<1>2. pc[c] # "timeout" => expired[c] = NULL
  BY DEF Inv, TimeoutOK
<1>3. expired[c] = NULL => expired = [expired EXCEPT ![c] = NULL]
  BY DEF Inv
<1> QED BY <1>1, <1>2, <1>3

\* Where a section is about to switch.
Midway(c, m) ==
    /\ m \in Kernel /\ Sound(m, c) /\ DeadOK(m, NULL) /\ Placed(m, NULL)
    /\ m.cur = k.cur /\ \A d \in CPUs \ {c} : OtherOK(d, m)
    /\ k.cur[c] # NULL /\ "aborting" \in m.state[k.cur[c]] => "aborting" \in k.state[k.cur[c]]

\* A switch leaves what it has to.
LEMMA SwitchesLeaves ==
    ASSUME NEW c \in CPUs, Inv, NEW m, NEW r, NEW next, NEW y, Midway(c, m), Harmless(c, m, y),
           Switches(m, c, r), \A d \in CPUs \ {c} : Calm(m, d) => Calm(r, d),
           m.cur[c] = NULL \/ "aborting" \notin m.state[m.cur[c]] => Content(r, c)
    PROVE  Leaves(c, r, next, NULL) /\ Harmless(c, r, y)
<1>1. /\ m \in Kernel /\ Sound(m, c) /\ DeadOK(m, NULL) /\ Placed(m, NULL) /\ m.cur = k.cur
  BY DEF Midway
<1>3. k.cur \in [CPUs -> Threads \union {NULL}] /\ NULL \notin Threads
  BY AtEntry
<1>4. OwnOK(c, r, next)
  BY DEF Switches, OwnOK, z_is_thread_ready, Prevented
<1>5. ASSUME NEW d \in CPUs \ {c} PROVE OtherOK(d, r)
  <2>1. OtherOK(d, m)
    BY DEF Midway
  <2>2. r.cur[d] = k.cur[d] /\ (m.ipi[d] => r.ipi[d])
    BY <1>1 DEF Switches
  <2>3. k.cur[d] # NULL => k.cur[d] # m.cur[c] /\ k.cur[d] \in Threads
    BY <1>1, <1>3 DEF Inv, CurOK
  <2>4. k.cur[d] # NULL =>
            /\ "suspended" \in r.state[k.cur[d]] => "suspended" \in m.state[k.cur[d]]
            /\ "aborting" \in r.state[k.cur[d]] => "aborting" \in m.state[k.cur[d]]
    BY <2>3 DEF Switches
  <2> QED BY <2>1, <2>2, <2>4 DEF OtherOK
<1>6. ASSUME c \notin Blind(c, r) PROVE Calm(r, c)
  <2>1. CASE k.cur[c] # NULL /\ "aborting" \in m.state[k.cur[c]]
    <3>1. "aborting" \in k.state[k.cur[c]] /\ "dead" \in r.state[k.cur[c]]
      BY <1>1, <2>1 DEF Switches, Midway
    <3>2. c \in Blind(c, r)
      BY <2>1, <3>1 DEF Blind
    <3> QED BY <1>6, <3>2
  <2>2. CASE ~(k.cur[c] # NULL /\ "aborting" \in m.state[k.cur[c]])
    BY <1>1, <2>2 DEF Calm, Content
  <2> QED BY <2>1, <2>2
<1>7. Leaves(c, r, next, NULL)
  BY <1>4, <1>5, <1>6 DEF Leaves, Switches
<1>8. Spares(k, m, y) /\ Spares(m, r, NULL) /\ r.armed \subseteq m.armed /\ DeadOK(r, NULL)
  BY DEF Harmless, Switches
<1>9. Spares(k, r, y)
  BY <1>3, <1>8 DEF Spares
<1>10. r.armed \subseteq Threads
  BY DEF Switches, Sound, Kernel
<1>11. ASSUME NEW v \in r.armed PROVE v \in k.armed \/ (v = k.cur[c] /\ MayWait(r, v))
  <2>1. v \in k.armed \/ (v = k.cur[c] /\ MayWait(m, v))
    BY <1>8 DEF Harmless
  <2>2. ASSUME v = k.cur[c], MayWait(m, v) PROVE MayWait(r, v)
    <3>1. v \in Threads /\ v # NULL
      BY <1>3, <1>10
    <3>2. "dead" \notin r.state[v]
      BY <1>8, <3>1 DEF DeadOK
    <3>3. "aborting" \notin m.state[v]
      BY <1>1, <2>2, <3>1, <3>2 DEF Switches
    <3>4. m.state[v] \ {"aborting"} = m.state[v]
      BY <3>3
    <3>5. m.state[v] = {"suspended"} => r.state[v] \ {"aborting"} = {"suspended"}
      BY <1>3, <1>8, <3>1 DEF Spares
    <3> QED BY <2>2, <3>4, <3>5 DEF MayWait
  <2> QED BY <2>1, <2>2
<1>12. ASSUME y \in Threads PROVE MayChange(c, r, y)
  <2>1. MayChange(c, m, y)
    BY <1>12 DEF Harmless
  <2>2. /\ "dead" \in m.state[y] => "dead" \in r.state[y]
        /\ r.state[y] \intersect Ending # {} => m.state[y] \intersect Ending # {}
        /\ "aborting" \in r.state[y] => "aborting" \in m.state[y]
    BY <1>3, <1>8, <1>12 DEF Spares
  <2> QED BY <1>8, <2>1, <2>2 DEF MayChange
<1> QED BY <1>7, <1>9, <1>11, <1>12 DEF Harmless

\* do_swap()
LEMMA SwitchLeaves ==
    ASSUME NEW c \in CPUs, Inv, NEW m, NEW y, Midway(c, m), Harmless(c, m, y)
    PROVE  Leaves(c, Switch(m, c), "thread", NULL) /\ Harmless(c, Switch(m, c), y)
<1>1. m \in Kernel /\ Sound(m, c) /\ DeadOK(m, NULL) /\ Placed(m, NULL)
  BY DEF Midway
<1> QED BY <1>1, SwitchSound, SwitchesLeaves

\* What does not switch changes little.
LEMMA FrameOthers ==
    ASSUME NEW c \in CPUs, NEW r \in Kernel, Inv, Frame(k, r),
           NEW d \in CPUs \ {c},
           k.cur[d] # NULL =>
              /\ "suspended" \in r.state[k.cur[d]] => "suspended" \in k.state[k.cur[d]]
              /\ "aborting" \in r.state[k.cur[d]] => "aborting" \in k.state[k.cur[d]] \/ r.ipi[d]
    PROVE  OtherOK(d, r)
<1>1. Calm(k, d) => Calm(r, d)
  BY DEF Frame, Calm, Before, Preemptible
<1> QED BY <1>1 DEF OtherOK, Frame

\* resched() in front of a switch.
LEMMA MidwayCache ==
    ASSUME NEW c \in CPUs, NEW m, NEW y, NEW r \in Kernel, Midway(c, m), Harmless(c, m, y),
           SameButCache(m, r)
    PROVE  Midway(c, r) /\ Harmless(c, r, y)
<1>1. m \in Kernel
  BY DEF Midway
<1>2. Sound(r, c) /\ DeadOK(r, NULL) /\ Placed(r, NULL)
  BY <1>1, CacheSound DEF Midway
<1>3. /\ r.cur = m.cur /\ r.state = m.state /\ r.ipi = m.ipi /\ r.armed = m.armed
      /\ \A d \in CPUs : Calm(m, d) => Calm(r, d)
  BY DEF SameButCache, SameCore, Calm, Before, Preemptible
<1>4. Midway(c, r)
  BY <1>2, <1>3 DEF Midway, OtherOK
<1>5. Harmless(c, r, y)
  BY <1>3 DEF Harmless, Spares, MayWait, MayChange
<1> QED BY <1>4, <1>5

\* z_reschedule().
LEMMA RescheduleLeaves ==
    ASSUME NEW c \in CPUs, Inv, NEW m, NEW y, Midway(c, m), Harmless(c, m, y)
    PROVE  Leaves(c, z_reschedule(m, c), "thread", NULL) /\ Harmless(c, z_reschedule(m, c), y)
<1> DEFINE r == update_cache(m, c, FALSE)
<1>1. r \in Kernel /\ SameButCache(m, r)
  BY CacheFields DEF Midway
<1>2. z_reschedule(m, c) = Switch(r, c)
  BY DEF z_reschedule
<1> HIDE DEF r
<1>3. Midway(c, r) /\ Harmless(c, r, y)
  BY <1>1, MidwayCache
<1> QED BY <1>2, <1>3, SwitchLeaves

\* The end of an action that handles no timeout.
LEMMA SectionDone ==
    ASSUME NEW c \in CPUs, NEW r, NEW next \in Places \ {"timeout", "off"},
           NEW y \in Threads \union {NULL}, Inv, pc[c] \notin {"timeout", "off"},
           Leaves(c, r, next, NULL), Harmless(c, r, y), Continues(r),
           Section(c, r, next), expired' = expired
    PROVE  Inv'
<1>1. expired' = [expired EXCEPT ![c] = NULL]
  BY AllPlaced
<1>2. next \in Places \ {"off"} /\ next # "timeout" /\ pc[c] # "off"
  OBVIOUS
<1> QED BY <1>1, <1>2, SectionInv

\* No flag is new to v but the ones that the run queue sets.
NoNewFlags(r, v) ==
    \A f \in {"suspended", "aborting", "prestart", "dead"} :
        f \in r.state[v] => f \in k.state[v]

\* A section that leaves without a switch.
LEMMA FrameLeaves ==
    ASSUME NEW c \in CPUs, NEW r \in Kernel, NEW next \in Places \ {"signal"}, NEW x, Inv,
           next = "thread" => pc[c] = "thread",
           Sound(r, c), DeadOK(r, NULL), Placed(r, x), Frame(k, r),
           \A d \in CPUs \ {c} : k.cur[d] # NULL => NoNewFlags(r, k.cur[d]),
           k.cur[c] # NULL =>
              /\ k.cur[c] \notin r.armed
              /\ r.state[k.cur[c]] \intersect {"pending", "prestart", "dead"} = {}
              /\ "suspended" \in r.state[k.cur[c]] => next = "resched"
              /\ "aborting" \in r.state[k.cur[c]] => "aborting" \in k.state[k.cur[c]]
    PROVE  Leaves(c, r, next, x)
<1>1. \A d \in CPUs \ {c} : OtherOK(d, r)
  BY FrameOthers DEF NoNewFlags
<1>2. r.cur = k.cur /\ r.ipi = k.ipi /\ (Goes(next) => Goes(pc[c]) /\ pc[c] = "thread")
  BY DEF Frame, Goes
<1>3. OwnOK(c, r, next)
  BY <1>2 DEF OwnOK, Inv, AbortSeen
<1>4. ASSUME Goes(next), c \notin Blind(c, r) PROVE Calm(r, c)
  <2>1. c \notin blind
    BY <1>2, <1>4 DEF Blind
  <2>2. Calm(k, c)
    BY <1>2, <1>4, <2>1 DEF Inv, CalmOK
  <2> QED BY <2>2 DEF Frame, Calm, Before, Preemptible
<1> QED BY <1>1, <1>3, <1>4 DEF Leaves

\* A section that has not switched yet, and will.
LEMMA FrameMidway ==
    ASSUME NEW c \in CPUs, NEW m \in Kernel, Inv,
           Sound(m, c), DeadOK(m, NULL), Placed(m, NULL), Frame(k, m),
           \A d \in CPUs \ {c} : k.cur[d] # NULL => NoNewFlags(m, k.cur[d]),
           k.cur[c] # NULL /\ "aborting" \in m.state[k.cur[c]] => "aborting" \in k.state[k.cur[c]]
    PROVE  Midway(c, m)
<1>1. \A d \in CPUs \ {c} : OtherOK(d, m)
  BY FrameOthers DEF NoNewFlags
<1> QED BY <1>1 DEF Midway, Frame

\* The mark of the run queue changes nobody's state,
LEMMA MarkSpares ==
    ASSUME NEW s, NEW r, NEW y \in Threads \union {NULL}, QueueOK(r),
           \A v \in Threads \ {y} : r.state[v] \ {"queued"} = s.state[v] \ {"queued"}
    PROVE  Spares(s, r, y)
<1> SUFFICES ASSUME NEW v \in Threads \ {y}
             PROVE  /\ s.state[v] = {"suspended"} => r.state[v] = {"suspended"}
                    /\ \A f \in Ending : f \in r.state[v] <=> f \in s.state[v]
  BY DEF Spares, Ending
<1>1. r.state[v] \ {"queued"} = s.state[v] \ {"queued"}
  OBVIOUS
<1>2. \A f : f # "queued" => (f \in r.state[v] <=> f \in s.state[v])
  BY <1>1
<1>3. ASSUME s.state[v] = {"suspended"} PROVE r.state[v] = {"suspended"}
  <2>1. "suspended" \in r.state[v]
    BY <1>2, <1>3
  <2>2. "queued" \notin r.state[v]
    BY <2>1 DEF QueueOK, z_is_thread_ready, Prevented
  <2> QED BY <1>2, <1>3, <2>2
<1> QED BY <1>2, <1>3 DEF Ending

\* nor does a section that changes no more.
LEMMA MarkHarmless ==
    ASSUME Inv, NEW c \in CPUs, NEW r, Sound(r, c), r.armed \subseteq k.armed,
           \A v \in Threads : r.state[v] \ {"queued"} = k.state[v] \ {"queued"}
    PROVE  Harmless(c, r, NULL)
<1>1. NULL \notin Threads
  BY SchedAssumption
<1>2. Spares(k, r, NULL)
  BY MarkSpares DEF Sound
<1> QED BY <1>1, <1>2 DEF Harmless

\* s is k with less to keep the thread u from running.
Eased(u, s) ==
    /\ s \in Kernel /\ Touched(k, u, s) /\ SameJoins(k, s) /\ Frame(k, s)
    /\ s.state[u] \subseteq k.state[u] /\ s.armed \subseteq k.armed
    /\ \A f \in {"queued", "pending", "dead", "aborting"} :
          f \in s.state[u] <=> f \in k.state[u]

\* Only u may be missing from the run queue then.
LEMMA EasedSound ==
    ASSUME NEW c \in CPUs, NEW u \in Threads, NEW s, Inv, Placed(k, NULL), Eased(u, s)
    PROVE  /\ Sound(s, c) /\ Placed(s, u) /\ DeadOK(s, NULL)
           /\ \A v \in Threads : NoNewFlags(s, v)
<1>1. /\ k \in Kernel /\ Sound(k, c) /\ DeadOK(k, NULL)
      /\ k.cur \in [CPUs -> Threads \union {NULL}] /\ NULL \notin Threads
  BY AtEntry
<1>2. s \in Kernel /\ Touched(k, u, s)
  BY DEF Eased
<1>3. FitFor(k, c, u, s)
  <2>1. "queued" \in s.state[u] <=> "queued" \in k.state[u]
    BY DEF Eased
  <2>2. "queued" \in s.state[u] => z_is_thread_ready(s, u)
    BY <2>1 DEF Eased, Inv, QueueOK, z_is_thread_ready, Prevented
  <2>3. "aborting" \in s.state[u] => "dead" \notin s.state[u] /\ \E d \in CPUs : k.cur[d] = u
    BY DEF Eased, Inv, AbortOK
  <2>4. (\E d \in CPUs : k.cur[d] = u) =>
            u \notin s.armed /\ s.state[u] \intersect {"pending", "prestart", "dead"} = {}
    BY <1>1 DEF Eased, Inv, CurrentOK
  <2> QED BY <2>1, <2>2, <2>3, <2>4 DEF FitFor
<1>4. JoinOK(s)
  BY DEF Eased, SameJoins, Touched, Inv, JoinOK
<1>5. Placed(k, u)
  BY <1>1 DEF Placed
<1>6. Sound(s, c) /\ Placed(s, u)
  BY <1>1, <1>2, <1>3, <1>4, <1>5, TouchSound
<1>7. DeadOK(s, NULL)
  BY <1>1 DEF Eased, SameJoins, Touched, DeadOK
<1>8. \A v \in Threads : NoNewFlags(s, v)
  BY DEF Eased, Touched, NoNewFlags
<1> QED BY <1>6, <1>7, <1>8

\* And after ready_thread() none is.
LEMMA EasedReady ==
    ASSUME NEW c \in CPUs, NEW u \in Threads, NEW s, Inv, Placed(k, NULL), Eased(u, s),
           \A d \in CPUs \ {c} : k.cur[d] # u
    PROVE  LET r == ready_thread(s, c, u)
           IN  /\ r \in Kernel /\ Sound(r, c) /\ Placed(r, NULL) /\ DeadOK(r, NULL)
               /\ Frame(k, r) /\ r.armed = s.armed /\ r.armed \subseteq k.armed
               /\ \A v \in Threads : NoNewFlags(r, v)
               /\ \A v \in Threads : "pending" \in r.state[v] => "pending" \in k.state[v]
               /\ \A v \in Threads : r.state[v] \ {"queued"} = s.state[v] \ {"queued"}
<1> DEFINE r == ready_thread(s, c, u)
<1>1. /\ Sound(s, c) /\ Placed(s, u) /\ DeadOK(s, NULL)
      /\ \A v \in Threads : NoNewFlags(s, v)
  BY EasedSound
<1>2. s \in Kernel /\ Frame(k, s) /\ s.cur = k.cur /\ s.armed \subseteq k.armed
  BY DEF Eased, Frame
<1>3. /\ Sound(r, c) /\ Frame(s, r) /\ r.armed = s.armed
      /\ Placed(s, u) => Placed(r, NULL)
      /\ \A w : DeadOK(s, w) => DeadOK(r, w)
      /\ \A v \in Threads : r.state[v] = s.state[v]
                            \/ (v = u /\ r.state[v] = s.state[v] \union {"queued"})
  BY <1>1, <1>2, ReadySound
<1> HIDE DEF r
<1>4. r \in Kernel
  BY <1>3 DEF Sound
<1>5. Frame(k, r)
  BY <1>2, <1>3 DEF Frame
<1>6. \A v \in Threads : NoNewFlags(r, v)
  BY <1>1, <1>3 DEF NoNewFlags
<1>7. \A v \in Threads : "pending" \in r.state[v] => "pending" \in k.state[v]
  BY <1>3 DEF Eased, Touched
<1>8. ASSUME NEW v \in Threads PROVE r.state[v] \ {"queued"} = s.state[v] \ {"queued"}
  BY <1>3
<1> QED BY <1>1, <1>2, <1>3, <1>4, <1>5, <1>6, <1>7, <1>8 DEF r

\* Sections that have all CPUs look again.
LEMMA ToldLeaves ==
    ASSUME NEW c \in CPUs, NEW r \in Kernel, NEW next \in Places \ {"signal"}, Inv, pc[c] = "thread",
           Sound(r, c), DeadOK(r, NULL), Placed(r, NULL), r.pending_ipi,
           r.cur = k.cur, r.ipi = k.ipi, r.armed = k.armed,
           \A v \in Threads : r.state[v] \ {"queued"} = k.state[v] \ {"queued"}
    PROVE  Leaves(c, r, next, NULL)
<1>1. k.cur \in [CPUs -> Threads \union {NULL}]
  BY AtEntry
<1>2. \A v \in Threads : \A f : f # "queued" => (f \in r.state[v] <=> f \in k.state[v])
  <2> SUFFICES ASSUME NEW v \in Threads, NEW f, f # "queued"
               PROVE  f \in r.state[v] <=> f \in k.state[v]
    OBVIOUS
  <2>1. r.state[v] \ {"queued"} = k.state[v] \ {"queued"}
    OBVIOUS
  <2> QED BY <2>1
<1>3. OwnOK(c, r, next)
  <2> SUFFICES ASSUME k.cur[c] # NULL
               PROVE  /\ k.cur[c] \notin r.armed
                      /\ r.state[k.cur[c]] \intersect {"pending", "prestart", "dead"} = {}
                      /\ "suspended" \notin r.state[k.cur[c]]
                      /\ "aborting" \in r.state[k.cur[c]] => r.ipi[c]
    BY DEF OwnOK, Goes
  <2>1. /\ k.cur[c] \notin k.armed /\ k.cur[c] \in Threads
        /\ k.state[k.cur[c]] \intersect {"pending", "prestart", "dead"} = {}
        /\ "suspended" \notin k.state[k.cur[c]]
        /\ "aborting" \in k.state[k.cur[c]] => k.ipi[c]
    BY <1>1 DEF Inv, CurrentOK, AbortSeen, Goes
  <2> QED BY <1>2, <2>1
<1>4. ASSUME NEW d \in CPUs \ {c} PROVE OtherOK(d, r)
  BY <1>1, <1>2 DEF OtherOK, Calm
<1>5. Calm(r, c)
  BY DEF Calm
<1> QED BY <1>3, <1>4, <1>5 DEF Leaves

-----------------------------------------------------------------------------
(* The actions. *)

\* A thread that runs may run.
LEMMA RunnerFacts ==
    ASSUME NEW c \in CPUs, NEW t \in Threads, Inv, Runs(c, t)
    PROVE  /\ k.cur[c] = t /\ pc[c] = "thread" /\ t # NULL
           /\ z_is_thread_ready(k, t) /\ ~Prevented(k, t) /\ t \notin k.armed
           /\ \A d \in CPUs \ {c} : k.cur[d] # t
           /\ t \notin Range(k.runq)
<1>1. k.cur[c] = t /\ pc[c] = "thread" /\ t # NULL
  BY SchedAssumption DEF Runs
<1>2. t \notin k.armed /\ ~Prevented(k, t)
  BY <1>1 DEF Inv, CurrentOK, Prevented
<1>3. \A d \in CPUs \ {c} : k.cur[d] # t
  BY <1>1 DEF Inv, CurOK
<1>4. t \notin Range(k.runq)
  BY <1>1 DEF Inv, CurOK
<1> QED BY <1>1, <1>2, <1>3, <1>4 DEF z_is_thread_ready

\* On one CPU, or by itself, nobody is changed while it runs on another.
LEMMA NotElsewhere ==
    ASSUME NEW c \in CPUs, NEW t \in Threads, NEW u \in Threads, Inv, Runs(c, t),
           OneCpu(app) \/ u = t
    PROVE  \A d \in CPUs \ {c} : k.cur[d] # u
<1>1. CASE OneCpu(app)
  <2> SUFFICES ASSUME NEW d \in CPUs \ {c}, k.cur[d] = u PROVE FALSE
    OBVIOUS
  <2>1. pc[c] # "off" /\ pc[d] # "off"
    BY SchedAssumption DEF Runs, Inv, CpusOK
  <2> QED BY <1>1, <2>1, Others
<1>2. CASE u = t
  BY <1>2, RunnerFacts
<1> QED BY <1>1, <1>2

\* z_sched_start() makes a thread ready that was not started.
LEMMA StartInv ==
    ASSUME NEW c \in CPUs, NEW t \in Threads, NEW u \in Threads, Inv,
           z_sched_start(c, t, u)
    PROVE  Inv'
<1> DEFINE s == [k EXCEPT !.state[u] = @ \ {"prestart"}]
           m == ready_thread(s, c, u)
<1>1. /\ Runs(c, t) /\ "prestart" \in k.state[u] /\ expired' = expired /\ doing' = doing
      /\ Section(c, z_reschedule(m, c), "thread")
  BY DEF z_sched_start, Enters
<1>2. Placed(k, NULL) /\ pc[c] = "thread" /\ k \in Kernel
  BY <1>1, AllPlaced DEF Runs, Inv
<1>3. Eased(u, s)
  BY <1>2 DEF Eased, Kernel, Flags, Touched, SameJoins, Frame
<1>4. \A d \in CPUs : k.cur[d] # u
  BY <1>1, SchedAssumption DEF Inv, CurrentOK
<1> HIDE DEF s
<1>5. /\ m \in Kernel /\ Sound(m, c) /\ Placed(m, NULL) /\ DeadOK(m, NULL)
      /\ Frame(k, m) /\ m.armed \subseteq k.armed /\ \A v \in Threads : NoNewFlags(m, v)
      /\ \A v \in Threads : m.state[v] \ {"queued"} = s.state[v] \ {"queued"}
  BY <1>2, <1>3, <1>4, EasedReady
<1> HIDE DEF m
<1>6. k.cur \in [CPUs -> Threads \union {NULL}] /\ NULL \notin Threads
  BY AtEntry
<1>7. Midway(c, m)
  BY <1>5, <1>6, FrameMidway DEF NoNewFlags
<1>8. Harmless(c, m, NULL)
  <2>1. Spares(s, m, NULL)
    BY <1>5, MarkSpares DEF Sound
  <2>2. Spares(k, s, NULL)
    BY <1>1, <1>3 DEF Spares, Eased, Touched, Ending
  <2>3. Spares(k, m, NULL)
    BY <2>1, <2>2 DEF Spares
  <2> QED BY <1>5, <1>6, <2>3 DEF Harmless
<1>9. /\ Leaves(c, z_reschedule(m, c), "thread", NULL)
      /\ Harmless(c, z_reschedule(m, c), NULL)
  BY <1>7, <1>8, RescheduleLeaves
<1> QED BY <1>1, <1>2, <1>9, SectionDone DEF Places, Continues

\* k_thread_resume() takes away what kept the thread from running.
LEMMA ResumeInv ==
    ASSUME NEW c \in CPUs, NEW t \in Threads, NEW u \in Threads, Inv,
           k_thread_resume(c, t, u)
    PROVE  Inv'
<1> DEFINE s == [k EXCEPT !.state[u] = @ \ {"suspended"}]
           m == ready_thread(s, c, u)
<1>1. /\ Runs(c, t) /\ expired' = expired /\ doing' = doing /\ "suspended" \in k.state[u]
      /\ Calls(app, "resume", t, u) /\ Section(c, z_reschedule(m, c), "thread")
  BY DEF k_thread_resume, Enters, Calls
<1>2. Placed(k, NULL) /\ pc[c] = "thread" /\ k \in Kernel
  BY <1>1, AllPlaced DEF Runs, Inv
<1>3. Eased(u, s)
  BY <1>2 DEF Eased, Kernel, Flags, Touched, SameJoins, Frame
<1>4. OneCpu(app) /\ t # u /\ \A d \in CPUs \ {c} : k.cur[d] # u
  <2>1. OneCpu(app)
    BY <1>1 DEF Inv, Disciplined, KeepsToItself
  <2>2. t # u
    BY <1>1, RunnerFacts DEF Prevented
  <2> QED BY <1>1, <2>1, <2>2, NotElsewhere
<1> HIDE DEF s
<1>5. /\ m \in Kernel /\ Sound(m, c) /\ Placed(m, NULL) /\ DeadOK(m, NULL)
      /\ Frame(k, m) /\ m.armed \subseteq k.armed /\ \A v \in Threads : NoNewFlags(m, v)
      /\ \A v \in Threads : m.state[v] \ {"queued"} = s.state[v] \ {"queued"}
  BY <1>2, <1>3, <1>4, EasedReady
<1> HIDE DEF m
<1>6. k.cur \in [CPUs -> Threads \union {NULL}] /\ NULL \notin Threads
  BY AtEntry
<1>7. Midway(c, m)
  BY <1>5, <1>6, FrameMidway DEF NoNewFlags
<1>8. Harmless(c, m, u)
  <2>1. Spares(k, m, u)
    <3>1. \A v \in Threads \ {u} : m.state[v] \ {"queued"} = k.state[v] \ {"queued"}
      BY <1>3, <1>5 DEF Eased, Touched
    <3> QED BY <1>5, <3>1, MarkSpares DEF Sound
  <2>2. \A w \in Threads : ~Calls(app, "wakeup", w, u)
    BY <1>1, <1>4 DEF Inv, Disciplined, WakesInTurn
  <2>3. \A w \in Threads : doing[w].on = u => doing[w].op \notin {"load", "store"}
    BY <2>2 DEF Inv, CallsOK, GoodCall
  <2>4. \A d \in CPUs \ {c} : expired[d] # u
    <3> SUFFICES ASSUME NEW d \in CPUs \ {c}, expired[d] = u PROVE FALSE
      OBVIOUS
    <3>1. pc[d] # "off"
      BY <1>6 DEF Inv, TimeoutOK
    <3> QED BY <1>2, <1>4, <3>1, Others
  <2>5. NoNewFlags(m, u)
    BY <1>5
  <2>6. MayChange(c, m, u)
    BY <1>4, <2>3, <2>4, <2>5 DEF MayChange, NoNewFlags, Inv, DoomedOK, Ending
  <2> QED BY <1>5, <2>1, <2>6 DEF Harmless
<1>9. /\ Leaves(c, z_reschedule(m, c), "thread", NULL)
      /\ Harmless(c, z_reschedule(m, c), u)
  BY <1>7, <1>8, RescheduleLeaves
<1> QED BY <1>1, <1>2, <1>9, SectionDone DEF Places, Continues

\* The running thread is taken out and put back, as k_yield() and the time
\* slice do.
LEMMA RequeueRunner ==
    ASSUME NEW c \in CPUs, NEW t \in Threads, Inv, Runs(c, t), Placed(k, NULL)
    PROVE  LET m == update_cache(queue_thread(unready_thread(k, c, t), c, t), c, TRUE)
           IN  /\ m \in Kernel /\ Sound(m, c) /\ Placed(m, NULL) /\ DeadOK(m, NULL)
               /\ Frame(k, m) /\ m.armed = k.armed /\ Harmless(c, m, NULL)
               /\ \A v \in Threads : NoNewFlags(m, v)
               /\ \A v \in Threads : "pending" \in m.state[v] => "pending" \in k.state[v]
<1> DEFINE a == unready_thread(k, c, t)
           q == queue_thread(a, c, t)
           m == update_cache(q, c, TRUE)
<1>1. /\ k \in Kernel /\ Sound(k, c) /\ DeadOK(k, NULL)
      /\ k.cur \in [CPUs -> Threads \union {NULL}] /\ NULL \notin Threads
      /\ k.state \in [Threads -> SUBSET Flags]
  BY AtEntry
<1>2. /\ k.cur[c] = t /\ z_is_thread_ready(k, t) /\ \A d \in CPUs \ {c} : k.cur[d] # t
  BY RunnerFacts
<1>3. a \in Kernel /\ Unqueued(k, c, t, a)
  BY <1>1, UnreadyFields
<1> HIDE DEF a
<1>4. Off(k, c, t, a)
  BY <1>1, <1>2, <1>3, UnreadySound
<1>5. /\ Sound(a, c) /\ Frame(k, a) /\ a.armed = k.armed /\ a.cur = k.cur
      /\ Placed(k, t) => Placed(a, t)
      /\ \A u : DeadOK(k, u) => DeadOK(a, u)
      /\ \A v \in Threads : a.state[v] = IF v = t THEN k.state[v] \ {"queued"} ELSE k.state[v]
  BY <1>4 DEF Off, Frame
<1>6. Placed(a, t)
  BY <1>1, <1>5 DEF Placed
<1>7. /\ q \in Kernel /\ Queued(a, c, t, q)
      /\ q.sched_locked = a.sched_locked /\ q.pending_ipi = a.pending_ipi /\ q.ipi = a.ipi
  BY <1>3, QueueFields
<1> HIDE DEF q
<1>8. z_is_thread_ready(a, t) /\ "queued" \notin a.state[t]
  BY <1>2, <1>5 DEF z_is_thread_ready, Prevented
<1>9. /\ Sound(q, c) /\ Placed(q, NULL) /\ \A u : DeadOK(a, u) => DeadOK(q, u)
  BY <1>2, <1>3, <1>5, <1>6, <1>7, <1>8, QueueSound
<1>10. m \in Kernel /\ SameButCache(q, m)
  BY <1>7, CacheFields
<1> HIDE DEF m
<1>11. Sound(m, c) /\ Placed(m, NULL) /\ DeadOK(m, NULL) /\ Frame(q, m)
  BY <1>1, <1>5, <1>7, <1>9, <1>10, CacheSound
<1>12. Frame(a, q)
  BY <1>2, <1>5, <1>7 DEF Frame, Queued
<1>13. Frame(k, m)
  BY <1>5, <1>11, <1>12 DEF Frame
<1>14. a.state \in [Threads -> SUBSET Flags]
  BY <1>3 DEF Kernel
<1>15. \A v \in Threads : m.state[v] = IF v = t THEN a.state[v] \union {"queued"} ELSE a.state[v]
  BY <1>7, <1>10, <1>14 DEF Queued, SameButCache, SameCore
<1>16. \A v \in Threads : NoNewFlags(m, v)
  BY <1>5, <1>15 DEF NoNewFlags
<1>17. \A v \in Threads : "pending" \in m.state[v] => "pending" \in k.state[v]
  BY <1>5, <1>15
<1>18. m.armed = k.armed
  BY <1>5, <1>7, <1>10 DEF Queued, SameButCache, SameCore
<1>19. ASSUME NEW v \in Threads PROVE m.state[v] \ {"queued"} = k.state[v] \ {"queued"}
  BY <1>5, <1>15
<1>20. Harmless(c, m, NULL)
  BY <1>11, <1>18, <1>19, MarkHarmless
<1> QED BY <1>10, <1>11, <1>13, <1>16, <1>17, <1>18, <1>20 DEF m, q, a

\* k_yield() switches with the thread marked to go back.
LEMMA YieldInv ==
    ASSUME NEW c \in CPUs, NEW t \in Threads, Inv, k_yield(c, t)
    PROVE  Inv'
<1> DEFINE m == update_cache(queue_thread(unready_thread(k, c, t), c, t), c, TRUE)
<1>1. Runs(c, t) /\ expired' = expired /\ doing' = doing /\ Section(c, Switch(m, c), "thread")
  BY DEF k_yield, Enters
<1>2. Placed(k, NULL) /\ pc[c] = "thread"
  BY <1>1, AllPlaced DEF Runs
<1>3. /\ m \in Kernel /\ Sound(m, c) /\ Placed(m, NULL) /\ DeadOK(m, NULL)
      /\ Frame(k, m) /\ Harmless(c, m, NULL) /\ \A v \in Threads : NoNewFlags(m, v)
  BY <1>1, <1>2, RequeueRunner
<1> HIDE DEF m
<1>4. k.cur \in [CPUs -> Threads \union {NULL}]
  BY AtEntry
<1>5. Midway(c, m)
  BY <1>3, <1>4, FrameMidway DEF NoNewFlags
<1>6. Leaves(c, Switch(m, c), "thread", NULL) /\ Harmless(c, Switch(m, c), NULL)
  BY <1>3, <1>5, SwitchLeaves
<1> QED BY <1>1, <1>2, <1>6, SectionDone DEF Places, Continues

\* z_time_slice() leaves the switch to the exit of the interrupt.
LEMMA TimeSliceInv ==
    ASSUME NEW c \in CPUs, NEW t \in Threads, Inv, z_time_slice(c, t)
    PROVE  Inv'
<1> DEFINE m == update_cache(queue_thread(unready_thread(k, c, t), c, t), c, TRUE)
<1>1. Runs(c, t) /\ expired' = expired /\ doing' = doing /\ Section(c, m, "isr")
  BY DEF z_time_slice
<1>2. Placed(k, NULL) /\ pc[c] = "thread"
  BY <1>1, AllPlaced DEF Runs
<1>3. /\ m \in Kernel /\ Sound(m, c) /\ Placed(m, NULL) /\ DeadOK(m, NULL)
      /\ Frame(k, m) /\ m.armed = k.armed /\ Harmless(c, m, NULL)
      /\ \A v \in Threads : NoNewFlags(m, v)
      /\ \A v \in Threads : "pending" \in m.state[v] => "pending" \in k.state[v]
  BY <1>1, <1>2, RequeueRunner
<1> HIDE DEF m
<1>4. k.cur \in [CPUs -> Threads \union {NULL}]
  BY AtEntry
<1>5. k.cur[c] = t /\ pc[c] = "thread" /\ ~Prevented(k, t) /\ t \notin k.armed
  BY <1>1, RunnerFacts
<1>6. Leaves(c, m, "isr", NULL)
  <2>1. /\ t \notin m.armed /\ ~Prevented(m, t)
        /\ "aborting" \in m.state[t] => "aborting" \in k.state[t]
    BY <1>3, <1>5 DEF NoNewFlags, Prevented
  <2>2. \A d \in CPUs \ {c} : k.cur[d] # NULL => NoNewFlags(m, k.cur[d])
    BY <1>3, <1>4
  <2>3. /\ m.state[t] \intersect {"pending", "prestart", "dead"} = {}
        /\ "suspended" \notin m.state[t]
    BY <2>1 DEF Prevented
  <2> QED BY <1>3, <1>5, <2>1, <2>2, <2>3, FrameLeaves DEF Places
<1> QED BY <1>1, <1>2, <1>3, <1>6, SectionDone DEF Places, Continues

\* k_sleep() takes the running thread out, and it does not go back.
LEMMA SleepInv ==
    ASSUME NEW c \in CPUs, NEW t \in Threads, Inv, k_sleep(c, t)
    PROVE  Inv'
<1> DEFINE a == unready_thread(k, c, t)
           s == update_cache(a, c, TRUE)
           m == [s EXCEPT !.armed = @ \union {t}, !.state[t] = @ \union {"suspended"}]
<1>1. /\ Runs(c, t) /\ expired' = expired /\ doing' = doing /\ Calls(app, "sleep", t, t)
      /\ Section(c, Switch(m, c), "thread")
  BY DEF k_sleep, Enters, Calls
<1>2. Placed(k, NULL) /\ pc[c] = "thread"
  BY <1>1, AllPlaced DEF Runs
<1>3. /\ k \in Kernel /\ Sound(k, c) /\ DeadOK(k, NULL)
      /\ k.cur \in [CPUs -> Threads \union {NULL}] /\ NULL \notin Threads
      /\ k.state \in [Threads -> SUBSET Flags]
  BY AtEntry
<1>4. /\ k.cur[c] = t /\ z_is_thread_ready(k, t) /\ ~Prevented(k, t)
      /\ \A d \in CPUs \ {c} : k.cur[d] # t
  BY <1>1, RunnerFacts
<1>5. a \in Kernel /\ Unqueued(k, c, t, a)
  BY <1>3, UnreadyFields
<1> HIDE DEF a
<1>6. Off(k, c, t, a)
  BY <1>3, <1>4, <1>5, UnreadySound
<1>7. s \in Kernel /\ SameButCache(a, s)
  BY <1>5, CacheFields
<1> HIDE DEF s
<1>8. /\ Sound(a, c) /\ Frame(k, a) /\ SameJoins(k, a) /\ a.armed = k.armed
      /\ Placed(k, t) => Placed(a, t)
      /\ \A u : DeadOK(k, u) => DeadOK(a, u)
      /\ \A v \in Threads : a.state[v] = IF v = t THEN k.state[v] \ {"queued"} ELSE k.state[v]
  BY <1>6 DEF Off
<1>9. Placed(k, t)
  BY <1>3, <1>2 DEF Placed
<1>10. Sound(s, c) /\ Placed(s, t) /\ DeadOK(s, NULL) /\ Frame(a, s)
  BY <1>3, <1>5, <1>7, <1>8, <1>9, CacheSound
<1>11. /\ m \in Kernel /\ m.runq = s.runq /\ m.cur = s.cur /\ m.prio = s.prio
       /\ m.armed = s.armed \union {t} /\ m.state = [s.state EXCEPT ![t] = @ \union {"suspended"}]
       /\ m.pended_on = s.pended_on /\ m.join_queue = s.join_queue
       /\ m.sched_locked = s.sched_locked /\ m.pending_ipi = s.pending_ipi /\ m.ipi = s.ipi
  BY <1>7 DEF Kernel, Flags
<1> HIDE DEF m
<1>12. s.state \in [Threads -> SUBSET Flags] /\ s.cur = k.cur /\ s.state = a.state
  BY <1>7, <1>8, <1>10 DEF Kernel, Frame, SameButCache, SameCore
<1>13. \A v \in Threads : m.state[v] = IF v = t THEN (k.state[t] \ {"queued"}) \union {"suspended"}
                                       ELSE k.state[v]
  <2>1. \A v \in Threads : s.state[v] = IF v = t THEN k.state[v] \ {"queued"} ELSE k.state[v]
    BY <1>8, <1>12
  <2>2. \A v \in Threads : m.state[v] = IF v = t THEN s.state[t] \union {"suspended"}
                                        ELSE s.state[v]
    BY <1>11, <1>12
  <2> QED BY <2>1, <2>2
<1>14. Touched(s, t, m)
  BY <1>11, <1>12 DEF Touched
<1>15. FitFor(s, c, t, m)
  <2>1. "queued" \notin m.state[t] /\ "queued" \notin s.state[t]
    <3>1. s.state[t] = k.state[t] \ {"queued"}
      BY <1>8, <1>12
    <3>2. m.state[t] = (k.state[t] \ {"queued"}) \union {"suspended"}
      BY <1>13
    <3> QED BY <3>1, <3>2
  <2>2. Prevented(m, t)
    BY <1>13 DEF Prevented
  <2>3. "aborting" \in m.state[t] => "dead" \notin m.state[t] /\ \E d \in CPUs : s.cur[d] = t
    BY <1>4, <1>12, <1>13 DEF Prevented
  <2> QED BY <1>4, <1>12, <2>1, <2>2, <2>3 DEF FitFor
<1>16. JoinOK(m)
  <2>1. \A v \in Threads : "pending" \in m.state[v] <=> "pending" \in k.state[v]
    BY <1>13
  <2>2. m.pended_on = k.pended_on /\ m.join_queue = k.join_queue
    BY <1>7, <1>8, <1>11 DEF SameJoins, SameButCache, SameCore
  <2> QED BY <1>3, <2>1, <2>2 DEF Sound, JoinOK
<1>17. ~z_is_thread_ready(m, t)
  BY <1>11 DEF z_is_thread_ready
<1>18. Sound(m, c) /\ Placed(m, NULL)
  BY <1>7, <1>10, <1>11, <1>14, <1>15, <1>16, <1>17, TouchSound
<1>19. DeadOK(m, NULL)
  BY <1>4, <1>10, <1>11, <1>12, <1>13 DEF DeadOK, Prevented
<1>20. Frame(k, m)
  BY <1>8, <1>10, <1>11 DEF Frame
<1>21. \A d \in CPUs \ {c} : k.cur[d] # NULL => NoNewFlags(m, k.cur[d])
  BY <1>3, <1>4, <1>13 DEF NoNewFlags
<1>22. Midway(c, m)
  <2>1. "aborting" \in m.state[t] => "aborting" \in k.state[t]
    BY <1>13
  <2> QED BY <1>4, <1>11, <1>18, <1>19, <1>20, <1>21, <2>1, FrameMidway
<1>23. Harmless(c, m, NULL)
  <2>1. k.state[t] \intersect {"pending", "prestart", "dead", "suspended"} = {}
    BY <1>4 DEF Prevented
  <2>2. k.state[t] \subseteq {"queued", "aborting"}
    BY <1>3, <2>1 DEF Flags
  <2>3. m.state[t] \ {"aborting"} = {"suspended"}
    BY <1>13, <2>2
  <2>4. Spares(k, m, NULL)
    BY <1>13, <2>1 DEF Spares, Ending
  <2>5. Unwoken(t)
    BY <1>1 DEF Unwoken, Inv, Disciplined, WakesInTurn
  <2>6. m.armed = k.armed \union {t}
    BY <1>7, <1>8, <1>11 DEF SameButCache, SameCore
  <2> QED BY <1>3, <1>4, <2>3, <2>4, <2>5, <2>6 DEF Harmless, MayWait
<1>24. Leaves(c, Switch(m, c), "thread", NULL) /\ Harmless(c, Switch(m, c), NULL)
  BY <1>22, <1>23, SwitchLeaves
<1> QED BY <1>1, <1>2, <1>24, SectionDone DEF Places, Continues

\* k_thread_suspend() of the caller leaves it current until the switch.
LEMMA SuspendInv ==
    ASSUME NEW c \in CPUs, NEW t \in Threads, Inv, k_thread_suspend(c, t)
    PROVE  Inv'
<1> DEFINE u == doing[t].on
           s == unready_thread(k, c, u)
           m == [s EXCEPT !.state[u] = @ \union {"suspended"}]
           r == update_cache(m, c, u = t)
           next == IF u = t THEN "resched" ELSE "thread"
<1>1. /\ Runs(c, t) /\ expired' = expired /\ doing[t].op = "suspend"
      /\ doing' = [doing EXCEPT ![t] = Idle] /\ Section(c, r, next)
  BY DEF k_thread_suspend
<1>2. Placed(k, NULL) /\ pc[c] = "thread"
  BY <1>1, AllPlaced DEF Runs
<1>3. /\ k \in Kernel /\ Sound(k, c) /\ DeadOK(k, NULL)
      /\ k.cur \in [CPUs -> Threads \union {NULL}] /\ NULL \notin Threads
      /\ k.state \in [Threads -> SUBSET Flags]
  BY AtEntry
<1>4. u \in Threads /\ Calls(app, "suspend", t, u)
  BY <1>1 DEF Inv, CallsOK, GoodCall
<1> HIDE DEF u
<1>5. k.cur[c] = t /\ t \notin k.armed /\ ~Prevented(k, t)
  BY <1>1, RunnerFacts
<1>6. OneCpu(app) \/ u = t
  BY <1>4 DEF Inv, Disciplined, KeepsToItself
<1>7. \A d \in CPUs \ {c} : k.cur[d] # u
  BY <1>1, <1>4, <1>6, NotElsewhere
<1>8. s \in Kernel /\ Unqueued(k, c, u, s)
  BY <1>3, <1>4, UnreadyFields
<1> HIDE DEF s
<1>9. Placed(k, u)
  BY <1>2, <1>3 DEF Placed
<1>10. Off(k, c, u, s)
  BY <1>3, <1>4, <1>7, <1>8, UnreadySound
<1>11. /\ Sound(s, c) /\ Frame(k, s) /\ SameJoins(k, s) /\ s.armed = k.armed
       /\ Placed(s, u) /\ DeadOK(s, NULL)
       /\ \A v \in Threads : s.state[v] = IF v = u THEN k.state[v] \ {"queued"} ELSE k.state[v]
  BY <1>3, <1>9, <1>10 DEF Off
<1>12. /\ m \in Kernel /\ m.runq = s.runq /\ m.cur = s.cur /\ m.prio = s.prio
       /\ m.armed = s.armed /\ m.state = [s.state EXCEPT ![u] = @ \union {"suspended"}]
       /\ m.pended_on = s.pended_on /\ m.join_queue = s.join_queue
       /\ m.sched_locked = s.sched_locked /\ m.pending_ipi = s.pending_ipi /\ m.ipi = s.ipi
  BY <1>4, <1>8 DEF Kernel, Flags
<1> HIDE DEF m
<1>13. s.state \in [Threads -> SUBSET Flags] /\ s.cur = k.cur
  BY <1>8, <1>11 DEF Kernel, Frame
<1>14. /\ s.state[u] = k.state[u] \ {"queued"}
       /\ m.state[u] = (k.state[u] \ {"queued"}) \union {"suspended"}
       /\ \A v \in Threads \ {u} : m.state[v] = k.state[v] /\ s.state[v] = k.state[v]
  BY <1>4, <1>11, <1>12, <1>13
<1>15. Touched(s, u, m)
  BY <1>12, <1>14 DEF Touched
<1>16. FitFor(s, c, u, m)
  <2>1. "queued" \notin m.state[u] /\ "queued" \notin s.state[u] /\ Prevented(m, u)
    BY <1>14 DEF Prevented
  <2>2. "aborting" \in m.state[u] => "dead" \notin m.state[u] /\ \E d \in CPUs : s.cur[d] = u
    <3>1. "aborting" \in m.state[u] => "aborting" \in s.state[u]
      BY <1>14
    <3>2. "dead" \in m.state[u] => "dead" \in s.state[u]
      BY <1>14
    <3> QED BY <1>4, <1>11, <3>1, <3>2 DEF Sound, AbortOK
  <2> QED BY <1>7, <1>13, <2>1, <2>2 DEF FitFor
<1>17. JoinOK(m)
  <2>1. \A v \in Threads : "pending" \in m.state[v] <=> "pending" \in s.state[v]
    BY <1>14
  <2> QED BY <1>11, <1>12, <2>1 DEF Sound, JoinOK
<1>18. ~z_is_thread_ready(m, u)
  BY <1>14 DEF z_is_thread_ready, Prevented
<1>19. Sound(m, c) /\ Placed(m, NULL)
  BY <1>4, <1>8, <1>11, <1>12, <1>15, <1>16, <1>17, <1>18, TouchSound
<1>20. DeadOK(m, NULL)
  <2>1. \A v \in Threads : "dead" \in m.state[v] <=> "dead" \in s.state[v]
    BY <1>14
  <2> QED BY <1>11, <1>12, <2>1 DEF DeadOK
<1>21. r \in Kernel /\ SameButCache(m, r)
  BY <1>12, CacheFields
<1> HIDE DEF r
<1>22. Sound(r, c) /\ Placed(r, NULL) /\ DeadOK(r, NULL) /\ Frame(m, r)
  BY <1>12, <1>19, <1>20, <1>21, CacheSound
<1>23. r.state = m.state /\ r.armed = k.armed
  BY <1>11, <1>12, <1>21 DEF SameButCache, SameCore
<1>24. Frame(k, r)
  BY <1>11, <1>12, <1>22 DEF Frame
<1>25. \A d \in CPUs \ {c} : k.cur[d] # NULL => NoNewFlags(r, k.cur[d])
  BY <1>3, <1>7, <1>14, <1>23 DEF NoNewFlags
<1>26. /\ t \notin r.armed
       /\ r.state[t] \intersect {"pending", "prestart", "dead"} = {}
       /\ "suspended" \in r.state[t] => next = "resched"
       /\ "aborting" \in r.state[t] => "aborting" \in k.state[t]
  <2>1. k.state[t] \intersect {"pending", "prestart", "dead", "suspended"} = {}
    BY <1>5 DEF Prevented
  <2>2. CASE u = t
    BY <1>5, <1>14, <1>23, <2>1, <2>2
  <2>3. CASE u # t
    <3>1. r.state[t] = k.state[t]
      BY <1>14, <1>23, <2>3
    <3> QED BY <1>5, <1>23, <2>1, <3>1
  <2> QED BY <2>2, <2>3
<1> HIDE DEF next
<1>27. next \in Places \ {"timeout", "off", "signal"} /\ (next = "thread" => pc[c] = "thread")
  BY <1>2 DEF next, Places
<1>28. Leaves(c, r, next, NULL)
  BY <1>5, <1>21, <1>22, <1>24, <1>25, <1>26, <1>27, FrameLeaves
<1>29. Harmless(c, r, NULL)
  <2>1. Spares(k, r, NULL)
    <3> SUFFICES ASSUME NEW v \in Threads
                 PROVE  /\ k.state[v] = {"suspended"} => r.state[v] = {"suspended"}
                        /\ \A f \in Ending : f \in r.state[v] <=> f \in k.state[v]
      BY DEF Spares, Ending
    <3>1. CASE v = u
      <4>1. r.state[v] = (k.state[v] \ {"queued"}) \union {"suspended"}
        BY <1>14, <1>23, <3>1
      <4> QED BY <4>1 DEF Ending
    <3>2. CASE v # u
      BY <1>14, <1>23, <3>2
    <3> QED BY <3>1, <3>2
  <2> QED BY <1>3, <1>23, <2>1 DEF Harmless
<1>30. ~z_is_thread_ready(r, u)
  BY <1>18, <1>21 DEF z_is_thread_ready, Prevented, SameButCache, SameCore
<1>31. Continues(r)
  BY <1>1, <1>4, <1>30 DEF Continues, Finishes, u
<1> QED BY <1>1, <1>2, <1>27, <1>28, <1>29, <1>31, SectionDone

\* After ready_thread() a thread that may run is there.
LEMMA ReadyThere ==
    ASSUME NEW s \in Kernel, NEW c \in CPUs, NEW u \in Threads, QueueOK(s),
           QueueOK(ready_thread(s, c, u)), z_is_thread_ready(ready_thread(s, c, u), u)
    PROVE  There(ready_thread(s, c, u), u)
<1> DEFINE r == ready_thread(s, c, u)
<1>1. CASE "queued" \notin s.state[u] /\ z_is_thread_ready(s, u)
  <2> DEFINE q == queue_thread(s, c, u)
  <2>1. q \in Kernel /\ q.state = [s.state EXCEPT ![u] = @ \union {"queued"}]
    BY QueueFields DEF Queued
  <2> HIDE DEF q
  <2>2. r.state = q.state
    BY <1>1, <2>1 DEF ready_thread, update_cache, q, Kernel
  <2>3. s.state \in [Threads -> SUBSET Flags]
    BY DEF Kernel
  <2>4. "queued" \in r.state[u]
    BY <2>1, <2>2, <2>3
  <2> HIDE DEF r
  <2> QED BY <2>4 DEF QueueOK, There, r
<1>2. CASE "queued" \in s.state[u]
  <2>1. r = s
    BY <1>2 DEF ready_thread
  <2> QED BY <1>2, <2>1 DEF QueueOK, There
<1>3. CASE "queued" \notin s.state[u] /\ ~z_is_thread_ready(s, u)
  <2>1. r = s
    BY <1>3 DEF ready_thread
  <2> QED BY <1>3, <2>1
<1> QED BY <1>1, <1>2, <1>3

\* k_wakeup() does not queue a thread that is still running on another CPU.
LEMMA WakeupInv ==
    ASSUME NEW c \in CPUs, NEW t \in Threads, Inv, k_wakeup(c, t)
    PROVE  Inv'
<1> DEFINE u == doing[t].on
           m == IF ActiveElsewhere(k, c, u) THEN k ELSE ready_thread(k, c, u)
           r == [m EXCEPT !.pending_ipi = TRUE]
<1>1. /\ Runs(c, t) /\ expired' = expired /\ doing[t].op = "ready"
      /\ doing' = [doing EXCEPT ![t] = Idle] /\ Section(c, r, "resched")
  BY DEF k_wakeup
<1>2. Placed(k, NULL) /\ pc[c] = "thread"
  BY <1>1, AllPlaced DEF Runs
<1>3. /\ k \in Kernel /\ Sound(k, c) /\ DeadOK(k, NULL)
      /\ k.cur \in [CPUs -> Threads \union {NULL}] /\ NULL \notin Threads
  BY AtEntry
<1>4. k.cur[c] = t /\ t \notin k.armed /\ ~Prevented(k, t)
  BY <1>1, RunnerFacts
<1>5. u \in Threads
  BY <1>1 DEF Inv, CallsOK, GoodCall
<1> HIDE DEF u
<1>6. /\ m \in Kernel /\ Sound(m, c) /\ Placed(m, NULL) /\ DeadOK(m, NULL)
      /\ Frame(k, m) /\ m.armed = k.armed
      /\ \A v \in Threads : m.state[v] \ {"queued"} = k.state[v] \ {"queued"}
      /\ z_is_thread_ready(m, u) => There(m, u)
  <2>1. CASE ActiveElsewhere(k, c, u)
    <3>1. m = k
      BY <2>1
    <3> HIDE DEF m
    <3> QED BY <1>2, <1>3, <2>1, <3>1 DEF Frame, There, ActiveElsewhere
  <2>2. CASE ~ActiveElsewhere(k, c, u)
    <3>1. m = ready_thread(k, c, u)
      BY <2>2
    <3>2. \A d \in CPUs \ {c} : k.cur[d] # u
      BY <2>2 DEF ActiveElsewhere
    <3>3. Eased(u, k)
      BY <1>3 DEF Eased, Touched, SameJoins, Frame
    <3> HIDE DEF m
    <3>4. /\ m \in Kernel /\ Sound(m, c) /\ Placed(m, NULL) /\ DeadOK(m, NULL)
          /\ Frame(k, m) /\ m.armed = k.armed
          /\ \A v \in Threads : m.state[v] \ {"queued"} = k.state[v] \ {"queued"}
      BY <1>2, <1>5, <3>1, <3>2, <3>3, EasedReady
    <3>5. z_is_thread_ready(m, u) => There(m, u)
      BY <1>3, <1>5, <3>1, <3>4, ReadyThere DEF Sound
    <3> QED BY <3>4, <3>5
  <2> QED BY <2>1, <2>2
<1> HIDE DEF m
<1>7. /\ r \in Kernel /\ SameCore(m, r) /\ r.sched_locked = m.sched_locked /\ r.ipi = m.ipi
      /\ r.pending_ipi
  BY <1>6 DEF Kernel, SameCore
<1> HIDE DEF r
<1>8. Sound(r, c) /\ Placed(r, NULL) /\ DeadOK(r, NULL)
  BY <1>6, <1>7, CoreSound
<1>9. /\ r.cur = k.cur /\ r.ipi = k.ipi /\ r.armed = k.armed
      /\ \A v \in Threads : r.state[v] \ {"queued"} = k.state[v] \ {"queued"}
  BY <1>6, <1>7 DEF Frame, SameCore
<1>10. Leaves(c, r, "resched", NULL)
  <2>1. "resched" \in Places \ {"signal"}
    BY DEF Places
  <2> QED BY <1>2, <1>7, <1>8, <1>9, <2>1, ToldLeaves
<1>11. Harmless(c, r, NULL)
  BY <1>8, <1>9, MarkHarmless
<1>12. z_is_thread_ready(r, u) => There(r, u)
  BY <1>6, <1>7 DEF SameCore, z_is_thread_ready, Prevented, There
<1>13. Continues(r)
  BY <1>1, <1>5, <1>12 DEF Continues, Finishes, u
<1> QED BY <1>1, <1>2, <1>10, <1>11, <1>13, SectionDone DEF Places

\* Nobody aborts a thread in the middle of a call that it must finish, nor one
\* that is being woken.
LEMMA AbortedFacts ==
    ASSUME NEW c \in CPUs, NEW t \in Threads, NEW u \in Threads, Inv, Enters(c, t),
           Calls(app, "abort", t, u)
    PROVE  /\ \A w \in Threads : doing[w].on = u => doing[w].op \notin {"load", "store"}
           /\ doing[u].op # "none" => doing[u].on = u
           /\ t # u => Doomed(u)
<1>1. CASE t = u
  <2>1. Runs(c, t) /\ doing[t] = Idle
    BY DEF Enters
  <2>2. "suspended" \notin k.state[t]
    BY <2>1, RunnerFacts DEF Prevented
  <2>3. \A w \in Threads : doing[w].on = u => doing[w].op \notin {"load", "store"}
    BY <1>1, <2>2 DEF Inv, CallsOK, GoodCall
  <2> QED BY <1>1, <2>1, <2>3 DEF Idle
<1>2. CASE t # u
  <2>1. \A w \in Threads : ~Calls(app, "wakeup", w, u)
    BY <1>2 DEF Inv, Disciplined, WakesInTurn
  <2>2. \A w \in Threads : doing[w].on = u => doing[w].op \notin {"load", "store"}
    BY <2>1 DEF Inv, CallsOK, GoodCall
  <2>3. ASSUME doing[u].op # "none", doing[u].on # u PROVE FALSE
    <3>1. GoodCall(k, u, doing[u]) /\ doing[u] \in Doings
      BY DEF Inv, CallsOK
    <3>2. /\ doing[u].on \in Threads
          /\ Calls(app, "wakeup", u, doing[u].on) \/ Calls(app, "suspend", u, doing[u].on)
      BY <2>3, <3>1 DEF GoodCall, Doings
    <3> QED BY <1>2, <2>3, <3>2 DEF Inv, Disciplined, FinishesCalls
  <2>4. Doomed(u)
    BY <1>2 DEF Doomed
  <2> QED BY <2>2, <2>3, <2>4
<1> QED BY <1>1, <1>2

\* z_thread_abort() of a thread that runs on no other CPU.
LEMMA AbortHereInv ==
    ASSUME NEW c \in CPUs, NEW t \in Threads, NEW u \in Threads, Inv,
           AbortHere(c, t, u)
    PROVE  Inv'
<1> DEFINE s == end_thread(k, c, u)
<1>1. /\ Runs(c, t) /\ Enters(c, t) /\ Calls(app, "abort", t, u)
      /\ expired' = expired /\ doing' = doing /\ ~ActiveElsewhere(k, c, u)
      /\ Section(c, IF u = t THEN Switch(s, c) ELSE s, "thread")
  BY DEF AbortHere, Enters, Calls
<1>2. Placed(k, NULL) /\ pc[c] = "thread"
  BY <1>1, AllPlaced DEF Runs
<1>3. /\ k \in Kernel /\ Sound(k, c) /\ DeadOK(k, NULL)
      /\ k.cur \in [CPUs -> Threads \union {NULL}] /\ NULL \notin Threads
  BY AtEntry
<1>4. \A d \in CPUs \ {c} : k.cur[d] # u
  BY <1>1 DEF ActiveElsewhere
<1>5. k.cur[c] = t /\ t \notin k.armed /\ ~Prevented(k, t)
  BY <1>1, RunnerFacts
<1>6. Ended(k, c, u, s)
  BY <1>2, <1>3, <1>4, EndSound
<1> HIDE DEF s
<1>7. /\ s \in Kernel /\ Sound(s, c) /\ Placed(s, NULL) /\ DeadOK(s, NULL) /\ Frame(k, s)
      /\ s.armed \subseteq k.armed /\ "dead" \in s.state[u] /\ "aborting" \notin s.state[u]
      /\ \A v \in Threads \ {u} :
            /\ s.state[v] \ {"queued", "pending"} = k.state[v] \ {"queued", "pending"}
            /\ "pending" \notin k.state[v] => s.state[v] = k.state[v]
  BY <1>6 DEF Ended, Sound
<1>8. \A v \in Threads \ {u} : NoNewFlags(s, v)
  BY <1>7 DEF NoNewFlags
<1>9. \A d \in CPUs \ {c} : k.cur[d] # NULL => NoNewFlags(s, k.cur[d])
  BY <1>3, <1>4, <1>8
<1>10. Harmless(c, s, u)
  <2>1. Spares(k, s, u)
    <3> SUFFICES ASSUME NEW v \in Threads \ {u}
                 PROVE  /\ k.state[v] = {"suspended"} => s.state[v] = {"suspended"}
                        /\ \A f \in Ending : f \in s.state[v] <=> f \in k.state[v]
      BY DEF Spares, Ending
    <3>1. /\ s.state[v] \ {"queued", "pending"} = k.state[v] \ {"queued", "pending"}
          /\ "pending" \notin k.state[v] => s.state[v] = k.state[v]
      BY <1>7
    <3> QED BY <3>1 DEF Ending
  <2>2. u \notin s.armed
    BY <1>7 DEF DeadOK
  <2>3. MayChange(c, s, u)
    BY <1>1, <1>7, <2>2, AbortedFacts DEF MayChange
  <2> QED BY <1>7, <2>1, <2>3 DEF Harmless
<1>11. CASE u = t
  <2>1. Midway(c, s)
    BY <1>5, <1>7, <1>9, <1>11, FrameMidway
  <2>2. Leaves(c, Switch(s, c), "thread", NULL) /\ Harmless(c, Switch(s, c), u)
    BY <1>10, <2>1, SwitchLeaves
  <2>3. Section(c, Switch(s, c), "thread")
    BY <1>1, <1>11
  <2> QED BY <1>1, <1>2, <2>2, <2>3, SectionDone DEF Places, Continues
<1>12. CASE u # t
  <2>1. s.state[t] = k.state[t] /\ t \notin s.armed
    BY <1>5, <1>7, <1>12 DEF Prevented
  <2>2. Leaves(c, s, "thread", NULL)
    <3>1. /\ s.state[t] \intersect {"pending", "prestart", "dead"} = {}
          /\ "suspended" \notin s.state[t]
      BY <1>5, <2>1 DEF Prevented
    <3> QED BY <1>2, <1>5, <1>7, <1>9, <2>1, <3>1, FrameLeaves DEF Places
  <2>3. Section(c, s, "thread")
    BY <1>1, <1>12
  <2> QED BY <1>1, <1>2, <1>10, <2>2, <2>3, SectionDone DEF Places, Continues
<1> QED BY <1>11, <1>12

\* What holds when a CPU only looks.
LEMMA LookMidway ==
    ASSUME NEW c \in CPUs, Inv, pc[c] \notin {"timeout", "off"}
    PROVE  Midway(c, k) /\ Harmless(c, k, NULL)
<1>1. Placed(k, NULL) /\ k \in Kernel /\ Sound(k, c) /\ DeadOK(k, NULL)
  BY AllPlaced, AtEntry
<1>2. Midway(c, k)
  BY <1>1 DEF Midway, OtherOK
<1>3. Harmless(c, k, NULL)
  BY <1>1, MarkHarmless
<1> QED BY <1>2, <1>3

\* The exit of an interrupt, with the lock held,
LEMMA SwitchHandleInv ==
    ASSUME NEW c \in CPUs, Inv, z_get_next_switch_handle(c)
    PROVE  Inv'
<1>1. /\ pc[c] = "isr" /\ expired' = expired /\ doing' = doing
      /\ Section(c, Swapped(k, c), "signal")
  BY DEF z_get_next_switch_handle
<1>2. Placed(k, NULL) /\ k \in Kernel /\ Sound(k, c) /\ DeadOK(k, NULL)
  BY <1>1, AllPlaced, AtEntry
<1>3. Midway(c, k) /\ Harmless(c, k, NULL)
  BY <1>1, LookMidway
<1>4. Leaves(c, Swapped(k, c), "signal", NULL) /\ Harmless(c, Swapped(k, c), NULL)
  BY <1>2, <1>3, SwappedSound, SwitchesLeaves
<1> QED BY <1>1, <1>4, SectionDone DEF Places, Continues

\* z_reschedule_unlocked() looks again and switches.
LEMMA RescheduleInv ==
    ASSUME NEW c \in CPUs, Inv, z_reschedule_unlocked(c)
    PROVE  Inv'
<1>1. /\ pc[c] = "resched" /\ expired' = expired /\ doing' = doing
      /\ Section(c, z_reschedule(k, c), "thread")
  BY DEF z_reschedule_unlocked
<1>2. Midway(c, k) /\ Harmless(c, k, NULL)
  BY <1>1, LookMidway
<1>3. Leaves(c, z_reschedule(k, c), "thread", NULL) /\ Harmless(c, z_reschedule(k, c), NULL)
  BY <1>2, RescheduleLeaves
<1> QED BY <1>1, <1>3, SectionDone DEF Places, Continues

\* Sections that change no thread.
LEMMA CoreLeaves ==
    ASSUME NEW c \in CPUs, NEW r \in Kernel, NEW next \in Places \ {"signal"}, Inv,
           Placed(k, NULL), SameCore(k, r), pc[c] = "thread",
           \A d \in CPUs \ {c} : (k.ipi[d] => r.ipi[d]) /\ (Calm(k, d) => Calm(r, d)),
           next = "thread" => r.ipi = k.ipi /\ (Calm(k, c) => Calm(r, c))
    PROVE  Leaves(c, r, next, NULL) /\ Harmless(c, r, NULL)
<1>1. k \in Kernel /\ Sound(k, c) /\ DeadOK(k, NULL)
  BY AtEntry
<1>2. Sound(r, c) /\ Placed(r, NULL) /\ DeadOK(r, NULL)
  BY <1>1, CoreSound
<1>3. r.cur = k.cur /\ r.state = k.state /\ r.armed = k.armed
  BY DEF SameCore
<1>4. OwnOK(c, r, next)
  BY <1>3 DEF OwnOK, Inv, CurrentOK, AbortSeen, Goes
<1>5. \A d \in CPUs \ {c} : OtherOK(d, r)
  BY <1>3 DEF OtherOK
<1>6. ASSUME Goes(next), c \notin Blind(c, r) PROVE Calm(r, c)
  <2>1. c \notin blind
    BY <1>3, <1>6 DEF Blind
  <2>2. Calm(k, c)
    BY <2>1 DEF Inv, CalmOK, Goes
  <2> QED BY <1>6, <2>2 DEF Goes
<1>7. Harmless(c, r, NULL)
  BY <1>2, <1>3, MarkHarmless
<1> QED BY <1>2, <1>4, <1>5, <1>6, <1>7 DEF Leaves

\* The interrupt leads to the exit of an interrupt, where the CPU looks again.
LEMMA IpiInv ==
    ASSUME NEW c \in CPUs, Inv, z_sched_ipi(c)
    PROVE  Inv'
<1> DEFINE r == [k EXCEPT !.ipi[c] = FALSE]
<1>1. pc[c] = "thread" /\ expired' = expired /\ doing' = doing /\ Section(c, r, "isr")
  BY DEF z_sched_ipi
<1>2. Placed(k, NULL) /\ k \in Kernel
  BY <1>1, AllPlaced, AtEntry
<1>3. /\ r \in Kernel /\ SameCore(k, r) /\ r.sched_locked = k.sched_locked
      /\ r.pending_ipi = k.pending_ipi /\ \A d \in CPUs \ {c} : r.ipi[d] = k.ipi[d]
  BY <1>2 DEF Kernel, SameCore
<1> HIDE DEF r
<1>4. \A d \in CPUs \ {c} : (k.ipi[d] => r.ipi[d]) /\ (Calm(k, d) => Calm(r, d))
  BY <1>3 DEF SameCore, Calm, Before, Preemptible
<1>5. Leaves(c, r, "isr", NULL) /\ Harmless(c, r, NULL)
  BY <1>1, <1>2, <1>3, <1>4, CoreLeaves DEF Places
<1> QED BY <1>1, <1>5, SectionDone DEF Places, Continues

\* With the scheduler locked there is less to preempt,
LEMMA LockInv ==
    ASSUME NEW c \in CPUs, NEW t \in Threads, Inv, k_sched_lock(c, t)
    PROVE  Inv'
<1> DEFINE r == [k EXCEPT !.sched_locked = @ \union {t}]
<1>1. pc[c] = "thread" /\ expired' = expired /\ doing' = doing /\ Section(c, r, "thread")
  BY DEF k_sched_lock, Enters, Runs
<1>2. Placed(k, NULL) /\ k \in Kernel
  BY <1>1, AllPlaced, AtEntry
<1>3. /\ r \in Kernel /\ SameCore(k, r) /\ r.sched_locked = k.sched_locked \union {t}
      /\ r.pending_ipi = k.pending_ipi /\ r.ipi = k.ipi
  BY <1>2 DEF Kernel, SameCore
<1> HIDE DEF r
<1>4. \A d \in CPUs : Calm(k, d) => Calm(r, d)
  BY <1>3 DEF SameCore, Calm, Before, Preemptible
<1>5. Leaves(c, r, "thread", NULL) /\ Harmless(c, r, NULL)
  BY <1>1, <1>2, <1>3, <1>4, CoreLeaves DEF Places
<1> QED BY <1>1, <1>5, SectionDone DEF Places, Continues

\* and unlocking it is followed by a look at the run queue.
LEMMA UnlockInv ==
    ASSUME NEW c \in CPUs, NEW t \in Threads, Inv, k_sched_unlock(c, t)
    PROVE  Inv'
<1> DEFINE s == [k EXCEPT !.sched_locked = @ \ {t}]
           r == update_cache(s, c, FALSE)
<1>1. Runs(c, t) /\ expired' = expired /\ doing' = doing /\ Section(c, r, "resched")
  BY DEF k_sched_unlock, Enters
<1>2. Placed(k, NULL) /\ k \in Kernel /\ pc[c] = "thread"
  BY <1>1, AllPlaced, AtEntry DEF Runs
<1>3. /\ s \in Kernel /\ SameCore(k, s) /\ s.sched_locked = k.sched_locked \ {t}
      /\ s.pending_ipi = k.pending_ipi /\ s.ipi = k.ipi
  BY <1>2 DEF Kernel, SameCore
<1> HIDE DEF s
<1>4. r \in Kernel /\ SameButCache(s, r)
  BY <1>3, CacheFields
<1> HIDE DEF r
<1>5. /\ SameCore(k, r) /\ r.sched_locked = k.sched_locked \ {t}
      /\ r.pending_ipi = k.pending_ipi /\ r.ipi = k.ipi
  BY <1>3, <1>4 DEF SameCore, SameButCache
<1>6. \A d \in CPUs \ {c} : k.cur[d] # t
  BY <1>1, RunnerFacts
<1>7. \A d \in CPUs \ {c} : (k.ipi[d] => r.ipi[d]) /\ (Calm(k, d) => Calm(r, d))
  BY <1>5, <1>6 DEF SameCore, Calm, Before, Preemptible
<1>8. Leaves(c, r, "resched", NULL) /\ Harmless(c, r, NULL)
  BY <1>2, <1>4, <1>5, <1>7, CoreLeaves DEF Places
<1> QED BY <1>1, <1>2, <1>8, SectionDone DEF Places, Continues

\* The timer interrupt takes a timeout out; its thread is not running.
LEMMA TimerInterruptInv ==
    ASSUME NEW c \in CPUs, NEW t \in Threads, Inv, TimerInterrupt(c, t)
    PROVE  Inv'
<1> DEFINE r == [k EXCEPT !.armed = @ \ {t}]
<1>1. /\ pc[c] = "thread" /\ t \in k.armed /\ Section(c, r, "timeout")
      /\ expired' = [expired EXCEPT ![c] = t] /\ doing' = doing
  BY DEF TimerInterrupt
<1>2. Placed(k, NULL)
  BY <1>1, AllPlaced
<1>3. k \in Kernel /\ k.cur \in [CPUs -> Threads \union {NULL}] /\ NULL \notin Threads
  BY AtEntry
<1>4. Eased(t, r) /\ r.state = k.state /\ r.armed = k.armed \ {t} /\ r.cur = k.cur
  BY <1>3 DEF Eased, Kernel, Touched, SameJoins, Frame
<1> HIDE DEF r
<1>5. /\ Sound(r, c) /\ Placed(r, t) /\ DeadOK(r, NULL) /\ r \in Kernel /\ Frame(k, r)
      /\ \A v \in Threads : NoNewFlags(r, v)
  BY <1>2, <1>4, EasedSound DEF Eased
<1>6. Harmless(c, r, NULL)
  BY <1>4, <1>5, MarkHarmless
<1>7. k.cur[c] # NULL => /\ k.cur[c] \notin r.armed
                         /\ r.state[k.cur[c]] \intersect {"pending", "prestart", "dead"} = {}
                         /\ "suspended" \notin r.state[k.cur[c]]
  BY <1>1, <1>4 DEF Inv, CurrentOK, Eased
<1>8. Leaves(c, r, "timeout", t)
  BY <1>1, <1>3, <1>4, <1>5, <1>7, FrameLeaves DEF Places
<1> QED BY <1>1, <1>4, <1>6, <1>8, SectionInv DEF Places, Continues

\* The handler of a timeout.
LEMMA ThreadTimeoutInv ==
    ASSUME NEW c \in CPUs, Inv, z_thread_timeout(c)
    PROVE  Inv'
<1> DEFINE t == expired[c]
           r == ThreadTimeout(k, c, t)
<1>1. /\ pc[c] = "timeout" /\ Section(c, r, "isr") /\ expired' = [expired EXCEPT ![c] = NULL]
      /\ doing' = doing
  BY DEF z_thread_timeout
<1>2. /\ k \in Kernel /\ Sound(k, c) /\ DeadOK(k, NULL)
      /\ k.cur \in [CPUs -> Threads \union {NULL}] /\ NULL \notin Threads
      /\ k.state \in [Threads -> SUBSET Flags]
      /\ k.pended_on \in [Threads -> Threads \union {NULL}]
  BY AtEntry DEF Kernel
<1>3. /\ t \in Threads \ k.armed /\ \A d \in CPUs : k.cur[d] # t
      /\ \A d \in CPUs \ {c} : expired[d] # t
  BY <1>1 DEF Inv, TimeoutOK
<1>4. Placed(k, t) /\ Unwoken(t)
  <2>1. Placed(k, t)
    BY <1>1, AllPlaced
  <2>2. Unwoken(t)
    BY <1>3 DEF Inv, UnwokenOK
  <2> QED BY <2>1, <2>2
<1> HIDE DEF t
<1>5. /\ r \in Kernel /\ Sound(r, c) /\ Placed(r, NULL) /\ DeadOK(r, NULL) /\ Frame(k, r)
      /\ r.armed = k.armed /\ \A v \in Threads : NoNewFlags(r, v)
      /\ \A v \in Threads : "pending" \in r.state[v] => "pending" \in k.state[v]
      /\ \A v \in Threads \ {t} : r.state[v] = k.state[v]
  <2>1. CASE k.state[t] \intersect {"dead", "aborting"} # {}
    <3>1. r = k
      BY <2>1 DEF ThreadTimeout
    <3>2. ~z_is_thread_ready(k, t)
      BY <1>3, <2>1 DEF Inv, AbortOK, z_is_thread_ready, Prevented
    <3>3. Placed(k, NULL)
      BY <1>4, <3>2 DEF Placed
    <3> HIDE DEF r
    <3> QED BY <1>2, <3>1, <3>3 DEF Frame, NoNewFlags
  <2>2. CASE k.state[t] \intersect {"dead", "aborting"} = {}
    <3> DEFINE p == Unpended(k, t)
               m == [p EXCEPT !.state[t] = @ \ {"prestart", "suspended"}]
    <3>1. r = ready_thread(m, c, t)
      BY <2>2 DEF ThreadTimeout
    <3>2. /\ p \in Kernel /\ p.runq = k.runq /\ p.cur = k.cur /\ p.prio = k.prio
          /\ p.armed = k.armed /\ p.sched_locked = k.sched_locked
          /\ p.pending_ipi = k.pending_ipi /\ p.ipi = k.ipi
          /\ \A v \in Threads : p.state[v] = IF v = t THEN k.state[t] \ {"pending"} ELSE k.state[v]
          /\ \/ k.pended_on[t] \in Threads /\ Unjoined(k, t, p)
             \/ k.pended_on[t] = NULL /\ SameJoins(k, p)
      <4>1. CASE k.pended_on[t] # NULL
        <5>1. k.pended_on[t] \in Threads
          BY <1>2, <1>3, <4>1
        <5>2. p = unpend_thread_no_timeout(k, t)
          BY <4>1 DEF Unpended
        <5>3. p \in Kernel /\ UnpendOnly(k, t, p)
          BY <1>2, <1>3, <5>1, <5>2, UnpendFields
        <5> HIDE DEF p
        <5> QED BY <1>2, <5>1, <5>3 DEF UnpendOnly
      <4>2. CASE k.pended_on[t] = NULL
        <5>1. p = k
          BY <4>2 DEF Unpended
        <5>2. "pending" \notin k.state[t]
          BY <1>3, <4>2 DEF Inv, JoinOK
        <5> HIDE DEF p
        <5>3. \A v \in Threads : k.state[v] = IF v = t THEN k.state[t] \ {"pending"} ELSE k.state[v]
          BY <5>2
        <5> QED BY <1>2, <4>2, <5>1, <5>3 DEF SameJoins
      <4> QED BY <4>1, <4>2
    <3> HIDE DEF p
    <3>3. /\ m \in Kernel /\ m.runq = k.runq /\ m.cur = k.cur /\ m.prio = k.prio
          /\ m.armed = k.armed /\ m.sched_locked = k.sched_locked
          /\ m.pending_ipi = k.pending_ipi /\ m.ipi = k.ipi
          /\ m.state = [p.state EXCEPT ![t] = @ \ {"prestart", "suspended"}]
          /\ m.pended_on = p.pended_on /\ m.join_queue = p.join_queue
      BY <1>3, <3>2 DEF Kernel, Flags
    <3> HIDE DEF m
    <3>4. p.state \in [Threads -> SUBSET Flags]
      BY <3>2 DEF Kernel
    <3>5. /\ m.state[t] = k.state[t] \ {"pending", "prestart", "suspended"}
          /\ \A v \in Threads \ {t} : m.state[v] = k.state[v]
      BY <1>3, <3>2, <3>3, <3>4
    <3>6. /\ JoinOK(m)
          /\ \A v \in Threads : k.join_queue[v] = <<>> => m.join_queue[v] = <<>>
          /\ \A v \in Threads : m.pended_on[v] = IF v = t THEN NULL ELSE k.pended_on[v]
      <4>1. CASE k.pended_on[t] \in Threads /\ Unjoined(k, t, p)
        <5>1. Unjoined(k, t, m)
          BY <3>3, <4>1 DEF Unjoined
        <5>2. /\ "pending" \notin m.state[t] /\ JoinOK(k)
              /\ \A v \in Threads \ {t} : "pending" \in m.state[v] <=> "pending" \in k.state[v]
          BY <3>5 DEF Inv
        <5>3. m \in Kernel
          BY <3>3
        <5>4. JoinsWithout(k, t, m)
          BY <1>2, <1>3, <4>1, <5>1, <5>2, <5>3, UnjoinedOK
        <5>5. \A v \in Threads : m.pended_on[v] = IF v = t THEN NULL ELSE k.pended_on[v]
          BY <1>2, <5>1 DEF Unjoined
        <5> QED BY <5>4, <5>5 DEF JoinsWithout
      <4>2. CASE k.pended_on[t] = NULL /\ SameJoins(k, p)
        <5>1. m.join_queue = k.join_queue /\ m.pended_on = k.pended_on
          BY <3>3, <4>2 DEF SameJoins
        <5>2. \A v \in Threads : "pending" \in m.state[v] <=> "pending" \in k.state[v]
          BY <1>3, <3>5, <4>2 DEF Inv, JoinOK
        <5> QED BY <4>2, <5>1, <5>2 DEF Inv, JoinOK
      <4> QED BY <3>2, <4>1, <4>2
    <3>7. Touched(k, t, m)
      BY <3>3, <3>5 DEF Touched
    <3>8. FitFor(k, c, t, m)
      <4>1. "queued" \in m.state[t] <=> "queued" \in k.state[t]
        BY <3>5
      <4>2. "queued" \in k.state[t] => t \notin k.armed /\ "dead" \notin k.state[t]
        BY <1>3 DEF Inv, QueueOK, z_is_thread_ready, Prevented
      <4>3. "queued" \in m.state[t] => z_is_thread_ready(m, t)
        BY <3>3, <3>5, <4>1, <4>2 DEF z_is_thread_ready, Prevented
      <4>4. "aborting" \notin m.state[t]
        BY <2>2, <3>5
      <4> QED BY <1>3, <4>1, <4>3, <4>4 DEF FitFor
    <3>9. Sound(m, c) /\ Placed(m, t)
      BY <1>2, <1>3, <1>4, <3>3, <3>6, <3>7, <3>8, TouchSound
    <3>10. DeadOK(m, NULL)
      <4>1. \A v \in Threads : "dead" \in m.state[v] => "dead" \in k.state[v]
        BY <3>5
      <4> QED BY <1>2, <3>3, <3>6, <4>1 DEF DeadOK
    <3>11. \A d \in CPUs \ {c} : m.cur[d] # t
      BY <1>3, <3>3
    <3> HIDE DEF r
    <3>12. /\ Sound(r, c) /\ Frame(m, r) /\ r.armed = m.armed
           /\ Placed(m, t) => Placed(r, NULL)
           /\ \A w : DeadOK(m, w) => DeadOK(r, w)
           /\ \A v \in Threads : r.state[v] = m.state[v]
                                 \/ (v = t /\ r.state[v] = m.state[v] \union {"queued"})
      <4>1. m \in Kernel /\ Sound(m, c) /\ t \in Threads
        BY <1>3, <3>3, <3>9
      <4> QED BY <3>1, <3>11, <4>1, ReadySound
    <3>13. r \in Kernel /\ Placed(r, NULL) /\ DeadOK(r, NULL) /\ r.armed = k.armed
      BY <3>3, <3>9, <3>10, <3>12 DEF Sound
    <3>14. Frame(k, r)
      BY <3>3, <3>12 DEF Frame
    <3>15. ASSUME NEW v \in Threads, NEW f, f # "queued", f \in r.state[v]
           PROVE  f \in k.state[v]
      BY <3>5, <3>12, <3>15
    <3>16. \A v \in Threads : NoNewFlags(r, v)
      BY <3>15 DEF NoNewFlags
    <3>17. \A v \in Threads \ {t} : r.state[v] = k.state[v]
      BY <3>5, <3>12
    <3> QED BY <3>12, <3>13, <3>14, <3>15, <3>16, <3>17
  <2> QED BY <2>1, <2>2
<1> HIDE DEF r
<1>6. k.cur[c] # NULL => /\ k.cur[c] \in Threads /\ k.cur[c] \notin k.armed
                         /\ ~Prevented(k, k.cur[c])
  BY <1>1, <1>2 DEF Inv, CurrentOK, Prevented
<1>7. k.cur[c] # NULL =>
         /\ k.cur[c] \notin r.armed
         /\ r.state[k.cur[c]] \intersect {"pending", "prestart", "dead"} = {}
         /\ "suspended" \notin r.state[k.cur[c]]
         /\ "aborting" \in r.state[k.cur[c]] => "aborting" \in k.state[k.cur[c]]
  BY <1>5, <1>6 DEF NoNewFlags, Prevented
<1>8. \A d \in CPUs \ {c} : k.cur[d] # NULL => NoNewFlags(r, k.cur[d])
  BY <1>2, <1>5
<1>9. Leaves(c, r, "isr", NULL)
  BY <1>1, <1>5, <1>7, <1>8, FrameLeaves DEF Places
<1>10. Harmless(c, r, t)
  <2>1. Spares(k, r, t)
    BY <1>5 DEF Spares
  <2>2. \A w \in Threads : doing[w].on = t => doing[w].op \notin {"load", "store"}
    BY <1>4 DEF Unwoken, Inv, CallsOK, GoodCall
  <2>3. NoNewFlags(r, t)
    BY <1>3, <1>5
  <2>4. MayChange(c, r, t)
    BY <1>3, <1>5, <2>2, <2>3 DEF MayChange, NoNewFlags, Inv, DoomedOK, Ending
  <2> QED BY <1>5, <2>1, <2>4 DEF Harmless
<1> QED BY <1>1, <1>3, <1>9, <1>10, SectionInv DEF Places, Continues

-----------------------------------------------------------------------------
(* Joining. *)

\* r is s with the current thread t of c waiting in the join queue of u.
Pended(s, t, u, r) ==
    /\ r.state = [s.state EXCEPT ![t] = (@ \ {"queued"}) \union {"pending"}]
    /\ r.pended_on = [s.pended_on EXCEPT ![t] = u]
    /\ r.join_queue = [s.join_queue EXCEPT ![u] = InsertByPrio(s, @, t)]
    /\ r.armed \in {s.armed, s.armed \union {t}}
    /\ r.runq = s.runq /\ r.cur = s.cur /\ r.prio = s.prio
    /\ r.sched_locked = s.sched_locked /\ r.pending_ipi = s.pending_ipi /\ r.ipi = s.ipi

\* add_to_waitq_locked() in the fields.
LEMMA PendFields ==
    ASSUME NEW s \in Kernel, NEW c \in CPUs, NEW t \in Threads, NEW u \in Threads,
           s.cur[c] = t
    PROVE  LET p == PendOnJoin(s, c, t, u)
           IN  p \in Kernel /\ Pended(s, t, u, p) /\ p.armed = s.armed
<1> DEFINE a == unready_thread(s, c, t)
           b == update_cache(a, c, t = s.cur[c])
           p == PendOnJoin(s, c, t, u)
<1>1. a \in Kernel /\ Unqueued(s, c, t, a)
  BY UnreadyFields
<1> HIDE DEF a
<1>2. b \in Kernel /\ SameButCache(a, b)
  BY <1>1, CacheFields
<1>3. p = [b EXCEPT !.state[t] = @ \union {"pending"}, !.pended_on[t] = u,
                    !.join_queue[u] = InsertByPrio(s, @, t)]
  BY DEF PendOnJoin, a
<1> HIDE DEF b, p
<1>4. /\ b.state = [s.state EXCEPT ![t] = @ \ {"queued"}] /\ b.runq = s.runq
      /\ b.cur = s.cur /\ b.prio = s.prio /\ b.armed = s.armed /\ b.pended_on = s.pended_on
      /\ b.join_queue = s.join_queue /\ b.sched_locked = s.sched_locked
      /\ b.pending_ipi = s.pending_ipi /\ b.ipi = s.ipi
  BY <1>1, <1>2 DEF Unqueued, SameJoins, SameButCache, SameCore
<1>5. s.join_queue[u] \in Seq(Threads) /\ s.state \in [Threads -> SUBSET Flags]
  BY DEF Kernel
<1>6. InsertByPrio(s, b.join_queue[u], t) \in Seq(Threads)
  BY <1>4, <1>5, InsertFacts
<1>7. /\ p \in Kernel /\ p.state = [b.state EXCEPT ![t] = @ \union {"pending"}]
      /\ p.pended_on = [b.pended_on EXCEPT ![t] = u]
      /\ p.join_queue = [b.join_queue EXCEPT ![u] = InsertByPrio(s, @, t)]
      /\ p.armed = b.armed /\ p.runq = b.runq /\ p.cur = b.cur /\ p.prio = b.prio
      /\ p.sched_locked = b.sched_locked /\ p.pending_ipi = b.pending_ipi /\ p.ipi = b.ipi
  BY <1>2, <1>3, <1>6 DEF Kernel, Flags
<1>8. [b.state EXCEPT ![t] = @ \union {"pending"}]
         = [s.state EXCEPT ![t] = (@ \ {"queued"}) \union {"pending"}]
  BY <1>4, <1>5
<1>9. Pended(s, t, u, p)
  BY <1>4, <1>7, <1>8 DEF Pended
<1> QED BY <1>4, <1>7, <1>9 DEF p

\* The record stays sound, and the caller is about to be switched out.
LEMMA PendSound ==
    ASSUME NEW s \in Kernel, NEW c \in CPUs, NEW t \in Threads, NEW u \in Threads, NEW r \in Kernel,
           Sound(s, c), Placed(s, NULL), DeadOK(s, NULL), Pended(s, t, u, r),
           s.cur[c] = t, z_is_thread_ready(s, t), "dead" \notin s.state[u]
    PROVE  /\ Sound(r, c) /\ Placed(r, NULL) /\ DeadOK(r, NULL) /\ Frame(s, r)
           /\ \A v \in Threads \ {t} : r.state[v] = s.state[v]
           /\ "aborting" \in r.state[t] => "aborting" \in s.state[t]
<1> DEFINE a == unready_thread(s, c, t)
<1>1. /\ s.state \in [Threads -> SUBSET Flags] /\ NULL \notin Threads
      /\ s.pended_on \in [Threads -> Threads \union {NULL}]
      /\ s.join_queue \in [Threads -> Seq(Threads)]
  BY SchedAssumption DEF Kernel
<1>2. \A d \in CPUs \ {c} : s.cur[d] # t
  BY <1>1 DEF Sound, CurOK
<1>3. a \in Kernel /\ Unqueued(s, c, t, a)
  BY UnreadyFields
<1> HIDE DEF a
<1>4. Off(s, c, t, a)
  BY <1>2, <1>3, UnreadySound
<1>5. /\ Sound(a, c) /\ Placed(a, t) /\ a.armed = s.armed /\ a.cur = s.cur /\ a.prio = s.prio
      /\ a.runq = s.runq
      /\ a.state[t] = s.state[t] \ {"queued"}
      /\ \A v \in Threads \ {t} : a.state[v] = s.state[v]
  <2>1. Placed(s, t)
    BY <1>1 DEF Placed
  <2> QED BY <1>3, <1>4, <2>1 DEF Off, Unqueued
<1>6. /\ r.state[t] = (s.state[t] \ {"queued"}) \union {"pending"}
      /\ \A v \in Threads \ {t} : r.state[v] = s.state[v]
      /\ \A v \in Threads : r.pended_on[v] = IF v = t THEN u ELSE s.pended_on[v]
      /\ \A v \in Threads : r.join_queue[v] = IF v = u THEN InsertByPrio(s, s.join_queue[u], t)
                                              ELSE s.join_queue[v]
  BY <1>1 DEF Pended
<1>7. t \notin s.armed /\ ~Prevented(s, t) /\ s.pended_on[t] = NULL
  BY DEF z_is_thread_ready, Prevented, Sound, JoinOK
<1>8. /\ Range(r.join_queue[u]) = Range(s.join_queue[u]) \union {t}
      /\ IsInjective(r.join_queue[u])
  <2>1. s.join_queue[u] \in Seq(Threads)
    BY <1>1
  <2>2. t \notin Range(s.join_queue[u]) /\ IsInjective(s.join_queue[u])
    BY <1>1, <1>7 DEF Sound, JoinOK
  <2> DEFINE j == s.join_queue[u]
             q == InsertByPrio(s, j, t)
  <2>3. r.join_queue[u] = q
    BY <1>6
  <2>4. j \in Seq(Threads)
    BY <2>1
  <2> HIDE DEF j
  <2>5. /\ q \in Seq(Threads) /\ Range(q) = Range(j) \union {t}
        /\ IsInjective(j) /\ t \notin Range(j) => IsInjective(q)
        /\ Ordered(j, s.prio) => Ordered(q, s.prio)
    BY <2>4, InsertFacts
  <2> HIDE DEF q
  <2> QED BY <2>2, <2>3, <2>5 DEF j
<1>9. JoinOK(r)
  <2>1. \A v \in Threads : IsInjective(r.join_queue[v])
    BY <1>6, <1>8 DEF Sound, JoinOK
  <2>2. ASSUME NEW v \in Threads, NEW w \in Threads
        PROVE  v \in Range(r.join_queue[w]) <=> r.pended_on[v] = w
    <3>1. v \in Range(s.join_queue[w]) <=> s.pended_on[v] = w
      BY DEF Sound, JoinOK
    <3>2. Range(r.join_queue[w]) = IF w = u THEN Range(s.join_queue[w]) \union {t}
                                   ELSE Range(s.join_queue[w])
      BY <1>6, <1>8
    <3> QED BY <1>1, <1>6, <1>7, <3>1, <3>2
  <2>3. ASSUME NEW v \in Threads PROVE "pending" \in r.state[v] <=> r.pended_on[v] # NULL
    <3>1. CASE v = t
      BY <1>1, <1>6, <3>1
    <3>2. CASE v # t
      BY <1>6, <3>2 DEF Sound, JoinOK
    <3> QED BY <3>1, <3>2
  <2> QED BY <2>1, <2>2, <2>3 DEF JoinOK
<1>10. r.armed \subseteq s.armed \union {t} /\ \A v \in Threads \ {t} : v \in r.armed <=> v \in s.armed
  BY DEF Pended
<1>11. Touched(a, t, r)
  BY <1>5, <1>6, <1>10 DEF Touched, Pended
<1>12. Prevented(r, t)
  BY <1>6 DEF Prevented
<1>13. FitFor(a, c, t, r)
  <2>1. "queued" \notin r.state[t] /\ "queued" \notin a.state[t]
    BY <1>5, <1>6
  <2>2. "dead" \notin r.state[t]
    BY <1>6, <1>7 DEF Prevented
  <2> QED BY <1>2, <1>5, <1>12, <2>1, <2>2 DEF FitFor
<1>14. Sound(r, c) /\ Placed(r, NULL)
  <2>1. ~z_is_thread_ready(r, t)
    BY <1>12 DEF z_is_thread_ready
  <2> QED BY <1>3, <1>5, <1>9, <1>11, <1>13, <2>1, TouchSound
<1>15. DeadOK(r, NULL)
  <2> SUFFICES ASSUME NEW v \in Threads, "dead" \in r.state[v]
               PROVE  v \notin r.armed /\ r.pended_on[v] = NULL /\ r.join_queue[v] = <<>>
    BY DEF DeadOK
  <2>1. v # t
    BY <1>6, <1>7 DEF Prevented
  <2>2. "dead" \in s.state[v]
    BY <1>6, <2>1
  <2>3. v \notin s.armed /\ s.pended_on[v] = NULL /\ s.join_queue[v] = <<>>
    BY <1>1, <2>2 DEF DeadOK
  <2> QED BY <1>6, <1>10, <2>1, <2>2, <2>3
<1>16. Frame(s, r)
  BY DEF Pended, Frame
<1>17. "aborting" \in r.state[t] => "aborting" \in s.state[t]
  BY <1>6
<1> QED BY <1>6, <1>14, <1>15, <1>16, <1>17

\* k_thread_join() waits for a thread that is alive.
LEMMA JoinInv ==
    ASSUME NEW c \in CPUs, NEW t \in Threads, NEW u \in Threads, NEW timed \in BOOLEAN,
           Inv, k_thread_join(c, t, u, timed)
    PROVE  Inv'
<1> DEFINE p == PendOnJoin(k, c, t, u)
           m == [p EXCEPT !.armed = IF timed THEN @ \union {t} ELSE @]
<1>1. /\ Runs(c, t) /\ "dead" \notin k.state[u] /\ expired' = expired /\ doing' = doing
      /\ timed => Calls(app, "timed_join", t, u)
      /\ Section(c, Switch(m, c), "thread")
  BY DEF k_thread_join, Enters, Calls
<1>2. Placed(k, NULL) /\ pc[c] = "thread"
  BY <1>1, AllPlaced DEF Runs
<1>3. /\ k \in Kernel /\ Sound(k, c) /\ DeadOK(k, NULL)
      /\ k.cur \in [CPUs -> Threads \union {NULL}]
  BY AtEntry
<1>4. k.cur[c] = t /\ z_is_thread_ready(k, t) /\ \A d \in CPUs \ {c} : k.cur[d] # t
  BY <1>1, RunnerFacts
<1>5. /\ m \in Kernel /\ Pended(k, t, u, m)
      /\ m.armed = IF timed THEN k.armed \union {t} ELSE k.armed
  <2>1. p \in Kernel /\ Pended(k, t, u, p) /\ p.armed = k.armed
    BY <1>3, <1>4, PendFields
  <2> DEFINE a == IF timed THEN p.armed \union {t} ELSE p.armed
  <2>2. m = [p EXCEPT !.armed = a]
    OBVIOUS
  <2> HIDE DEF p, m
  <2>3. a = k.armed \/ a = k.armed \union {t}
    BY <2>1
  <2>4. a = IF timed THEN k.armed \union {t} ELSE k.armed
    BY <2>1
  <2> HIDE DEF a
  <2>5. k \in Kernel /\ p \in Kernel /\ Pended(k, t, u, p)
    BY <1>3, <2>1
  <2>6. a \in SUBSET Threads
    BY <2>3, <2>5 DEF Kernel
  <2>7. /\ m \in Kernel /\ m.state = p.state /\ m.pended_on = p.pended_on
        /\ m.join_queue = p.join_queue /\ m.runq = p.runq /\ m.cur = p.cur /\ m.prio = p.prio
        /\ m.sched_locked = p.sched_locked /\ m.pending_ipi = p.pending_ipi /\ m.ipi = p.ipi
        /\ m.armed = a
    BY <2>2, <2>5, <2>6 DEF Kernel
  <2>8. Pended(k, t, u, m)
    BY <2>3, <2>5, <2>7 DEF Pended
  <2> QED BY <2>4, <2>7, <2>8
<1> HIDE DEF m
<1>6. /\ Sound(m, c) /\ Placed(m, NULL) /\ DeadOK(m, NULL) /\ Frame(k, m)
      /\ \A v \in Threads \ {t} : m.state[v] = k.state[v]
      /\ "aborting" \in m.state[t] => "aborting" \in k.state[t]
  BY <1>1, <1>2, <1>3, <1>4, <1>5, PendSound
<1>7. \A d \in CPUs \ {c} : k.cur[d] # NULL => NoNewFlags(m, k.cur[d])
  BY <1>3, <1>4, <1>6 DEF NoNewFlags
<1>8. Midway(c, m)
  BY <1>4, <1>5, <1>6, <1>7, FrameMidway
<1>9. Harmless(c, m, NULL)
  <2>1. "suspended" \notin k.state[t] /\ "dead" \notin k.state[t]
    BY <1>4 DEF z_is_thread_ready, Prevented
  <2>2. m.state[t] = (k.state[t] \ {"queued"}) \union {"pending"}
    BY <1>3, <1>5 DEF Pended, Kernel
  <2>3. Spares(k, m, NULL)
    BY <1>6, <2>1, <2>2 DEF Spares, Ending
  <2>4. timed => Unwoken(t) /\ OneCpu(app)
    BY <1>1 DEF Unwoken, Inv, Disciplined, WakesInTurn, KeepsToItself
  <2> QED BY <1>3, <1>4, <1>5, <2>3, <2>4, SchedAssumption DEF Harmless, MayWait
<1>10. Leaves(c, Switch(m, c), "thread", NULL) /\ Harmless(c, Switch(m, c), NULL)
  BY <1>8, <1>9, SwitchLeaves
<1> QED BY <1>1, <1>2, <1>10, SectionDone DEF Places, Continues

\* z_thread_abort() of a running thread interrupts all other CPUs and waits.
LEMMA AbortElsewhereInv ==
    ASSUME NEW c \in CPUs, NEW t \in Threads, NEW u \in Threads, Inv,
           AbortElsewhere(c, t, u)
    PROVE  Inv'
<1> DEFINE s == [k EXCEPT !.state[u] = @ \union {"aborting"},
                          !.ipi = [d \in CPUs |-> @[d] \/ d # c]]
           m == PendOnJoin(s, c, t, u)
<1>1. /\ Runs(c, t) /\ Enters(c, t) /\ Calls(app, "abort", t, u)
      /\ "dead" \notin k.state[u] /\ expired' = expired /\ doing' = doing
      /\ ActiveElsewhere(k, c, u) /\ Section(c, Switch(m, c), "thread")
  BY DEF AbortElsewhere, Enters, Calls
<1>2. Placed(k, NULL) /\ pc[c] = "thread"
  BY <1>1, AllPlaced DEF Runs
<1>3. /\ k \in Kernel /\ Sound(k, c) /\ DeadOK(k, NULL)
      /\ k.cur \in [CPUs -> Threads \union {NULL}] /\ NULL \notin Threads
      /\ k.state \in [Threads -> SUBSET Flags]
  BY AtEntry
<1>4. /\ k.cur[c] = t /\ z_is_thread_ready(k, t) /\ t # NULL
      /\ \A d \in CPUs \ {c} : k.cur[d] # t
  BY <1>1, RunnerFacts
<1>5. PICK e \in CPUs \ {c} : k.cur[e] = u
  BY <1>1 DEF ActiveElsewhere
<1>6. /\ s \in Kernel /\ s.runq = k.runq /\ s.cur = k.cur /\ s.prio = k.prio /\ s.armed = k.armed
      /\ s.pended_on = k.pended_on /\ s.join_queue = k.join_queue
      /\ s.sched_locked = k.sched_locked /\ s.pending_ipi = k.pending_ipi
      /\ s.state = [k.state EXCEPT ![u] = @ \union {"aborting"}]
      /\ \A d \in CPUs \ {c} : s.ipi[d]
  <2> DEFINE i == [d \in CPUs |-> k.ipi[d] \/ d # c]
             f == [k.state EXCEPT ![u] = @ \union {"aborting"}]
  <2>1. i \in [CPUs -> BOOLEAN] /\ \A d \in CPUs \ {c} : i[d]
    OBVIOUS
  <2>2. f \in [Threads -> SUBSET Flags]
    BY <1>3 DEF Flags
  <2>3. s = [k EXCEPT !.state = f, !.ipi = i]
    OBVIOUS
  <2> HIDE DEF i, f, s
  <2>4. /\ s \in Kernel /\ s.runq = k.runq /\ s.cur = k.cur /\ s.prio = k.prio
        /\ s.armed = k.armed /\ s.pended_on = k.pended_on /\ s.join_queue = k.join_queue
        /\ s.sched_locked = k.sched_locked /\ s.pending_ipi = k.pending_ipi
        /\ s.state = f /\ s.ipi = i
    BY <1>3, <2>1, <2>2, <2>3 DEF Kernel
  <2> QED BY <2>1, <2>4 DEF f
<1> HIDE DEF s
<1>7. /\ s.state[u] = k.state[u] \union {"aborting"}
      /\ \A v \in Threads \ {u} : s.state[v] = k.state[v]
  BY <1>3, <1>6
<1>8. Touched(k, u, s)
  BY <1>6, <1>7 DEF Touched
<1>9. \A v \in Threads : z_is_thread_ready(s, v) <=> z_is_thread_ready(k, v)
  BY <1>6, <1>7 DEF z_is_thread_ready, Prevented
<1>10. FitFor(k, c, u, s)
  <2>1. "queued" \in s.state[u] <=> "queued" \in k.state[u]
    BY <1>7
  <2>2. "queued" \in s.state[u] => z_is_thread_ready(s, u)
    BY <1>9, <2>1 DEF Inv, QueueOK
  <2>3. "dead" \notin s.state[u]
    BY <1>1, <1>7
  <2>4. u \notin s.armed /\ s.state[u] \intersect {"pending", "prestart", "dead"} = {}
    BY <1>3, <1>5, <1>6, <1>7 DEF Inv, CurrentOK
  <2> QED BY <1>5, <2>1, <2>2, <2>3, <2>4 DEF FitFor
<1>11. JoinOK(s)
  <2>1. \A v \in Threads : "pending" \in s.state[v] <=> "pending" \in k.state[v]
    BY <1>7
  <2> QED BY <1>6, <2>1 DEF Inv, JoinOK
<1>12. Sound(s, c) /\ Placed(s, u)
  <2>1. Placed(k, u)
    BY <1>2, <1>3 DEF Placed
  <2> QED BY <1>3, <1>6, <1>8, <1>10, <1>11, <2>1, TouchSound
<1>13. Placed(s, NULL)
  BY <1>5, <1>6, <1>12 DEF Placed
<1>14. DeadOK(s, NULL) /\ "dead" \notin s.state[u]
  <2>1. \A v \in Threads : "dead" \in s.state[v] <=> "dead" \in k.state[v]
    BY <1>7
  <2> QED BY <1>1, <1>3, <1>6, <2>1 DEF DeadOK
<1>15. s.cur[c] = t /\ z_is_thread_ready(s, t) /\ t # u
  BY <1>4, <1>5, <1>6, <1>9
<1>16. m \in Kernel /\ Pended(s, t, u, m) /\ m.armed = s.armed
  BY <1>6, <1>15, PendFields
<1> HIDE DEF m
<1>17. /\ Sound(m, c) /\ Placed(m, NULL) /\ DeadOK(m, NULL) /\ Frame(s, m)
       /\ \A v \in Threads \ {t} : m.state[v] = s.state[v]
       /\ "aborting" \in m.state[t] => "aborting" \in s.state[t]
  <2>1. /\ s \in Kernel /\ Sound(s, c) /\ Placed(s, NULL) /\ DeadOK(s, NULL)
        /\ s.cur[c] = t /\ z_is_thread_ready(s, t) /\ "dead" \notin s.state[u]
        /\ m \in Kernel /\ Pended(s, t, u, m) /\ u \in Threads
    BY <1>6, <1>12, <1>13, <1>14, <1>15, <1>16
  <2> QED BY <2>1, PendSound
<1>18. \A d \in CPUs \ {c} : m.ipi[d]
  BY <1>6, <1>17 DEF Frame
<1>19. ASSUME NEW d \in CPUs \ {c} PROVE OtherOK(d, m)
  <2>1. m.cur[d] = k.cur[d]
    BY <1>6, <1>17 DEF Frame
  <2>2. k.cur[d] # NULL /\ "suspended" \in m.state[k.cur[d]] => "suspended" \in k.state[k.cur[d]]
    BY <1>3, <1>4, <1>7, <1>17
  <2> QED BY <1>18, <2>1, <2>2 DEF OtherOK, Calm
<1>20. "aborting" \in m.state[t] => "aborting" \in k.state[t]
  BY <1>7, <1>15, <1>17
<1>21. Midway(c, m)
  BY <1>4, <1>6, <1>16, <1>17, <1>19, <1>20 DEF Midway, Frame
<1>22. Harmless(c, m, u)
  <2>1. "suspended" \notin k.state[t] /\ "dead" \notin k.state[t]
    BY <1>4 DEF z_is_thread_ready, Prevented
  <2>2. m.state[t] = (k.state[t] \ {"queued"}) \union {"pending"}
    BY <1>6, <1>7, <1>15, <1>16 DEF Pended, Kernel
  <2>3. Spares(k, m, u)
    BY <1>7, <1>17, <2>1, <2>2 DEF Spares, Ending
  <2>4. m.armed = k.armed /\ u \notin k.armed /\ \A d \in CPUs : expired[d] # u
    BY <1>3, <1>5, <1>6, <1>16 DEF Inv, CurrentOK, TimeoutOK
  <2>5. MayChange(c, m, u)
    BY <1>1, <1>15, <2>4, AbortedFacts DEF MayChange
  <2> QED BY <2>3, <2>4, <2>5 DEF Harmless
<1>23. Leaves(c, Switch(m, c), "thread", NULL) /\ Harmless(c, Switch(m, c), u)
  BY <1>21, <1>22, SwitchLeaves
<1> QED BY <1>1, <1>2, <1>23, SectionDone DEF Places, Continues

-----------------------------------------------------------------------------
(* The change of a priority. *)

\* r is s with another priority for u, a thread that is not in the run queue.
Reprioritised(s, u, p, r) ==
    /\ r.prio = [s.prio EXCEPT ![u] = p]
    /\ r.state = s.state /\ r.runq = s.runq /\ r.cur = s.cur /\ r.armed = s.armed
    /\ r.pended_on = s.pended_on /\ r.join_queue = s.join_queue
    /\ r.sched_locked = s.sched_locked /\ r.ipi = s.ipi /\ r.pending_ipi

\* That keeps the run queue in order.
LEMMA PrioSound ==
    ASSUME NEW s \in Kernel, NEW c \in CPUs, NEW u \in Threads, NEW p \in Int, NEW r \in Kernel,
           Sound(s, c), Reprioritised(s, u, p, r), u \notin Range(s.runq)
    PROVE  /\ Sound(r, c)
           /\ \A x : Placed(s, x) => Placed(r, x)
           /\ \A x : DeadOK(s, x) => DeadOK(r, x)
<1>1. \A v : /\ z_is_thread_ready(r, v) <=> z_is_thread_ready(s, v)
             /\ Prevented(r, v) <=> Prevented(s, v)
  BY DEF Reprioritised, z_is_thread_ready, Prevented
<1>2. s.runq \in Seq(Threads) /\ s.prio \in [Threads -> Int]
  BY DEF Kernel
<1>3. Ordered(r.runq, r.prio)
  <2> SUFFICES ASSUME NEW i \in 1..Len(s.runq), NEW j \in 1..Len(s.runq), i < j
               PROVE  r.prio[s.runq[i]] <= r.prio[s.runq[j]]
    BY DEF Ordered, Reprioritised
  <2>1. s.runq[i] \in Range(s.runq) /\ s.runq[j] \in Range(s.runq)
    BY <1>2, RangeMembers
  <2>2. s.runq[i] # u /\ s.runq[j] # u /\ s.runq[i] \in Threads /\ s.runq[j] \in Threads
    BY <1>2, <2>1, RangeMembers
  <2>3. s.prio[s.runq[i]] <= s.prio[s.runq[j]]
    BY DEF Sound, QueueOK, Ordered
  <2> QED BY <1>2, <2>2, <2>3 DEF Reprioritised
<1>4. QueueOK(r)
  BY <1>1, <1>3 DEF Sound, QueueOK, Reprioritised
<1>5. CurOK(r) /\ JoinOK(r) /\ AbortOK(r)
  BY DEF Sound, CurOK, JoinOK, AbortOK, Reprioritised
<1>6. RunsOK(r, c)
  BY <1>1 DEF Sound, RunsOK, Reprioritised
<1>7. \A x : Placed(s, x) => Placed(r, x)
  BY <1>1 DEF Placed, Reprioritised
<1>8. \A x : DeadOK(s, x) => DeadOK(r, x)
  BY DEF DeadOK, Reprioritised
<1> QED BY <1>4, <1>5, <1>6, <1>7, <1>8 DEF Sound

\* k_thread_priority_set() takes the thread out, changes it and puts it back.
LEMMA PrioritySetInv ==
    ASSUME NEW c \in CPUs, NEW t \in Threads, NEW u \in Threads, NEW p \in NewPrios[u],
           Inv, k_thread_priority_set(c, t, u, p)
    PROVE  Inv'
<1> DEFINE queued     == "queued" \in k.state[u]
           need_sched == z_is_thread_ready(k, u)
           s  == IF need_sched /\ queued THEN dequeue_thread(k, c, u) ELSE k
           s1 == [s EXCEPT !.prio[u] = p, !.pending_ipi = TRUE]
           s2 == IF need_sched /\ queued THEN queue_thread(s1, c, u) ELSE s1
           r  == IF need_sched THEN update_cache(s2, c, TRUE) ELSE s2
           next == IF need_sched /\ t \notin k.sched_locked THEN "resched" ELSE "thread"
<1>1. /\ Runs(c, t) /\ Calls(app, "prio", t, u) /\ expired' = expired /\ doing' = doing
      /\ Section(c, r, next)
  BY DEF k_thread_priority_set, Enters, Calls
<1>2. Placed(k, NULL) /\ pc[c] = "thread"
  BY <1>1, AllPlaced DEF Runs
<1>3. /\ k \in Kernel /\ Sound(k, c) /\ DeadOK(k, NULL) /\ NULL \notin Threads
      /\ k.state \in [Threads -> SUBSET Flags]
  BY AtEntry
<1>4. \A d \in CPUs \ {c} : k.cur[d] # u
  <2>1. OneCpu(app) \/ u = t
    BY <1>1 DEF Inv, Disciplined, KeepsToItself
  <2> QED BY <1>1, <2>1, NotElsewhere
<1>5. p \in Int
  BY SchedAssumption
<1>6. queued => need_sched
  BY DEF Inv, QueueOK
<1> HIDE DEF need_sched
<1>7. /\ s \in Kernel /\ Sound(s, c) /\ Placed(s, u) /\ DeadOK(s, NULL)
      /\ u \notin Range(s.runq) /\ s.cur = k.cur /\ s.ipi = k.ipi /\ s.armed = k.armed
      /\ "queued" \notin s.state[u]
      /\ \A v \in Threads : s.state[v] \ {"queued"} = k.state[v] \ {"queued"}
  <2>0. Placed(k, u)
    BY <1>2, <1>3 DEF Placed
  <2>1. CASE queued
    <3>1. s = unready_thread(k, c, u)
      BY <1>3, <1>6, <2>1 DEF unready_thread
    <3> HIDE DEF s
    <3>2. s \in Kernel /\ Unqueued(k, c, u, s)
      BY <1>3, <3>1, UnreadyFields
    <3>3. Off(k, c, u, s)
      BY <1>3, <1>4, <3>2, UnreadySound
    <3>4. /\ Sound(s, c) /\ Frame(k, s) /\ s.armed = k.armed /\ u \notin Range(s.runq)
          /\ Placed(s, u) /\ DeadOK(s, NULL)
          /\ \A v \in Threads : s.state[v] = IF v = u THEN k.state[v] \ {"queued"} ELSE k.state[v]
      BY <1>3, <2>0, <3>3 DEF Off
    <3>5. \A v \in Threads : s.state[v] \ {"queued"} = k.state[v] \ {"queued"}
      BY <3>4
    <3>6. "queued" \notin s.state[u]
      BY <3>4
    <3> QED BY <3>2, <3>4, <3>5, <3>6 DEF Frame
  <2>2. CASE ~queued
    <3>1. s = k
      BY <2>2
    <3>2. u \notin Range(k.runq)
      BY <2>2 DEF Inv, QueueOK
    <3> HIDE DEF s
    <3> QED BY <1>2, <1>3, <2>0, <2>2, <3>1, <3>2
  <2> QED BY <2>1, <2>2
<1> HIDE DEF s
<1>8. s1 \in Kernel /\ Reprioritised(s, u, p, s1)
  BY <1>5, <1>7 DEF Kernel, Reprioritised
<1> HIDE DEF s1
<1>9. Sound(s1, c) /\ Placed(s1, u) /\ DeadOK(s1, NULL)
  BY <1>5, <1>7, <1>8, PrioSound
<1>10. /\ s1.state = s.state /\ s1.cur = k.cur /\ s1.ipi = k.ipi /\ s1.armed = k.armed
       /\ s1.pending_ipi
  BY <1>7, <1>8 DEF Reprioritised
<1>11. z_is_thread_ready(s1, u) <=> need_sched
  BY <1>7, <1>10 DEF z_is_thread_ready, Prevented, need_sched
<1>12. /\ s2 \in Kernel /\ Sound(s2, c) /\ Placed(s2, NULL) /\ DeadOK(s2, NULL)
       /\ s2.cur = k.cur /\ s2.ipi = k.ipi /\ s2.armed = k.armed /\ s2.pending_ipi
       /\ \A v \in Threads : s2.state[v] \ {"queued"} = k.state[v] \ {"queued"}
  <2>1. CASE queued
    <3>1. s2 = queue_thread(s1, c, u)
      BY <1>6, <2>1
    <3> HIDE DEF s2
    <3>2. /\ s2 \in Kernel /\ Queued(s1, c, u, s2)
          /\ s2.pending_ipi = s1.pending_ipi /\ s2.ipi = s1.ipi
      BY <1>8, <3>1, QueueFields
    <3>3. /\ \A d \in CPUs \ {c} : s1.cur[d] # u
          /\ z_is_thread_ready(s1, u) /\ "queued" \notin s1.state[u]
      BY <1>4, <1>6, <1>7, <1>10, <1>11, <2>1
    <3>4. Sound(s2, c) /\ Placed(s2, NULL) /\ DeadOK(s2, NULL)
      BY <1>8, <1>9, <3>2, <3>3, QueueSound
    <3>5. s1.state \in [Threads -> SUBSET Flags]
      BY <1>8 DEF Kernel
    <3>6. \A v \in Threads : s2.state[v] = IF v = u THEN s1.state[v] \union {"queued"}
                                           ELSE s1.state[v]
      BY <3>2, <3>5 DEF Queued
    <3>7. \A v \in Threads : s2.state[v] \ {"queued"} = k.state[v] \ {"queued"}
      BY <1>7, <1>10, <3>6
    <3> QED BY <1>10, <3>2, <3>4, <3>7 DEF Queued
  <2>2. CASE ~queued
    <3>1. s2 = s1
      BY <2>2
    <3>2. z_is_thread_ready(s1, u) => (\E d \in CPUs : s1.cur[d] = u) \/ InHand(u)
      <4>1. \/ ~z_is_thread_ready(k, u) \/ u \in Range(k.runq)
            \/ (\E d \in CPUs : k.cur[d] = u) \/ InHand(u)
        BY <1>2, <1>3 DEF Placed
      <4>2. u \notin Range(k.runq)
        BY <2>2 DEF Inv, QueueOK
      <4> QED BY <1>10, <1>11, <4>1, <4>2 DEF need_sched
    <3>3. Placed(s1, NULL)
      BY <1>9, <3>2 DEF Placed
    <3> HIDE DEF s2
    <3> QED BY <1>7, <1>8, <1>9, <1>10, <3>1, <3>3
  <2> QED BY <2>1, <2>2
<1> HIDE DEF s2
<1>13. /\ r \in Kernel /\ Sound(r, c) /\ Placed(r, NULL) /\ DeadOK(r, NULL)
       /\ r.cur = k.cur /\ r.ipi = k.ipi /\ r.armed = k.armed /\ r.pending_ipi
       /\ \A v \in Threads : r.state[v] \ {"queued"} = k.state[v] \ {"queued"}
  <2>1. CASE need_sched
    <3>1. r = update_cache(s2, c, TRUE)
      BY <2>1
    <3> HIDE DEF r
    <3>2. r \in Kernel /\ SameButCache(s2, r)
      BY <1>12, <3>1, CacheFields
    <3>3. Sound(r, c) /\ Placed(r, NULL) /\ DeadOK(r, NULL)
      BY <1>12, <3>2, CacheSound
    <3> QED BY <1>12, <3>2, <3>3 DEF SameButCache, SameCore
  <2>2. CASE ~need_sched
    <3>1. r = s2
      BY <2>2
    <3> HIDE DEF r
    <3> QED BY <1>12, <3>1
  <2> QED BY <2>1, <2>2
<1> HIDE DEF r
<1>14. next \in Places \ {"timeout", "off", "signal"}
  BY DEF Places
<1> HIDE DEF next
<1>15. Leaves(c, r, next, NULL) /\ Harmless(c, r, NULL)
  BY <1>2, <1>13, <1>14, ToldLeaves, MarkHarmless
<1> QED BY <1>1, <1>2, <1>14, <1>15, SectionDone DEF Continues


-----------------------------------------------------------------------------
(* Between the sections. *)

\* A step outside the lock is harmless if the thread u that it eases is one that
\* the caller is about to put into the run queue or to suspend.
LEMMA StepInv ==
    ASSUME NEW c \in CPUs, NEW t \in Threads, NEW u \in Threads, NEW s, NEW next \in Doings,
           Inv, Unlocked(c, t, s, next), Eased(u, s), GoodCall(s, t, next),
           s.state[u] # k.state[u] => Calls(app, "wakeup", t, u),
           doing[t].op \notin {"ready", "suspend"},
           z_is_thread_ready(s, u) =>
              z_is_thread_ready(k, u) \/ (next.op \in {"ready", "suspend"} /\ next.on = u)
    PROVE  Inv'
<1>1. /\ Runs(c, t) /\ k' = s /\ doing' = [doing EXCEPT ![t] = next]
      /\ app' = app /\ pc' = pc /\ expired' = expired /\ blind' = blind
  BY DEF Unlocked
<1>2. /\ pc[c] = "thread" /\ ~Prevented(k, t) /\ t \in Threads
  BY <1>1, RunnerFacts
<1>3. /\ Sound(s, c) /\ DeadOK(s, NULL) /\ \A v \in Threads : NoNewFlags(s, v)
  BY <1>2, AllPlaced, EasedSound
<1>4. /\ s \in Kernel /\ Touched(k, u, s) /\ Frame(k, s) /\ s.cur = k.cur /\ s.ipi = k.ipi
      /\ s.armed \subseteq k.armed /\ s.runq = k.runq
      /\ k.cur \in [CPUs -> Threads \union {NULL}] /\ doing \in [Threads -> Doings]
      /\ NULL \notin Threads
  BY AtEntry DEF Eased, Frame, Touched, Inv
<1>5. \A v \in Threads : /\ s.state[v] \subseteq k.state[v]
                         /\ \A f \in {"queued", "pending", "dead", "aborting"} :
                               f \in s.state[v] <=> f \in k.state[v]
  BY DEF Eased, Touched
<1>6. \A v \in Threads : s.state[v] = k.state[v] \/ (v = u /\ Calls(app, "wakeup", t, v))
  BY DEF Eased, Touched
<1>7. /\ doing' \in [Threads -> Doings] /\ doing'[t] = next
      /\ \A w \in Threads \ {t} : doing'[w] = doing[w]
  BY <1>1, <1>4
<1>8. CpusOK'
  BY <1>1, <1>4 DEF Inv, CpusOK
<1>9. CurrentOK'
  <2> SUFFICES ASSUME NEW d \in CPUs, k.cur[d] # NULL
               PROVE  /\ k.cur[d] \notin s.armed
                      /\ s.state[k.cur[d]] \intersect {"pending", "prestart", "dead"} = {}
                      /\ "suspended" \in s.state[k.cur[d]] => pc[d] = "resched"
    BY <1>1, <1>4 DEF CurrentOK
  <2>1. /\ k.cur[d] \notin k.armed /\ k.cur[d] \in Threads
        /\ k.state[k.cur[d]] \intersect {"pending", "prestart", "dead"} = {}
        /\ "suspended" \in k.state[k.cur[d]] => pc[d] = "resched"
    BY <1>4 DEF Inv, CurrentOK
  <2>2. s.state[k.cur[d]] \subseteq k.state[k.cur[d]]
    BY <1>5, <2>1
  <2> QED BY <1>4, <2>1, <2>2
<1>10. \A v \in Threads : Unwoken(v) => s.state[v] = k.state[v]
  BY <1>6 DEF Unwoken
<1>11. s.armed \subseteq Threads
  BY <1>4 DEF Kernel
<1>12. ArmedOK'
  <2> SUFFICES ASSUME NEW v \in s.armed PROVE OneCpu(app) \/ s.state[v] = {"suspended"}
    BY <1>1 DEF ArmedOK
  <2>1. v \in k.armed /\ v \in Threads /\ Unwoken(v)
    BY <1>4, <1>11 DEF Inv, UnwokenOK
  <2> QED BY <1>10, <2>1 DEF Inv, ArmedOK
<1>13. ASSUME NEW d \in CPUs, pc[d] = "timeout", ~OneCpu(app)
       PROVE  Asleep(s, expired[d])
  <2>1. expired[d] \in Threads /\ Asleep(k, expired[d])
    BY <1>13 DEF Inv, TimeoutOK
  <2>2. Unwoken(expired[d])
    BY <2>1 DEF Inv, UnwokenOK
  <2> QED BY <1>10, <2>1, <2>2 DEF Asleep
<1>14. TimeoutOK'
  <2> SUFFICES ASSUME NEW d \in CPUs
               PROVE  /\ pc[d] = "timeout" =>
                            /\ expired[d] \in Threads \ s.armed
                            /\ \A e \in CPUs : s.cur[e] # expired[d]
                            /\ OneCpu(app) \/ Asleep(s, expired[d])
                            /\ \A e \in CPUs \ {d} : expired[e] # expired[d]
                      /\ pc[d] # "timeout" => expired[d] = NULL
    BY <1>1 DEF TimeoutOK, Asleep
  <2> QED BY <1>4, <1>13 DEF Inv, TimeoutOK
<1>15. UnwokenOK'
  BY <1>1, <1>4 DEF Inv, UnwokenOK, Unwoken
<1>16. CallsOK'
  <2> SUFFICES ASSUME NEW w \in Threads PROVE GoodCall(s, w, doing'[w])
    BY <1>1 DEF CallsOK, GoodCall
  <2>1. CASE w = t
    BY <1>7, <2>1
  <2>2. CASE w # t
    <3>1. GoodCall(k, w, doing[w]) /\ doing'[w] = doing[w]
      BY <1>7, <2>2 DEF Inv, CallsOK
    <3>2. ASSUME doing[w].op \in {"load", "store"} PROVE s.state[doing[w].on] = {"suspended"}
      <4>1. /\ doing[w].on \in Threads /\ Calls(app, "wakeup", w, doing[w].on)
            /\ k.state[doing[w].on] = {"suspended"}
        BY <3>1, <3>2 DEF GoodCall
      <4>2. ~Calls(app, "wakeup", t, doing[w].on)
        BY <2>2, <4>1 DEF Inv, Disciplined, WakesInTurn
      <4> QED BY <1>6, <4>1, <4>2
    <3>3. k.state[w] \intersect Ending = {} => s.state[w] \intersect Ending = {}
      BY <1>5
    <3> QED BY <3>1, <3>2, <3>3 DEF GoodCall
  <2> QED BY <2>1, <2>2
<1>17. DoomedOK'
  BY <1>1, <1>5 DEF Inv, DoomedOK, Doomed
<1>18. NoReadyThreadLost'
  <2> SUFFICES ASSUME NEW v \in Threads, z_is_thread_ready(s, v)
               PROVE  \/ v \in Range(s.runq) \/ \E d \in CPUs : s.cur[d] = v
                      \/ \E d \in CPUs : expired[d] = v
                      \/ \E w \in Threads : /\ doing'[w].op \in {"ready", "suspend"}
                                            /\ doing'[w].on = v /\ "dead" \notin s.state[w]
    BY <1>1 DEF NoReadyThreadLost
  <2>1. CASE z_is_thread_ready(k, v)
    <3>1. ASSUME NEW w \in Threads, doing[w].op \in {"ready", "suspend"}, doing[w].on = v,
                 "dead" \notin k.state[w]
          PROVE  doing'[w] = doing[w] /\ "dead" \notin s.state[w]
      BY <1>5, <1>7, <3>1
    <3> QED BY <1>4, <2>1, <3>1 DEF Inv, NoReadyThreadLost
  <2>2. CASE ~z_is_thread_ready(k, v)
    <3>1. v = u
      BY <2>2 DEF Eased, Touched, z_is_thread_ready, Prevented
    <3>2. next.op \in {"ready", "suspend"} /\ next.on = v
      BY <2>2, <3>1
    <3>3. "dead" \notin s.state[t]
      BY <1>2, <1>5 DEF Prevented
    <3> QED BY <1>7, <3>2, <3>3
  <2> QED BY <2>1, <2>2
<1>19. AbortSeen'
  <2> SUFFICES ASSUME NEW d \in CPUs, k.cur[d] # NULL, "aborting" \in s.state[k.cur[d]],
                      Goes(pc[d])
               PROVE  k.ipi[d]
    BY <1>1, <1>4 DEF AbortSeen, Goes
  <2>1. "aborting" \in k.state[k.cur[d]]
    BY <1>4, <1>5
  <2> QED BY <2>1 DEF Inv, AbortSeen
<1>20. CalmOK'
  <2> SUFFICES ASSUME NEW d \in CPUs \ blind, Goes(pc[d]) PROVE Calm(s, d)
    BY <1>1 DEF CalmOK, Goes
  <2>1. Calm(k, d)
    BY DEF Inv, CalmOK
  <2> QED BY <1>4, <2>1 DEF Frame, Calm, Before, Preemptible
<1>21. QueueOK(s) /\ CurOK(s) /\ JoinOK(s) /\ AbortOK(s) /\ Disciplined(app)
  BY <1>3 DEF Sound, Inv
<1>22. pc \in [CPUs -> Places] /\ expired \in [CPUs -> Threads \union {NULL}]
  BY DEF Inv
<1> QED BY <1>1, <1>3, <1>4, <1>7, <1>8, <1>9, <1>12, <1>14, <1>15, <1>16, <1>17, <1>18,
           <1>19, <1>20, <1>21, <1>22 DEF Inv

\* A step may leave all as it is, or take a timeout away.
LEMMA EasedSame ==
    ASSUME NEW u \in Threads, k \in Kernel
    PROVE  Eased(u, k)
BY DEF Eased, Touched, SameJoins, Frame

LEMMA EasedDisarmed ==
    ASSUME NEW u \in Threads, k \in Kernel
    PROVE  LET s == [k EXCEPT !.armed = @ \ {u}]
           IN  Eased(u, s) /\ s.state = k.state /\ s.armed = k.armed \ {u}
<1> DEFINE s == [k EXCEPT !.armed = @ \ {u}]
<1>1. /\ s \in Kernel /\ s.armed = k.armed \ {u} /\ SameJoins(k, s) /\ s.state = k.state
      /\ s.runq = k.runq /\ s.cur = k.cur /\ s.prio = k.prio /\ s.ipi = k.ipi
      /\ s.sched_locked = k.sched_locked /\ s.pending_ipi = k.pending_ipi
  BY DEF Kernel, SameJoins
<1> HIDE DEF s
<1>2. Eased(u, s)
  BY <1>1 DEF Eased, Touched, Frame
<1> QED BY <1>1, <1>2 DEF s

\* Whoever wakes or suspends another thread is not being aborted.
LEMMA CallerLives ==
    ASSUME NEW c \in CPUs, NEW t \in Threads, NEW u \in Threads, Inv, Runs(c, t),
           Calls(app, "wakeup", t, u) \/ Calls(app, "suspend", t, u)
    PROVE  /\ u # t => k.state[t] \intersect Ending = {}
           /\ Calls(app, "wakeup", t, u) => u # t /\ u \notin k.armed
<1>1. ~Prevented(k, t)
  BY RunnerFacts
<1>2. u # t => ~Doomed(t)
  BY DEF Doomed, Inv, Disciplined, FinishesCalls
<1>3. u # t => "aborting" \notin k.state[t]
  BY <1>2 DEF Inv, DoomedOK
<1>4. Calls(app, "wakeup", t, u) => u # t /\ u \notin k.armed
  BY DEF Inv, Disciplined, WakesInTurn, UnwokenOK, Unwoken
<1> QED BY <1>1, <1>3, <1>4 DEF Prevented, Ending

\* k_thread_suspend() before its section: u stays ready, and in hand.
LEMMA SuspendAbortInv ==
    ASSUME NEW c \in CPUs, NEW t \in Threads, NEW u \in Threads, Inv, SuspendAbort(c, t, u)
    PROVE  Inv'
<1> DEFINE s == [k EXCEPT !.armed = @ \ {u}]
           next == [op |-> "suspend", on |-> u, saved |-> {}]
<1>1. /\ Runs(c, t) /\ doing[t] = Idle /\ Calls(app, "suspend", t, u)
      /\ Unlocked(c, t, s, next)
  BY DEF SuspendAbort, Enters, Calls
<1>2. Eased(u, s) /\ s.state = k.state
  BY EasedDisarmed DEF Inv
<1> HIDE DEF s
<1>3. next \in Doings /\ GoodCall(s, t, next)
  BY <1>1, <1>2, CallerLives DEF Doings, GoodCall
<1>4. next.op = "suspend" /\ next.on = u /\ doing[t].op = "none"
  BY <1>1 DEF Idle
<1> HIDE DEF next
<1> QED BY <1>1, <1>2, <1>3, <1>4, StepInv

\* k_wakeup() before its section.
LEMMA WakeLookInv ==
    ASSUME NEW c \in CPUs, NEW t \in Threads, NEW u \in Threads, Inv, WakeLook(c, t, u)
    PROVE  Inv'
<1> DEFINE next == [op |-> "abort", on |-> u, saved |-> {}]
<1>1. /\ Runs(c, t) /\ doing[t] = Idle /\ Calls(app, "wakeup", t, u)
      /\ Unlocked(c, t, k, next)
  BY DEF WakeLook, Enters, Calls
<1>2. Eased(u, k)
  BY EasedSame DEF Inv
<1>3. next \in Doings /\ GoodCall(k, t, next) /\ doing[t].op = "none"
  BY <1>1, CallerLives DEF Doings, GoodCall, Idle
<1> HIDE DEF next
<1> QED BY <1>1, <1>2, <1>3, StepInv

\* What is known within it.
LEMMA WakerFacts ==
    ASSUME NEW c \in CPUs, NEW t \in Threads, Inv, Runs(c, t),
           doing[t].op \in {"abort", "test", "load", "store"}
    PROVE  /\ doing[t] \in Doings /\ doing[t].on \in Threads /\ doing[t].on # t
           /\ Calls(app, "wakeup", t, doing[t].on) /\ doing[t].on \notin k.armed
           /\ k.state[t] \intersect Ending = {}
           /\ doing[t].op \in {"load", "store"} => k.state[doing[t].on] = {"suspended"}
           /\ doing[t].op = "store" => doing[t].saved = {"suspended"}
<1>1. doing[t] \in Doings /\ GoodCall(k, t, doing[t])
  BY DEF Inv, CallsOK
<1>2. doing[t].on \in Threads /\ Calls(app, "wakeup", t, doing[t].on)
  BY <1>1 DEF GoodCall
<1> QED BY <1>1, <1>2, CallerLives DEF GoodCall

LEMMA WakeAbortInv ==
    ASSUME NEW c \in CPUs, NEW t \in Threads, Inv, WakeAbort(c, t)
    PROVE  Inv'
<1> DEFINE u == doing[t].on
           s == [k EXCEPT !.armed = @ \ {u}]
           next == [doing[t] EXCEPT !.op = IF u \in k.armed THEN "load" ELSE "test"]
<1>1. Runs(c, t) /\ doing[t].op = "abort" /\ Unlocked(c, t, s, next)
  BY DEF WakeAbort, Unlocked
<1>2. /\ doing[t] \in Doings /\ u \in Threads /\ u # t /\ Calls(app, "wakeup", t, u)
      /\ u \notin k.armed /\ k.state[t] \intersect Ending = {}
  BY <1>1, WakerFacts
<1>3. next = [doing[t] EXCEPT !.op = "test"]
  BY <1>2
<1> HIDE DEF next
<1>4. next \in Doings /\ next.op = "test" /\ next.on = u
  BY <1>2, <1>3 DEF Doings
<1> HIDE DEF u
<1>5. Eased(u, s) /\ s.state = k.state /\ s.armed = k.armed \ {u}
  BY <1>2, EasedDisarmed DEF Inv
<1> HIDE DEF s
<1>6. GoodCall(s, t, next)
  BY <1>2, <1>4, <1>5 DEF GoodCall
<1>7. z_is_thread_ready(s, u) => z_is_thread_ready(k, u)
  BY <1>2, <1>5 DEF z_is_thread_ready, Prevented
<1> QED BY <1>1, <1>2, <1>4, <1>5, <1>6, <1>7, StepInv

LEMMA WakeTestInv ==
    ASSUME NEW c \in CPUs, NEW t \in Threads, Inv, WakeTest(c, t)
    PROVE  Inv'
<1> DEFINE u == doing[t].on
           next == IF k.state[u] = {"suspended"} THEN [doing[t] EXCEPT !.op = "load"] ELSE Idle
<1>1. Runs(c, t) /\ doing[t].op = "test" /\ Unlocked(c, t, k, next)
  BY DEF WakeTest, Unlocked
<1>2. /\ doing[t] \in Doings /\ u \in Threads /\ u # t /\ Calls(app, "wakeup", t, u)
      /\ k.state[t] \intersect Ending = {}
  BY <1>1, WakerFacts
<1>3. next \in Doings /\ GoodCall(k, t, next)
  <2>1. CASE k.state[u] = {"suspended"}
    <3>1. next = [doing[t] EXCEPT !.op = "load"]
      BY <2>1
    <3> HIDE DEF next
    <3>2. next \in Doings /\ next.op = "load" /\ next.on = u
      BY <1>2, <3>1 DEF Doings
    <3> QED BY <1>2, <2>1, <3>2 DEF GoodCall
  <2>2. CASE k.state[u] # {"suspended"}
    <3>1. next = Idle
      BY <2>2
    <3> HIDE DEF next
    <3> QED BY <3>1 DEF Idle, Doings, GoodCall
  <2> QED BY <2>1, <2>2
<1> HIDE DEF next, u
<1>4. Eased(u, k)
  BY <1>2, EasedSame DEF Inv
<1> QED BY <1>1, <1>2, <1>3, <1>4, StepInv

LEMMA WakeLoadInv ==
    ASSUME NEW c \in CPUs, NEW t \in Threads, Inv, WakeLoad(c, t)
    PROVE  Inv'
<1> DEFINE u == doing[t].on
           next == [doing[t] EXCEPT !.op = "store", !.saved = k.state[u]]
<1>1. Runs(c, t) /\ doing[t].op = "load" /\ Unlocked(c, t, k, next)
  BY DEF WakeLoad, Unlocked
<1>2. /\ doing[t] \in Doings /\ u \in Threads /\ u # t /\ Calls(app, "wakeup", t, u)
      /\ k.state[t] \intersect Ending = {} /\ k.state[u] = {"suspended"}
  BY <1>1, WakerFacts
<1>3. next \in Doings /\ next.op = "store" /\ next.on = u /\ next.saved = {"suspended"}
  BY <1>2 DEF Doings, Flags
<1> HIDE DEF next, u
<1>4. GoodCall(k, t, next)
  BY <1>2, <1>3 DEF GoodCall
<1>5. Eased(u, k)
  BY <1>2, EasedSame DEF Inv
<1> QED BY <1>1, <1>2, <1>3, <1>4, <1>5, StepInv

LEMMA WakeStoreInv ==
    ASSUME NEW c \in CPUs, NEW t \in Threads, Inv, WakeStore(c, t)
    PROVE  Inv'
<1> DEFINE u == doing[t].on
           s == [k EXCEPT !.state[u] = doing[t].saved \ {"suspended"}]
           next == [doing[t] EXCEPT !.op = "ready", !.saved = {}]
<1>1. Runs(c, t) /\ doing[t].op = "store" /\ Unlocked(c, t, s, next)
  BY DEF WakeStore, Unlocked
<1>2. /\ doing[t] \in Doings /\ u \in Threads /\ u # t /\ Calls(app, "wakeup", t, u)
      /\ k.state[t] \intersect Ending = {} /\ k.state[u] = {"suspended"}
      /\ doing[t].saved = {"suspended"}
  BY <1>1, WakerFacts
<1>3. next \in Doings /\ next.op = "ready" /\ next.on = u
  BY <1>2 DEF Doings
<1>4. s = [k EXCEPT !.state[u] = {}]
  BY <1>2
<1> HIDE DEF next, u, s
<1>5. k \in Kernel
  BY DEF Inv
<1>6. /\ s \in Kernel /\ s.state = [k.state EXCEPT ![u] = {}] /\ s.armed = k.armed
      /\ SameJoins(k, s) /\ s.runq = k.runq /\ s.cur = k.cur /\ s.prio = k.prio
      /\ s.ipi = k.ipi /\ s.sched_locked = k.sched_locked /\ s.pending_ipi = k.pending_ipi
  BY <1>2, <1>4, <1>5 DEF Kernel, SameJoins
<1>7. s.state[u] = {} /\ \A v \in Threads \ {u} : s.state[v] = k.state[v]
  BY <1>2, <1>5, <1>6 DEF Kernel
<1>8. Eased(u, s)
  BY <1>2, <1>6, <1>7 DEF Eased, Touched, Frame
<1>9. GoodCall(s, t, next)
  BY <1>2, <1>3, <1>7 DEF GoodCall
<1> QED BY <1>1, <1>2, <1>3, <1>8, <1>9, StepInv

\* The signal after the section: what the CPU does not look for then, it is blind to.
LEMMA SignalAfterInv ==
    ASSUME NEW c \in CPUs, Inv, SignalAfter(c)
    PROVE  Inv'
<1> DEFINE r == signal_pending_ipi(k, c)
<1>1. /\ pc[c] = "signal" /\ k' = r /\ pc' = [pc EXCEPT ![c] = "thread"]
      /\ blind' = IF k.pending_ipi /\ \E t \in Range(k.runq) : Preempts(t, c)
                  THEN blind \union {c} ELSE blind
      /\ app' = app /\ doing' = doing /\ expired' = expired
  BY DEF SignalAfter
<1>2. k \in Kernel /\ pc \in [CPUs -> Places] /\ expired \in [CPUs -> Threads \union {NULL}]
  BY DEF Inv
<1>3. r \in Kernel /\ Signalled(k, c, r) /\ (~k.pending_ipi => r = k)
  BY <1>2, SignalFields DEF signal_pending_ipi
<1> HIDE DEF r
<1>4. /\ SameCore(k, r) /\ \A d \in CPUs : k.ipi[d] => r.ipi[d]
      /\ \A d \in CPUs \ {c} : Calm(k, d) => Calm(r, d)
      /\ \A d \in CPUs : Content(k, d) => Content(r, d)
  BY <1>2, <1>3, SignalSound
<1>5. /\ r.state = k.state /\ r.cur = k.cur /\ r.armed = k.armed /\ r.runq = k.runq
  BY <1>4 DEF SameCore
<1>6. Sound(r, c) /\ DeadOK(r, NULL)
  BY <1>2, <1>3, <1>4, AtEntry, CoreSound
<1>7. /\ pc' \in [CPUs -> Places] /\ pc'[c] = "thread"
      /\ \A d \in CPUs \ {c} : pc'[d] = pc[d]
  BY <1>1, <1>2 DEF Places
<1>8. CpusOK' /\ CurrentOK'
  BY <1>1, <1>5, <1>7 DEF Inv, CpusOK, CurrentOK
<1>9. ArmedOK' /\ UnwokenOK' /\ DoomedOK'
  BY <1>1, <1>5 DEF Inv, ArmedOK, UnwokenOK, Unwoken, DoomedOK, Doomed
<1>10. TimeoutOK'
  BY <1>1, <1>5, <1>7 DEF Inv, TimeoutOK, Asleep
<1>11. CallsOK'
  BY <1>1, <1>5 DEF Inv, CallsOK, GoodCall
<1>12. NoReadyThreadLost'
  BY <1>1, <1>5 DEF Inv, NoReadyThreadLost, z_is_thread_ready, Prevented
<1>13. AbortSeen'
  <2> SUFFICES ASSUME NEW d \in CPUs, k.cur[d] # NULL, "aborting" \in k.state[k.cur[d]],
                      Goes(pc'[d])
               PROVE  r.ipi[d]
    BY <1>1, <1>5 DEF AbortSeen, Goes
  <2>1. Goes(pc[d])
    BY <1>1, <1>7 DEF Goes
  <2> QED BY <1>4, <2>1 DEF Inv, AbortSeen
<1>14. CalmOK'
  <2> SUFFICES ASSUME NEW d \in CPUs \ blind', Goes(pc'[d]) PROVE Calm(r, d)
    BY <1>1 DEF CalmOK, Goes
  <2>1. d \notin blind /\ Goes(pc[d])
    BY <1>1, <1>7 DEF Goes
  <2>2. Calm(k, d)
    BY <2>1 DEF Inv, CalmOK
  <2>3. CASE d # c \/ ~k.pending_ipi
    BY <1>3, <1>4, <2>2, <2>3
  <2>4. CASE d = c /\ k.pending_ipi
    <3>1. Content(k, c)
      BY <1>1, <2>4 DEF Content, Preempts
    <3> QED BY <1>4, <2>4, <3>1 DEF Calm, Content
  <2> QED BY <2>3, <2>4
<1>15. QueueOK(r) /\ CurOK(r) /\ JoinOK(r) /\ AbortOK(r) /\ Disciplined(app)
  BY <1>6 DEF Sound, Inv
<1>16. doing \in [Threads -> Doings]
  BY DEF Inv
<1> QED BY <1>1, <1>2, <1>3, <1>6, <1>7, <1>8, <1>9, <1>10, <1>11, <1>12, <1>13, <1>14,
           <1>15, <1>16 DEF Inv

-----------------------------------------------------------------------------
(* The invariant. *)

\* It holds when the CPUs look for their first thread.
LEMMA InitInv ==
    ASSUME \A a \in Apps : Disciplined(a), Init
    PROVE  Inv
<1> DEFINE started == Threads \ Unstarted
           n == Cardinality(started)
<1>1. PICK q \in StartOrders :
         k = [runq         |-> q,
              state        |-> [t \in Threads |->
                                  IF t \in Unstarted THEN {"prestart"} ELSE {"queued"}],
              prio         |-> StartPrio,
              cur          |-> [c \in CPUs |-> NULL],
              swap_ok      |-> [c \in CPUs |-> FALSE],
              pended_on    |-> [t \in Threads |-> NULL],
              join_queue   |-> [t \in Threads |-> <<>>],
              sched_locked |-> {},
              armed        |-> {},
              pending_ipi  |-> Unstarted # Threads,
              ipi          |-> [c \in CPUs |-> FALSE]]
  BY DEF Init
<1>2. /\ q \in [1..n -> started] /\ IsInjective(q) /\ Range(q) = started
      /\ \A i, j \in DOMAIN q : i < j => StartPrio[q[i]] <= StartPrio[q[j]]
  BY DEF StartOrders
<1>3. n \in Nat
  BY SchedAssumption, FS_Subset, FS_CardinalityType
<1> HIDE DEF n
<1>4. q \in Seq(Threads) /\ DOMAIN q = 1..Len(q)
  <2>1. q \in [1..n -> Threads]
    BY <1>2
  <2>2. q \in Seq(Threads)
    BY <1>3, <2>1, SeqDef
  <2> QED BY <2>2, LenProperties
<1>5. k \in Kernel
  BY <1>1, <1>4, SchedAssumption DEF Kernel, Flags
<1>6. /\ k.runq = q /\ k.prio = StartPrio /\ k.armed = {}
      /\ \A t \in Threads : /\ k.state[t] = IF t \in Unstarted THEN {"prestart"} ELSE {"queued"}
                            /\ k.pended_on[t] = NULL /\ k.join_queue[t] = <<>>
      /\ \A c \in CPUs : k.cur[c] = NULL
  BY <1>1
<1>7. /\ \A c \in CPUs : /\ pc[c] = (IF c \in app.cpus THEN "isr" ELSE "off")
                        /\ expired[c] = NULL
      /\ \A t \in Threads : doing[t] = Idle
  BY DEF Init
<1>8. /\ pc \in [CPUs -> Places] /\ expired \in [CPUs -> Threads \union {NULL}]
      /\ doing \in [Threads -> Doings] /\ Disciplined(app)
  BY DEF Init, Places, Idle, Doings
<1>9. \A t \in Threads : z_is_thread_ready(k, t) <=> t \notin Unstarted
  BY <1>6 DEF z_is_thread_ready, Prevented
<1>10. QueueOK(k)
  <2>1. Ordered(q, StartPrio)
    BY <1>2, <1>4 DEF Ordered
  <2>2. \A t \in Range(q) : "queued" \in k.state[t]
    BY <1>2, <1>6
  <2>3. \A t \in Threads : "queued" \in k.state[t] => t \in started
    BY <1>6
  <2> QED BY <1>2, <1>6, <1>9, <2>1, <2>2, <2>3 DEF QueueOK
<1>11. CurOK(k)
  BY <1>2, <1>6, SchedAssumption DEF CurOK
<1>12. JoinOK(k)
  <2>1. \A t \in Threads : "pending" \notin k.state[t]
    BY <1>6
  <2>2. IsInjective(<<>>) /\ Range(<<>>) = {}
    BY DEF IsInjective, Range
  <2> QED BY <1>6, <2>1, <2>2, SchedAssumption DEF JoinOK
<1>13. AbortOK(k) /\ DeadOK(k, NULL)
  BY <1>6 DEF AbortOK, DeadOK
<1>14. CpusOK /\ CurrentOK /\ TimeoutOK /\ AbortSeen /\ CalmOK
  BY <1>6, <1>7 DEF CpusOK, CurrentOK, TimeoutOK, AbortSeen, CalmOK, Goes
<1>15. NoReadyThreadLost
  BY <1>2, <1>6, <1>9 DEF NoReadyThreadLost
<1>16. ArmedOK /\ UnwokenOK /\ CallsOK /\ DoomedOK
  BY <1>6, <1>7, SchedAssumption DEF ArmedOK, UnwokenOK, CallsOK, GoodCall, Idle, DoomedOK
<1> QED BY <1>5, <1>8, <1>10, <1>11, <1>12, <1>13, <1>14, <1>15, <1>16 DEF Inv

\* Every action keeps it.
LEMMA NextInv ==
    ASSUME Inv, Next
    PROVE  Inv'
<1>1. PICK c \in CPUs : \/ Proceed(c)
                        \/ \E t \in Threads : Call(c, t) \/ TimerInterrupt(c, t) \/ z_time_slice(c, t)
  BY DEF Next
<1>2. CASE Proceed(c)
  BY <1>2, IpiInv, ThreadTimeoutInv, SwitchHandleInv, SignalAfterInv, RescheduleInv
     DEF Proceed
<1>3. ASSUME NEW t \in Threads, Call(c, t) PROVE Inv'
  <2>1. CASE k_yield(c, t) \/ k_sleep(c, t) \/ k_sched_lock(c, t) \/ k_sched_unlock(c, t)
    BY <2>1, YieldInv, SleepInv, LockInv, UnlockInv
  <2>2. ASSUME NEW u \in Threads,
               \/ z_sched_start(c, t, u) \/ WakeLook(c, t, u)
               \/ SuspendAbort(c, t, u) \/ k_thread_resume(c, t, u)
               \/ AbortHere(c, t, u) \/ AbortElsewhere(c, t, u)
        PROVE  Inv'
    BY <2>2, StartInv, WakeLookInv, SuspendAbortInv, ResumeInv, AbortHereInv,
       AbortElsewhereInv
  <2>3. ASSUME NEW u \in Threads, k_thread_join(c, t, u, TRUE) \/ k_thread_join(c, t, u, FALSE)
        PROVE  Inv'
    BY <2>3, JoinInv
  <2>4. ASSUME NEW u \in Threads, NEW p \in NewPrios[u], k_thread_priority_set(c, t, u, p)
        PROVE  Inv'
    BY <2>4, PrioritySetInv
  <2>5. CASE k_thread_suspend(c, t) \/ k_wakeup(c, t)
    BY <2>5, SuspendInv, WakeupInv
  <2>6. CASE WakeAbort(c, t) \/ WakeTest(c, t) \/ WakeLoad(c, t) \/ WakeStore(c, t)
    BY <2>6, WakeAbortInv, WakeTestInv, WakeLoadInv, WakeStoreInv
  <2> QED BY <1>3, <2>1, <2>2, <2>3, <2>4, <2>5, <2>6 DEF Call
<1>4. ASSUME NEW t \in Threads, TimerInterrupt(c, t) \/ z_time_slice(c, t) PROVE Inv'
  BY <1>4, TimerInterruptInv, TimeSliceInv
<1> QED BY <1>1, <1>2, <1>3, <1>4

\* So it always holds, of disciplined applications.
THEOREM SchedInvariant ==
    ASSUME \A a \in Apps : Disciplined(a)
    PROVE  Spec => []Inv
<1>1. Init => Inv
  BY InitInv
<1>2. Inv /\ [Next]_vars => Inv'
  <2> SUFFICES ASSUME Inv, [Next]_vars PROVE Inv'
    OBVIOUS
  <2>1. CASE Next
    BY <2>1, NextInv
  <2>2. CASE UNCHANGED vars
    BY <2>2 DEF vars, Inv, CpusOK, CurrentOK, ArmedOK, TimeoutOK, UnwokenOK, Unwoken, CallsOK,
                GoodCall, DoomedOK, Doomed, NoReadyThreadLost, AbortSeen, CalmOK
  <2> QED BY <2>1, <2>2
<1> QED BY <1>1, <1>2, PTL DEF Spec

\* A thread is current on one CPU at most, or once in the run queue, which is
\* ordered by priority.
THEOREM RunQueueStaysSane ==
    ASSUME \A a \in Apps : Disciplined(a)
    PROVE  Spec => []RunQueueSane
<1>1. Inv => RunQueueSane
  <2> SUFFICES ASSUME Inv PROVE RunQueueSane
    OBVIOUS
  <2>1. IsInjective(k.runq) /\ Ordered(k.runq, k.prio)
    BY DEF Inv, QueueOK
  <2>2. k \in Kernel /\ k.runq \in Seq(Threads) /\ k.prio \in [Threads -> Int]
    BY DEF Inv, Kernel
  <2>3. ASSUME NEW i \in 1..Len(k.runq), NEW j \in 1..i
        PROVE  ~Before(k, k.runq[i], k.runq[j])
    <3>1. j \in 1..Len(k.runq) /\ (j < i \/ j = i)
      BY <2>2, LenProperties
    <3>2. k.runq[i] \in Threads /\ k.runq[j] \in Threads
      BY <2>2, <3>1, ElementOfSeq
    <3>3. k.prio[k.runq[i]] \in Int /\ k.prio[k.runq[j]] \in Int
      BY <2>2, <3>2
    <3>4. k.prio[k.runq[j]] <= k.prio[k.runq[i]]
      BY <2>1, <3>1, <3>3 DEF Ordered
    <3> QED BY <2>2, <3>2, <3>3, <3>4, BeforeFacts
  <2> QED BY <2>1, <2>3 DEF RunQueueSane, Inv, CurOK
<1> QED BY <1>1, SchedInvariant, PTL

\* A thread that may run is never lost.
THEOREM NoReadyThreadIsLost ==
    ASSUME \A a \in Apps : Disciplined(a)
    PROVE  Spec => []NoReadyThreadLost
<1>1. Inv => NoReadyThreadLost
  BY DEF Inv
<1> QED BY <1>1, SchedInvariant, PTL

\* No CPU is left running a thread while a more urgent one waits in the run queue,
\* unless it is about to look, or has ended a thread or signalled after it had looked.
THEOREM NoPreemptionIsMissed ==
    ASSUME \A a \in Apps : Disciplined(a)
    PROVE  Spec => []NoPreemptionMissed
<1>1. Inv => NoPreemptionMissed
  BY DEF Inv, CalmOK, Calm, Goes, NoPreemptionMissed, Settled, Preempts
<1> QED BY <1>1, SchedInvariant, PTL

\* An abort of a running thread completes, and a dead thread is in no queue.
THEOREM AbortsComplete ==
    ASSUME \A a \in Apps : Disciplined(a)
    PROVE  Spec => []AbortCompletes
<1>1. Inv => AbortCompletes
  <2> SUFFICES ASSUME Inv, NEW t \in Threads
               PROVE  /\ "aborting" \in k.state[t] => \E c \in CPUs : k.cur[c] = t /\ ~Settled(c)
                      /\ "dead" \in k.state[t] =>
                          /\ \A c \in CPUs : k.cur[c] # t
                          /\ t \notin Range(k.runq) /\ t \notin k.armed
                          /\ \A u \in Threads : t \notin Range(k.join_queue[u])
                          /\ k.join_queue[t] = <<>>
    BY DEF AbortCompletes
  <2>1. t # NULL
    BY SchedAssumption
  <2>2. "aborting" \in k.state[t] => \E c \in CPUs : k.cur[c] = t /\ ~Settled(c)
    BY <2>1 DEF Inv, AbortOK, AbortSeen, Goes, Settled
  <2>3. ASSUME "dead" \in k.state[t]
        PROVE  /\ \A c \in CPUs : k.cur[c] # t
               /\ t \notin Range(k.runq) /\ t \notin k.armed
               /\ \A u \in Threads : t \notin Range(k.join_queue[u])
               /\ k.join_queue[t] = <<>>
    <3>1. \A c \in CPUs : k.cur[c] # t
      BY <2>1, <2>3 DEF Inv, CurrentOK
    <3>2. t \notin Range(k.runq)
      BY <2>3 DEF Inv, QueueOK, z_is_thread_ready, Prevented
    <3>3. t \notin k.armed /\ k.pended_on[t] = NULL /\ k.join_queue[t] = <<>>
      BY <2>1, <2>3 DEF Inv, DeadOK
    <3>4. \A u \in Threads : t \notin Range(k.join_queue[u])
      BY <3>3, SchedAssumption DEF Inv, JoinOK
    <3> QED BY <3>1, <3>2, <3>3, <3>4
  <2> QED BY <2>2, <2>3
<1> QED BY <1>1, SchedInvariant, PTL
=============================================================================
