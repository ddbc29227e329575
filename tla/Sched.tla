------------------------------- MODULE Sched -------------------------------
(***************************************************************************)
(* The scheduler on several CPUs, kernel/sched.c and do_swap() of kswap.h: *)
(* run queue, choice of the next thread, preemption and inter-processor    *)
(* interrupts, sleeping, suspending, joining and aborting of threads.      *)
(*                                                                         *)
(* One step is one section of sched_spinlock, or one access to shared      *)
(* state outside it.  z_swap() and z_reschedule() called with that lock    *)
(* held belong to the section; z_reschedule_unlocked and the exit of an    *)
(* interrupt are sections of their own.  The record k is what the lock     *)
(* protects; the operators on it are the functions of sched.c that are     *)
(* called with the lock held.  The idle thread of a CPU is NULL.           *)
(*                                                                         *)
(* An application app is the CPUs that are started and the calls that its  *)
(* threads make, in any order and at any time.                             *)
(***************************************************************************)
EXTENDS Integers, Sequences, SequencesExt, FiniteSets

CONSTANTS Threads, CPUs,
          StartPrio,    \* the priority each thread is created with
          NewPrios,     \* the priorities k_thread_priority_set gives to each thread
          Unstarted,    \* threads created with K_FOREVER as delay
          Lockers,      \* threads that call k_sched_lock
          Apps,         \* the applications
          NULL

ASSUME SchedAssumption ==
    /\ StartPrio \in [Threads -> Int] /\ NewPrios \in [Threads -> SUBSET Int]
    /\ Unstarted \subseteq Threads /\ Lockers \subseteq Threads
    /\ \A a \in Apps : a.cpus \subseteq CPUs
    /\ NULL \notin Threads
    /\ IsFiniteSet(Threads)

VARIABLES
    k,       \* what sched_spinlock protects
    app,     \* the application that runs, one of Apps
    pc,      \* each CPU: "off", "thread", "resched" (z_reschedule_unlocked), "isr",
             \* "timeout", "signal" (about to signal_pending_ipi)
    doing,   \* each thread: the call it is in, between two steps of it
    expired, \* each CPU in "timeout": the thread whose timeout it has taken out
    blind    \* history: CPUs that have a thread to look at and are not told

vars == <<k, app, pc, doing, expired, blind>>

\* A thread in no call; of the others, the thread they are about, and the state
\* of it that was loaded.
Idle == [op |-> "none", on |-> NULL, saved |-> {}]

Prevented(s, t) == s.state[t] \intersect {"pending", "prestart", "dead", "suspended"} # {}

z_is_thread_ready(s, t) == ~Prevented(s, t) /\ t \notin s.armed

\* z_sched_prio_cmp, where the idle thread is less urgent than all others.
Before(s, t, u) == t # NULL /\ (u = NULL \/ s.prio[t] < s.prio[u])
Alike(s, t, u)  == ~Before(s, t, u) /\ ~Before(s, u, t)

\* is_preempt
Preemptible(s, t) == t = NULL \/ (s.prio[t] >= 0 /\ t \notin s.sched_locked)

\* z_priq_dumb_add
InsertByPrio(s, q, t) ==
    LET worse == {i \in 1..Len(q) : Before(s, t, q[i])}
        i     == IF worse = {} THEN Len(q) + 1
                 ELSE CHOOSE j \in worse : \A l \in worse : j <= l
    IN  InsertAt(q, i, t)

\* sys_dlist_remove of a thread that is in the list.
Without(q, t) ==
    LET places == {i \in 1..Len(q) : q[i] = t}
    IN  IF places = {} THEN q ELSE RemoveAt(q, CHOOSE i \in places : TRUE)

ActiveElsewhere(s, c, t) == \E d \in CPUs \ {c} : s.cur[d] = t

\* Variant: the running thread is put into the run queue.
queue_thread_running(s, c, t) ==
    [s EXCEPT !.state[t] = @ \union {"queued"},
              !.runq = InsertByPrio(s, @, t),
              !.swap_ok[c] = @ \/ t = s.cur[c]]

\* A running thread is marked and not put into the run queue; only the CPU it
\* runs on knows that.
queue_thread(s, c, t) ==
    [s EXCEPT !.state[t] = @ \union {"queued"},
              !.runq = IF t # s.cur[c] THEN InsertByPrio(s, @, t) ELSE @,
              !.swap_ok[c] = @ \/ t = s.cur[c]]

dequeue_thread(s, c, t) ==
    [s EXCEPT !.state[t] = @ \ {"queued"},
              !.runq = IF t # s.cur[c] THEN Without(@, t) ELSE @]

unready_thread(s, c, t) ==
    IF t # NULL /\ "queued" \in s.state[t] THEN dequeue_thread(s, c, t) ELSE s

update_cache(s, c, preempt_ok) == [s EXCEPT !.swap_ok[c] = preempt_ok]

\* Variant: the other CPUs are not told.
ready_thread_silent(s, c, t) ==
    IF "queued" \notin s.state[t] /\ z_is_thread_ready(s, t)
    THEN update_cache(queue_thread(s, c, t), c, FALSE)
    ELSE s

ready_thread(s, c, t) ==
    IF "queued" \notin s.state[t] /\ z_is_thread_ready(s, t)
    THEN [update_cache(queue_thread(s, c, t), c, FALSE) EXCEPT !.pending_ipi = TRUE]
    ELSE s

\* add_to_waitq_locked with the join queue of u.
PendOnJoin(s, c, t, u) ==
    [update_cache(unready_thread(s, c, t), c, t = s.cur[c]) EXCEPT
        !.state[t] = @ \union {"pending"},
        !.pended_on[t] = u,
        !.join_queue[u] = InsertByPrio(s, @, t)]

unpend_thread_no_timeout(s, t) ==
    [s EXCEPT !.join_queue[s.pended_on[t]] = Without(@, t),
              !.state[t] = @ \ {"pending"},
              !.pended_on[t] = NULL]

\* One turn of the loop in unpend_all.
Release(s, c, t) ==
    ready_thread([unpend_thread_no_timeout(s, t) EXCEPT !.armed = @ \ {t}], c, t)

\* The states after so many turns.
unpend_all(s, c, u) ==
    LET q == s.join_queue[u]
        after[i \in 0..Len(q)] == IF i = 0 THEN s ELSE Release(after[i - 1], c, q[i])
    IN  after[Len(q)]

\* Out of the wait queue, if it is in one.
Unpended(s, t) == IF s.pended_on[t] # NULL THEN unpend_thread_no_timeout(s, t) ELSE s

Buried(s, t) == [s EXCEPT !.state[t] = (@ \union {"dead"}) \ {"aborting"}]

end_thread(s, c, t) ==
    IF "dead" \in s.state[t] THEN s
    ELSE LET gone == [Unpended(unready_thread(Buried(s, t), c, t), t) EXCEPT !.armed = @ \ {t}]
         IN  update_cache(unpend_all(gone, c, t), c, TRUE)

-----------------------------------------------------------------------------
(* Choosing and switching to the next thread. *)

\* next_up() in its parts.  It takes the head of the run queue first,
Best(s) == IF s.runq = <<>> THEN NULL ELSE Head(s.runq)

\* then ends the current thread if that is being aborted,
EndAborted(s, c) ==
    IF s.cur[c] # NULL /\ "aborting" \in s.state[s.cur[c]] THEN end_thread(s, c, s.cur[c]) ELSE s

\* chooses between the two,
Chosen(s, c, best) ==
    LET old    == s.cur[c]
        active == old = NULL \/ ~Prevented(s, old)
        keep   == \/ Before(s, old, best)
                  \/ ~s.swap_ok[c] /\ (Alike(s, old, best) \/ ~Preemptible(s, old))
    IN  IF active /\ keep THEN old ELSE best

\* Variant: a thread that is preempted is not put back.
PutBack_lost(s, c, new) == s

\* puts the current thread back if it may still run,
PutBack(s, c, new) ==
    LET old == s.cur[c]
    IN  IF new # old /\ old # NULL /\ ~Prevented(s, old) /\ "queued" \notin s.state[old]
        THEN queue_thread(s, c, old) ELSE s

\* and takes the new one out of the run queue, which becomes the current one.
TakeNext(s, c, new) ==
    [unready_thread(PutBack(s, c, new), c, new) EXCEPT !.swap_ok[c] = FALSE, !.cur[c] = new]

next_up(s, c, best) == TakeNext(s, c, Chosen(s, c, best))

\* The thread that was current goes into the run queue.
Requeue(s, c, old) ==
    IF s.cur[c] # old /\ old # NULL /\ "queued" \in s.state[old]
    THEN [s EXCEPT !.runq = InsertByPrio(s, @, old)] ELSE s

\* arch_sched_ipi interrupts all CPUs but the calling one.
signal_pending_ipi(s, c) ==
    IF s.pending_ipi
    THEN [s EXCEPT !.pending_ipi = FALSE,
                   !.ipi = [d \in CPUs |-> @[d] \/ d # c]]
    ELSE s

\* The locked part of do_swap and z_get_next_switch_handle.  The thread switched
\* to was switched out before it came into the run queue, so wait_for_switch() ends.
Swapped(s, c) == Requeue(next_up(EndAborted(s, c), c, Best(s)), c, s.cur[c])

\* do_swap also signals before it lets the lock go.
Switch(s, c) == signal_pending_ipi(Swapped(s, c), c)

\* resched() and z_swap() of z_reschedule.
z_reschedule(s, c) == Switch(update_cache(s, c, FALSE), c)

\* t should run instead of the current thread of c.
Preempts(t, c) == Before(k, t, k.cur[c]) /\ Preemptible(k, k.cur[c])

\* The history: next_up() chose before it ended an aborted thread, and the CPU
\* has not looked again.
Blind(c, s) ==
    LET old == k.cur[c]
    IN  IF old # NULL /\ "aborting" \in k.state[old] /\ "dead" \in s.state[old]
        THEN blind \union {c}
        ELSE IF pc[c] # "thread" \/ s.cur[c] # old THEN blind \ {c}
        ELSE blind

\* The end of a section: the state it leaves and where the CPU goes on.
Section(c, s, next) ==
    /\ k' = s
    /\ pc' = [pc EXCEPT ![c] = next]
    /\ blind' = Blind(c, s)
    /\ UNCHANGED app

-----------------------------------------------------------------------------
(* Calls of the current thread t of CPU c. *)

Runs(c, t) == pc[c] = "thread" /\ k.cur[c] = t

\* t starts a call.
Enters(c, t) == Runs(c, t) /\ doing[t] = Idle

\* t does one thing outside the lock and goes on in its call with next.
Unlocked(c, t, s, next) ==
    /\ Runs(c, t)
    /\ k' = s
    /\ doing' = [doing EXCEPT ![t] = next]
    /\ UNCHANGED <<app, pc, expired, blind>>

z_sched_start(c, t, u) ==
    /\ Enters(c, t)
    /\ "prestart" \in k.state[u] /\ "dead" \notin k.state[u]
    /\ Section(c, z_reschedule(ready_thread([k EXCEPT !.state[u] = @ \ {"prestart"}], c, u), c),
               "thread")
    /\ UNCHANGED <<doing, expired>>

k_yield(c, t) ==
    /\ Enters(c, t)
    /\ Section(c, Switch(update_cache(queue_thread(unready_thread(k, c, t), c, t), c, TRUE), c),
               "thread")
    /\ UNCHANGED <<doing, expired>>

\* z_tick_sleep
k_sleep(c, t) ==
    /\ Enters(c, t) /\ <<"sleep", t, t>> \in app.calls
    /\ LET s == update_cache(unready_thread(k, c, t), c, TRUE)
       IN  Section(c, Switch([s EXCEPT !.armed = @ \union {t},
                                       !.state[t] = @ \union {"suspended"}], c), "thread")
    /\ UNCHANGED <<doing, expired>>

\* k_thread_suspend() aborts the timeout before it takes the lock.
SuspendAbort(c, t, u) ==
    /\ Enters(c, t) /\ <<"suspend", t, u>> \in app.calls
    /\ "dead" \notin k.state[u]
    /\ Unlocked(c, t, [k EXCEPT !.armed = @ \ {u}], [op |-> "suspend", on |-> u, saved |-> {}])

k_thread_suspend(c, t) ==
    /\ Runs(c, t) /\ doing[t].op = "suspend"
    /\ LET u == doing[t].on
           s == unready_thread(k, c, u)
       IN  Section(c, update_cache([s EXCEPT !.state[u] = @ \union {"suspended"}], c, u = t),
                   IF u = t THEN "resched" ELSE "thread")
    /\ doing' = [doing EXCEPT ![t] = Idle]
    /\ UNCHANGED expired

k_thread_resume(c, t, u) ==
    /\ Enters(c, t) /\ <<"resume", t, u>> \in app.calls
    /\ "dead" \notin k.state[u] /\ "suspended" \in k.state[u]
    /\ Section(c, z_reschedule(ready_thread([k EXCEPT !.state[u] = @ \ {"suspended"}], c, u), c),
               "thread")
    /\ UNCHANGED <<doing, expired>>

\* k_wakeup() before its section: nothing for a pending thread, nor for one that has
\* no timeout and is not suspended; the flag is cleared by a load and a store.
WakeLook(c, t, u) ==
    /\ Enters(c, t) /\ <<"wakeup", t, u>> \in app.calls
    /\ "pending" \notin k.state[u]
    /\ Unlocked(c, t, k, [op |-> "abort", on |-> u, saved |-> {}])

WakeAbort(c, t) ==
    LET u == doing[t].on
    IN  /\ doing[t].op = "abort"
        /\ Unlocked(c, t, [k EXCEPT !.armed = @ \ {u}],
                    [doing[t] EXCEPT !.op = IF u \in k.armed THEN "load" ELSE "test"])

WakeTest(c, t) ==
    /\ doing[t].op = "test"
    /\ Unlocked(c, t, k, IF k.state[doing[t].on] = {"suspended"}
                         THEN [doing[t] EXCEPT !.op = "load"] ELSE Idle)

WakeLoad(c, t) ==
    /\ doing[t].op = "load"
    /\ Unlocked(c, t, k, [doing[t] EXCEPT !.op = "store", !.saved = k.state[doing[t].on]])

WakeStore(c, t) ==
    /\ doing[t].op = "store"
    /\ Unlocked(c, t, [k EXCEPT !.state[doing[t].on] = doing[t].saved \ {"suspended"}],
                [doing[t] EXCEPT !.op = "ready", !.saved = {}])

\* The section of k_wakeup(), z_ready_thread, and flag_ipi.
k_wakeup(c, t) ==
    /\ Runs(c, t) /\ doing[t].op = "ready"
    /\ LET u == doing[t].on
           r == IF ActiveElsewhere(k, c, u) THEN k ELSE ready_thread(k, c, u)
       IN  Section(c, [r EXCEPT !.pending_ipi = TRUE], "resched")
    /\ doing' = [doing EXCEPT ![t] = Idle]
    /\ UNCHANGED expired

\* Calls that return -EBUSY, -EDEADLK or at once change nothing.
k_thread_join(c, t, u, timed) ==
    /\ Enters(c, t) /\ (timed => <<"timed_join", t, u>> \in app.calls)
    /\ "dead" \notin k.state[u] /\ u # t /\ k.pended_on[u] # t
    /\ LET s == PendOnJoin(k, c, t, u)
       IN  Section(c, Switch([s EXCEPT !.armed = IF timed THEN @ \union {t} ELSE @], c), "thread")
    /\ UNCHANGED <<doing, expired>>

\* z_thread_abort of a thread that runs nowhere else, the caller included.
AbortHere(c, t, u) ==
    /\ Enters(c, t) /\ <<"abort", t, u>> \in app.calls
    /\ "dead" \notin k.state[u] /\ ~ActiveElsewhere(k, c, u)
    /\ LET s == end_thread(k, c, u)
       IN  Section(c, IF u = t THEN Switch(s, c) ELSE s, "thread")
    /\ UNCHANGED <<doing, expired>>

\* Variant: the CPU is not interrupted.
AbortElsewhere_unsignalled(c, t, u) ==
    /\ Enters(c, t) /\ <<"abort", t, u>> \in app.calls
    /\ "dead" \notin k.state[u] /\ ActiveElsewhere(k, c, u)
    /\ LET s == [k EXCEPT !.state[u] = @ \union {"aborting"}]
       IN  Section(c, Switch(PendOnJoin(s, c, t, u), c), "thread")
    /\ UNCHANGED <<doing, expired>>

\* z_thread_abort of a thread that is running on another CPU: mark it, interrupt
\* that CPU, and wait until it is ended there.
AbortElsewhere(c, t, u) ==
    /\ Enters(c, t) /\ <<"abort", t, u>> \in app.calls
    /\ "dead" \notin k.state[u] /\ ActiveElsewhere(k, c, u)
    /\ LET s == [k EXCEPT !.state[u] = @ \union {"aborting"},
                          !.ipi = [d \in CPUs |-> @[d] \/ d # c]]
       IN  Section(c, Switch(PendOnJoin(s, c, t, u), c), "thread")
    /\ UNCHANGED <<doing, expired>>

\* z_set_prio, z_thread_priority_set
k_thread_priority_set(c, t, u, p) ==
    /\ Enters(c, t) /\ <<"prio", t, u>> \in app.calls
    /\ "dead" \notin k.state[u] /\ k.prio[u] # p
    /\ LET queued     == "queued" \in k.state[u]
           need_sched == z_is_thread_ready(k, u)
           s  == IF need_sched /\ queued THEN dequeue_thread(k, c, u) ELSE k
           s1 == [s EXCEPT !.prio[u] = p, !.pending_ipi = TRUE]
           s2 == IF need_sched /\ queued THEN queue_thread(s1, c, u) ELSE s1
       IN  Section(c, IF need_sched THEN update_cache(s2, c, TRUE) ELSE s2,
                   IF need_sched /\ t \notin k.sched_locked THEN "resched" ELSE "thread")
    /\ UNCHANGED <<doing, expired>>

k_sched_lock(c, t) ==
    /\ Enters(c, t) /\ t \in Lockers \ k.sched_locked
    /\ Section(c, [k EXCEPT !.sched_locked = @ \union {t}], "thread")
    /\ UNCHANGED <<doing, expired>>

k_sched_unlock(c, t) ==
    /\ Enters(c, t) /\ t \in k.sched_locked
    /\ Section(c, update_cache([k EXCEPT !.sched_locked = @ \ {t}], c, FALSE), "resched")
    /\ UNCHANGED <<doing, expired>>

-----------------------------------------------------------------------------
(* Interrupts and what follows them. *)

\* z_thread_timeout
ThreadTimeout(s, c, t) ==
    IF s.state[t] \intersect {"dead", "aborting"} # {} THEN s
    ELSE ready_thread([Unpended(s, t) EXCEPT !.state[t] = @ \ {"prestart", "suspended"}], c, t)

\* The timer interrupt takes an expired timeout out of the timeout queue, and
\* the handler takes the scheduler's lock; other CPUs may come between.
TimerInterrupt(c, t) ==
    /\ pc[c] = "thread" /\ t \in k.armed
    /\ Section(c, [k EXCEPT !.armed = @ \ {t}], "timeout")
    /\ expired' = [expired EXCEPT ![c] = t]
    /\ UNCHANGED doing

z_thread_timeout(c) ==
    /\ pc[c] = "timeout"
    /\ Section(c, ThreadTimeout(k, c, expired[c]), "isr")
    /\ expired' = [expired EXCEPT ![c] = NULL]
    /\ UNCHANGED doing

\* z_time_slice at the end of a slice, for every sliceable thread.
z_time_slice(c, t) ==
    /\ Runs(c, t)
    /\ Preemptible(k, t) /\ ~Prevented(k, t)
    /\ Section(c, update_cache(queue_thread(unready_thread(k, c, t), c, t), c, TRUE), "isr")
    /\ UNCHANGED <<doing, expired>>

z_sched_ipi(c) ==
    /\ pc[c] = "thread" /\ k.ipi[c]
    /\ Section(c, [k EXCEPT !.ipi[c] = FALSE], "isr")
    /\ UNCHANGED <<doing, expired>>

z_get_next_switch_handle(c) ==
    /\ pc[c] = "isr"
    /\ Section(c, Swapped(k, c), "signal")
    /\ UNCHANGED <<doing, expired>>

\* It signals after it has let the lock go, and may take away a flag that another
\* CPU has set for it in between.
SignalAfter(c) ==
    /\ pc[c] = "signal"
    /\ k' = signal_pending_ipi(k, c)
    /\ pc' = [pc EXCEPT ![c] = "thread"]
    /\ blind' = IF k.pending_ipi /\ \E t \in Range(k.runq) : Preempts(t, c)
                THEN blind \union {c} ELSE blind
    /\ UNCHANGED <<app, doing, expired>>

z_reschedule_unlocked(c) ==
    /\ pc[c] = "resched"
    /\ Section(c, z_reschedule(k, c), "thread")
    /\ UNCHANGED <<doing, expired>>

-----------------------------------------------------------------------------
\* The orders in which the run queue may hold the threads that are started: by
\* priority and, among equals, in any order.
StartOrders ==
    LET started == Threads \ Unstarted
    IN  {q \in [1..Cardinality(started) -> started] :
            /\ IsInjective(q) /\ Range(q) = started
            /\ \A i, j \in DOMAIN q : i < j => StartPrio[q[i]] <= StartPrio[q[j]]}

\* Some threads are started; the CPUs that are started (z_smp_start_cpu) are about
\* to look for the first.
Init ==
    /\ \E q \in StartOrders :
          k = [runq         |-> q,
               state        |-> [t \in Threads |->
                                   IF t \in Unstarted THEN {"prestart"} ELSE {"queued"}],
               prio         |-> StartPrio,
               cur          |-> [c \in CPUs |-> NULL],
               swap_ok      |-> [c \in CPUs |-> FALSE],
               pended_on    |-> [t \in Threads |-> NULL],
               join_queue   |-> [t \in Threads |-> <<>>],
               sched_locked |-> {},
               armed        |-> {},
               pending_ipi  |-> Unstarted # Threads,
               ipi          |-> [c \in CPUs |-> FALSE]]
    /\ app \in Apps
    /\ pc = [c \in CPUs |-> IF c \in app.cpus THEN "isr" ELSE "off"]
    /\ doing = [t \in Threads |-> Idle]
    /\ expired = [c \in CPUs |-> NULL]
    /\ blind = {}

Call(c, t) ==
    \/ k_yield(c, t) \/ k_sleep(c, t)
    \/ k_sched_lock(c, t) \/ k_sched_unlock(c, t)
    \/ k_thread_suspend(c, t)
    \/ WakeAbort(c, t) \/ WakeTest(c, t) \/ WakeLoad(c, t) \/ WakeStore(c, t) \/ k_wakeup(c, t)
    \/ \E u \in Threads :
          \/ z_sched_start(c, t, u) \/ WakeLook(c, t, u)
          \/ SuspendAbort(c, t, u) \/ k_thread_resume(c, t, u)
          \/ k_thread_join(c, t, u, TRUE) \/ k_thread_join(c, t, u, FALSE)
          \/ AbortHere(c, t, u) \/ AbortElsewhere(c, t, u)
          \/ \E p \in NewPrios[u] : k_thread_priority_set(c, t, u, p)

\* What the hardware and the kernel go on with by themselves.
Proceed(c) ==
    z_sched_ipi(c) \/ z_thread_timeout(c) \/ z_get_next_switch_handle(c)
        \/ SignalAfter(c) \/ z_reschedule_unlocked(c)

Next ==
    \E c \in CPUs :
        \/ Proceed(c)
        \/ \E t \in Threads : Call(c, t) \/ TimerInterrupt(c, t) \/ z_time_slice(c, t)

Spec == Init /\ [][Next]_vars

-----------------------------------------------------------------------------
(* Applications. *)

Calls(a, op, t, u) == <<op, t, u>> \in a.calls

OneCpu(a) == \E c \in CPUs : a.cpus = {c}

\* Whoever is woken by k_wakeup() has one waker; others do not suspend, resume or
\* abort it, and it does not wait with a timeout.
WakesInTurn(a) ==
    \A t, u \in Threads : Calls(a, "wakeup", t, u) =>
        /\ t # u /\ ~Calls(a, "sleep", u, u)
        /\ \A v \in Threads :
              /\ ~Calls(a, "timed_join", u, v)
              /\ v # t => ~Calls(a, "wakeup", v, u)
              /\ v # u => \A op \in {"suspend", "resume", "abort"} : ~Calls(a, op, v, u)

\* Nobody aborts a thread that wakes or suspends others.
FinishesCalls(a) ==
    \A t, u, v \in Threads :
        t # u /\ v # t /\ (Calls(a, "wakeup", t, u) \/ Calls(a, "suspend", t, u))
            => ~Calls(a, "abort", v, t)

\* With several CPUs no join has a timeout, and threads suspend and change only
\* themselves.
KeepsToItself(a) ==
    \A t, u \in Threads :
        /\ ~Calls(a, "timed_join", t, u) /\ ~Calls(a, "resume", t, u)
        /\ t # u => ~Calls(a, "suspend", t, u) /\ ~Calls(a, "prio", t, u)

\* The applications that the code is safe for.
Disciplined(a) == WakesInTurn(a) /\ FinishesCalls(a) /\ (OneCpu(a) \/ KeepsToItself(a))

-----------------------------------------------------------------------------
(* Properties. *)

\* A thread is current on one CPU at most, and in the run queue once and only
\* while it is current nowhere, in the order of priorities.  Otherwise a CPU in
\* wait_for_switch() holds the lock that the other one needs to switch away.
RunQueueSane ==
    /\ IsInjective(k.runq)
    /\ \A c, d \in CPUs : c # d /\ k.cur[c] # NULL => k.cur[c] # k.cur[d]
    /\ \A c \in CPUs : k.cur[c] \notin Range(k.runq)
    /\ \A i \in 1..Len(k.runq) : \A j \in 1..i : ~Before(k, k.runq[i], k.runq[j])

\* A thread that may run is in the run queue, running, the one whose timeout a CPU
\* is handling, or the one that a living thread in k_wakeup() or k_thread_suspend()
\* is about to queue or to suspend: no call, timeout or preemption loses it.
NoReadyThreadLost ==
    \A t \in Threads :
        z_is_thread_ready(k, t) =>
            \/ t \in Range(k.runq)
            \/ \E c \in CPUs : k.cur[c] = t
            \/ \E c \in CPUs : expired[c] = t
            \/ \E w \in Threads : /\ doing[w].op \in {"ready", "suspend"} /\ doing[w].on = t
                                  /\ "dead" \notin k.state[w]

\* CPU c is running, with no reason to look for another thread.
Settled(c) == pc[c] = "thread" /\ ~k.ipi[c]

\* A thread that is more urgent than what a CPU is running is there only while
\* that CPU is about to look, or an interrupt to the CPUs is pending.  Left out is
\* a CPU that has just ended an aborted thread, and may not have looked, and one
\* that has taken the flag away itself, in SignalAfter.
NoPreemptionMissed ==
    \A c \in CPUs \ blind : \A t \in Range(k.runq) :
        Settled(c) /\ Preempts(t, c) => k.pending_ipi

\* A thread aborted while it runs on another CPU is still running there, and the
\* CPU is interrupted or in the kernel already, where it ends the thread: whoever
\* waits in k_thread_abort() is released.  Once dead it never runs again and is in
\* no queue, and nobody is left joining it.
AbortCompletes ==
    \A t \in Threads :
        /\ "aborting" \in k.state[t] => \E c \in CPUs : k.cur[c] = t /\ ~Settled(c)
        /\ "dead" \in k.state[t] =>
            /\ \A c \in CPUs : k.cur[c] # t
            /\ t \notin Range(k.runq) /\ t \notin k.armed
            /\ \A u \in Threads : t \notin Range(k.join_queue[u])
            /\ k.join_queue[t] = <<>>
=============================================================================
