-------------------------------- MODULE Sem --------------------------------
(***************************************************************************)
(* A semaphore, kernel/sem.c, down to the wait queue, the thread timeout   *)
(* and the context switch it is built on (kernel/sched.c,                  *)
(* kernel/include/kswap.h).                                                *)
(*                                                                         *)
(* The semaphore code runs under its own spinlock, but the scheduler state *)
(* it changes is protected by sched_spinlock, which is taken and released  *)
(* several times within one call, and a timeout callback needs only that   *)
(* one.  One step is one section of sched_spinlock.  With one CPU a held   *)
(* spinlock means masked interrupts, so nothing comes between the steps.   *)
(*                                                                         *)
(* Any runnable thread may run, on SMP on a CPU of its own: priorities     *)
(* order the wait queue only.  A caller of k_sem_give() or of k_sem_take() *)
(* with K_NO_WAIT may also be an interrupt handler.  Poll events are left  *)
(* out.                                                                    *)
(***************************************************************************)
EXTENDS Integers, Sequences, SequencesExt, FiniteSets

CONSTANTS Threads,
          Prio,         \* thread priorities, a lower number is more urgent
          Limit,        \* sem->limit
          InitialCount,
          CONFIG_SMP,
          CPUs,         \* bound: callbacks of one timeout that can be under way
          NULL

ASSUME SemAssumption ==
    /\ Prio \in [Threads -> Int]
    /\ Limit \in Nat \ {0} /\ InitialCount \in 0..Limit
    /\ CONFIG_SMP \in BOOLEAN
    /\ CPUs \in Nat \ {0} /\ (~CONFIG_SMP => CPUs = 1)
    /\ NULL \notin Threads

VARIABLES
    count,    \* sem->count
    wait_q,   \* sem->wait_q; a thread in it has pended_on set and is _THREAD_PENDING
    lock,     \* the thread that holds the spinlock of sem.c
    pc,       \* where each thread is, see Places
    op,       \* the call it is in: its timeout, or "give", "reset"
    serving,  \* the thread that a give or reset has unpended
    armed,    \* threads whose timeout is in the timeout queue
    firing,   \* z_thread_timeout() called and not yet in sched_spinlock
    queued,   \* _THREAD_QUEUED
    retval,   \* swap_retval
    spinning, \* the thread a CPU waits for in wait_for_switch() for ever
    wokenBy   \* history: what ended the wait

vars == <<count, wait_q, lock, pc, op, serving, armed, firing, queued, retval,
          spinning, wokenBy>>

\* "ready": outside of the calls; "pend": in the wait queue, timeout not yet
\* added; "swap": in do_swap() with the lock held; "switch": in do_swap(), lock
\* released; "off": switched out; "unpend", "retval", "wake": in a give or reset.
Places == {"ready", "pend", "swap", "switch", "off", "unpend", "retval", "wake"}

Pended(t) == t \in Range(wait_q)

\* z_is_thread_ready
IsReady(t) == ~Pended(t) /\ t \notin armed

\* thread_active_elsewhere: a CPU has it as its current thread.
Active(t) == pc[t] # "off"

\* A thread can execute: on one CPU nobody runs beside the holder of a spinlock
\* or a timeout callback.
Runs(t) == CONFIG_SMP \/ (lock \in {NULL, t} /\ \A u \in Threads : firing[u] = 0)

\* It can also take sched_spinlock, which a CPU in wait_for_switch() holds.
RunsSched(t) == Runs(t) /\ spinning = NULL

-----------------------------------------------------------------------------
(* k_sem_take.  With K_NO_WAIT and no token it changes nothing. *)

\* Variant: new waiters at the end whatever their priority.
InsertByPrio_fifo(s, t) == Append(s, t)

\* z_priq_dumb_add: behind the threads of the same or a better priority.
InsertByPrio(s, t) ==
    LET worse == {i \in 1..Len(s) : Prio[t] < Prio[s[i]]}
        i     == IF worse = {} THEN Len(s) + 1
                 ELSE CHOOSE j \in worse : \A k \in worse : j <= k
    IN  InsertAt(s, i, t)

TakeNow(t) ==
    /\ pc[t] = "ready" /\ lock = NULL /\ Runs(t)
    /\ count > 0
    /\ count' = count - 1
    /\ UNCHANGED <<wait_q, lock, pc, op, serving, armed, firing, queued, retval,
                   spinning, wokenBy>>

\* Variant: the count is not looked at again when the lock is taken.
TakePend_unchecked(t, timeout) ==
    /\ pc[t] = "ready" /\ lock = NULL /\ RunsSched(t)
    /\ lock' = t
    /\ wait_q' = InsertByPrio(wait_q, t)
    /\ queued' = queued \ {t}
    /\ op' = [op EXCEPT ![t] = timeout]
    /\ pc' = [pc EXCEPT ![t] = IF timeout = "forever" THEN "swap" ELSE "pend"]
    /\ UNCHANGED <<count, serving, armed, firing, retval, spinning, wokenBy>>

\* pend(), the part under sched_spinlock.
TakePend(t, timeout) ==
    /\ pc[t] = "ready" /\ lock = NULL /\ RunsSched(t)
    /\ count = 0
    /\ lock' = t
    /\ wait_q' = InsertByPrio(wait_q, t)
    /\ queued' = queued \ {t}
    /\ op' = [op EXCEPT ![t] = timeout]
    /\ pc' = [pc EXCEPT ![t] = IF timeout = "forever" THEN "swap" ELSE "pend"]
    /\ UNCHANGED <<count, serving, armed, firing, retval, spinning, wokenBy>>

\* Variant: the timeout is not added.
add_thread_timeout_none(t) ==
    /\ pc[t] = "pend" /\ Runs(t)
    /\ pc' = [pc EXCEPT ![t] = "swap"]
    /\ UNCHANGED <<count, wait_q, lock, op, serving, armed, firing, queued, retval,
                   spinning, wokenBy>>

add_thread_timeout(t) ==
    /\ pc[t] = "pend" /\ Runs(t)
    /\ armed' = armed \union {t}
    /\ pc' = [pc EXCEPT ![t] = "swap"]
    /\ UNCHANGED <<count, wait_q, lock, op, serving, firing, queued, retval,
                   spinning, wokenBy>>

\* Variant: the return value of an earlier wait is left in place.
do_swap_stale_retval(t) ==
    /\ pc[t] = "swap" /\ Runs(t)
    /\ lock' = NULL
    /\ pc' = [pc EXCEPT ![t] = IF CONFIG_SMP THEN "switch" ELSE "off"]
    /\ UNCHANGED <<count, wait_q, op, serving, armed, firing, queued, retval,
                   spinning, wokenBy>>

\* do_swap: preset the return value and release the spinlock.
do_swap(t) ==
    /\ pc[t] = "swap" /\ Runs(t)
    /\ retval' = [retval EXCEPT ![t] = "-EAGAIN"]
    /\ lock' = NULL
    /\ pc' = [pc EXCEPT ![t] = IF CONFIG_SMP THEN "switch" ELSE "off"]
    /\ UNCHANGED <<count, wait_q, op, serving, armed, firing, queued,
                   spinning, wokenBy>>

\* Variant: a thread that was made ready while it was still current is dropped.
SwitchOut_dropped(t) ==
    /\ pc[t] = "switch" /\ RunsSched(t)
    /\ pc' = [pc EXCEPT ![t] = "off"]
    /\ UNCHANGED <<count, wait_q, lock, op, serving, armed, firing, queued, retval,
                   spinning, wokenBy>>

\* next_up on SMP: another thread is chosen; the current one goes into the run
\* queue unless it is pending.
SwitchOut(t) ==
    /\ pc[t] = "switch" /\ RunsSched(t)
    /\ queued' = IF Pended(t) THEN queued ELSE queued \union {t}
    /\ pc' = [pc EXCEPT ![t] = "off"]
    /\ UNCHANGED <<count, wait_q, lock, op, serving, armed, firing, retval,
                   spinning, wokenBy>>

\* The thread is chosen: from the run queue, or still being the current one.
TakeReturn(t) ==
    /\ \/ pc[t] = "off" /\ t \in queued
       \/ pc[t] = "switch" /\ ~Pended(t)
    /\ RunsSched(t)
    /\ queued' = queued \ {t}
    /\ pc' = [pc EXCEPT ![t] = "ready"]
    /\ op' = [op EXCEPT ![t] = "none"]
    /\ wokenBy' = [wokenBy EXCEPT ![t] = "none"]
    /\ UNCHANGED <<count, wait_q, lock, serving, armed, firing, retval, spinning>>

\* next_up() on another CPU picks a thread that is still running on its own CPU:
\* wait_for_switch() spins for its switch_handle with sched_spinlock held, and
\* the thread cannot be switched out without sched_spinlock.
wait_for_switch(t) ==
    /\ CONFIG_SMP /\ spinning = NULL
    /\ t \in queued /\ Active(t)
    /\ spinning' = t
    /\ queued' = queued \ {t}
    /\ UNCHANGED <<count, wait_q, lock, pc, op, serving, armed, firing, retval,
                   wokenBy>>

-----------------------------------------------------------------------------
(* k_sem_give and k_sem_reset. *)

GiveOrReset(g, what) ==
    /\ pc[g] = "ready" /\ lock = NULL /\ Runs(g)
    /\ lock' = g
    /\ op' = [op EXCEPT ![g] = what]
    /\ pc' = [pc EXCEPT ![g] = "unpend"]
    /\ UNCHANGED <<count, wait_q, serving, armed, firing, queued, retval,
                   spinning, wokenBy>>

k_sem_give(g) == GiveOrReset(g, "give")

k_sem_reset(g) == GiveOrReset(g, "reset")

\* Variant: the count has no limit.
CountToken_unlimited(g) ==
    /\ pc[g] = "unpend" /\ RunsSched(g)
    /\ wait_q = <<>>
    /\ count' = IF op[g] = "reset" THEN 0 ELSE count + 1
    /\ lock' = NULL
    /\ pc' = [pc EXCEPT ![g] = "ready"]
    /\ op' = [op EXCEPT ![g] = "none"]
    /\ UNCHANGED <<wait_q, serving, armed, firing, queued, retval, spinning,
                   wokenBy>>

\* z_unpend_first_thread finds nobody: the count changes.
CountToken(g) ==
    /\ pc[g] = "unpend" /\ RunsSched(g)
    /\ wait_q = <<>>
    /\ count' = IF op[g] = "reset" THEN 0
                ELSE IF count # Limit THEN count + 1 ELSE count
    /\ lock' = NULL
    /\ pc' = [pc EXCEPT ![g] = "ready"]
    /\ op' = [op EXCEPT ![g] = "none"]
    /\ UNCHANGED <<wait_q, serving, armed, firing, queued, retval, spinning,
                   wokenBy>>

\* z_unpend_first_thread: unpend the best waiter and abort its timeout.
z_unpend_first_thread(g) ==
    /\ pc[g] = "unpend" /\ RunsSched(g)
    /\ wait_q # <<>>
    /\ LET t == Head(wait_q)
       IN  /\ serving' = [serving EXCEPT ![g] = t]
           /\ armed' = armed \ {t}
           /\ wokenBy' = [wokenBy EXCEPT ![t] = IF op[g] = "give" THEN "token" ELSE "reset"]
    /\ wait_q' = Tail(wait_q)
    /\ pc' = [pc EXCEPT ![g] = "retval"]
    /\ UNCHANGED <<count, lock, op, firing, queued, retval, spinning>>

arch_thread_return_value_set(g) ==
    /\ pc[g] = "retval" /\ Runs(g)
    /\ retval' = [retval EXCEPT ![serving[g]] = IF op[g] = "give" THEN "0" ELSE "-EAGAIN"]
    /\ pc' = [pc EXCEPT ![g] = "wake"]
    /\ UNCHANGED <<count, wait_q, lock, op, serving, armed, firing, queued,
                   spinning, wokenBy>>

\* z_ready_thread; a give is finished, a reset goes on to the next waiter.
z_ready_thread(g) ==
    /\ pc[g] = "wake" /\ RunsSched(g)
    /\ LET t == serving[g]
       IN  queued' = IF ~Active(t) /\ IsReady(t) THEN queued \union {t} ELSE queued
    /\ serving' = [serving EXCEPT ![g] = NULL]
    /\ lock' = IF op[g] = "give" THEN NULL ELSE lock
    /\ pc' = [pc EXCEPT ![g] = IF op[g] = "give" THEN "ready" ELSE "unpend"]
    /\ op' = [op EXCEPT ![g] = IF op[g] = "give" THEN "none" ELSE "reset"]
    /\ UNCHANGED <<count, wait_q, armed, firing, retval, spinning, wokenBy>>

-----------------------------------------------------------------------------
(* The timeout. *)

\* sys_clock_announce takes it out of the timeout queue and calls the handler.
Expire(t) ==
    /\ t \in armed /\ firing[t] < CPUs
    /\ CONFIG_SMP \/ (lock = NULL /\ \A u \in Threads : firing[u] = 0)
    /\ armed' = armed \ {t}
    /\ firing' = [firing EXCEPT ![t] = @ + 1]
    /\ UNCHANGED <<count, wait_q, lock, pc, op, serving, queued, retval,
                   spinning, wokenBy>>

Without(s, t) == RemoveAt(s, CHOOSE i \in 1..Len(s) : s[i] = t)

z_thread_timeout(t) ==
    /\ firing[t] > 0 /\ spinning = NULL
    /\ firing' = [firing EXCEPT ![t] = @ - 1]
    /\ wait_q' = IF Pended(t) THEN Without(wait_q, t) ELSE wait_q
    /\ wokenBy' = IF Pended(t) THEN [wokenBy EXCEPT ![t] = "timeout"] ELSE wokenBy
    /\ queued' = IF t \in armed THEN queued ELSE queued \union {t}
    /\ UNCHANGED <<count, lock, pc, op, serving, armed, retval, spinning>>

-----------------------------------------------------------------------------
Init ==
    /\ count = InitialCount
    /\ wait_q = <<>>
    /\ lock = NULL
    /\ pc = [t \in Threads |-> "ready"]
    /\ op = [t \in Threads |-> "none"]
    /\ serving = [t \in Threads |-> NULL]
    /\ armed = {}
    /\ firing = [t \in Threads |-> 0]
    /\ queued = {}
    /\ retval = [t \in Threads |-> "0"]
    /\ spinning = NULL
    /\ wokenBy = [t \in Threads |-> "none"]

\* The steps of thread t once it is in a call.
Proceed(t) ==
    \/ add_thread_timeout(t) \/ do_swap(t) \/ SwitchOut(t) \/ TakeReturn(t)
    \/ CountToken(t) \/ z_unpend_first_thread(t)
    \/ arch_thread_return_value_set(t) \/ z_ready_thread(t)

Timer(t) == Expire(t) \/ z_thread_timeout(t)

Call(t) ==
    \/ TakeNow(t) \/ TakePend(t, "forever") \/ TakePend(t, "timed")
    \/ k_sem_give(t) \/ k_sem_reset(t)

Next == \E t \in Threads : Call(t) \/ Proceed(t) \/ Timer(t) \/ wait_for_switch(t)

Spec == Init /\ [][Next]_vars

\* A runnable thread runs again and again, a timeout expires and its handler
\* gets the lock.  The others can keep interrupts masked or the lock taken now
\* and then, so the fairness is strong.
FairSpec == Spec /\ \A t \in Threads : SF_vars(Proceed(t)) /\ SF_vars(Timer(t))

-----------------------------------------------------------------------------
(* Properties. *)

\* The variables have their types.
TypeOK ==
    /\ count \in 0..Limit
    /\ wait_q \in Seq(Threads)
    /\ lock \in Threads \union {NULL}
    /\ pc \in [Threads -> Places]
    /\ op \in [Threads -> {"none", "forever", "timed", "give", "reset"}]
    /\ serving \in [Threads -> Threads \union {NULL}]
    /\ armed \subseteq Threads
    /\ firing \in [Threads -> 0..CPUs]
    /\ queued \subseteq Threads
    /\ retval \in [Threads -> {"0", "-EAGAIN"}]
    /\ spinning \in Threads \union {NULL}
    /\ wokenBy \in [Threads -> {"none", "token", "reset", "timeout"}]

\* Nobody waits while there is a token: k_sem_give() hands the token to a
\* waiter instead of counting it.
NoWaitWithToken == wait_q # <<>> => count = 0

Ahead(s, a, b) == \E i, j \in 1..Len(s) : i < j /\ s[i] = a /\ s[j] = b

\* Of two waiters the more urgent one, and of equals the one that came first, is
\* ahead after the step.
NobodyOvertakes ==
    \A a, b \in Range(wait_q') :
        LET aFirst == Pended(a) /\ a # b /\ (Pended(b) => Ahead(wait_q, a, b))
        IN  (Prio[a] < Prio[b] \/ (Prio[a] = Prio[b] /\ aFirst)) => Ahead(wait_q', a, b)

\* The next token goes to the most urgent waiter and, of those, to the one that
\* has waited longest: nobody overtakes in the wait queue.
FirstComeFirstServed == [][NobodyOvertakes]_vars

\* A thread that is switched out is in the wait queue or will be run: it is in
\* the run queue, somebody is about to put it there, or its timeout is to come.
NobodyForgotten ==
    \A t \in Threads : pc[t] = "off" =>
        \/ Pended(t) \/ t \in queued \/ t \in armed \/ firing[t] > 0
        \/ \E g \in Threads : serving[g] = t

\* If the step ends a wait in k_sem_take(), the result tells what ended it.
ResultTold ==
    \A t \in Threads : op[t] \in {"forever", "timed"} /\ pc'[t] = "ready" =>
        /\ retval[t] = "0" <=> wokenBy[t] = "token"
        /\ retval[t] = "-EAGAIN" =>
               wokenBy[t] = "reset" \/ (wokenBy[t] = "timeout" /\ op[t] = "timed")

\* k_sem_take() returns 0 exactly if the caller was given a token, and -EAGAIN
\* only after a reset or after the waiting period asked for.
ResultMatchesWakeup == [][ResultTold]_vars

\* A take with a timeout returns.
TimedTakeReturns ==
    \A t \in Threads : pc[t] # "ready" /\ op[t] = "timed" ~> pc[t] = "ready"
=============================================================================
