# The Zephyr kernel in TLA+

The repository holds four real-time kernels side by side: Zephyr (`src/zephyr`, 3.0.99),
FreeRTOS (`src/freeRTOS`, two copies), RT-Thread (`src/rt-thread`) and uC/OS-III (`src/ucos3`).
This project is about the kernel proper of Zephyr, `src/zephyr/kernel`: the one of the four that
runs one shared kernel on several CPUs, and so the one whose behaviour a test samples least.
The other kernels are independent programs and are not modelled.

## 1. Inventory

| Part | State | Operations | Interacts with | Hard because | Must hold |
|---|---|---|---|---|---|
| Timeout queue, `timeout.c`, and its driver, here `arm_arch_timer.c` | a list of timeouts, each holding its distance to the one before; `curr_tick`, `announce_remaining`; the driver's `last_cycle` and each CPU's compare register | `z_add_timeout`, `z_abort_timeout`, `sys_clock_announce`, `sys_clock_set_timeout` | calls the callbacks of threads, timers, delayable work; the driver calls it | lock dropped around callbacks, which may add and abort; ticks taken by the driver and not yet announced; several CPUs announce | ticks conserved; no timeout early, late, moved by another's removal, or forgotten |
| Work queues, `work.c` | flags and queue of each item, pending list and flags of each queue, cancel and drain waiters | submit, flush, cancel, cancel_sync, schedule, reschedule, drain, unplug, the queue thread, `work_timeout` | timeout queue, semaphores, scheduler | handlers run unlocked while everything else is allowed | not re-entered, queued once, waiters released neither early nor never |
| Semaphores, `sem.c` | count, limit, wait queue | take, give, reset | wait queues and thread timeouts of `sched.c`, `do_swap` | one call is several critical sections; timeout callbacks come late; a thread can be woken before it is switched out | nobody waits beside a token; result matches cause; most urgent first |
| Mutexes, `mutex.c` | owner, lock count, owner's original priority, wait queue, threads' priorities | lock, unlock | as above, and `z_set_prio` | priority inheritance across time-outs, hand-overs and nesting | one owner; owner as urgent as its waiters; priority given back |
| Scheduler, `sched.c`, `kswap.h`, `smp.c`, `idle.c` | run queue, thread states, time slices, `switch_handle`, pending IPIs | pend, unpend, ready, swap, yield, suspend, resume, abort, join, time slice | everything | locks handed over across the switch; a thread current on one CPU and woken by another | one CPU per thread; no runnable thread lost; no preemption forgotten; an abort completes |
| Timers, `timer.c` | period, status, wait queue | start, stop, status_sync, expiry | timeout queue | expiry function runs unlocked and may restart the timer; start and stop take no lock | expires on time, period after period; who waits for it is released and told the truth |
| Condition variables, `condvar.c` | wait queue | wait, signal, broadcast | mutexes | unlock and wait must be one step | no lost signal |
| Events, `events.c`; message queues, `msg_q.c`; queues, `queue.c`; stacks, `stack.c`; pipes, `pipes.c`; mailboxes, `mailbox.c` | buffers and lists plus wait queues | put, get, wait, peek, purge | scheduler, polling | direct hand-over to a waiter against a timeout of that waiter | nothing lost, duplicated or reordered; no waiter beside data |
| Polling, `poll.c` | event lists of the objects, each thread's poller | poll, signal, triggered work | semaphores, queues, work queues | registration step by step, undone on a hit or a timeout | no missed event |
| Memory slabs, heaps, pools, `mem_slab.c`, `kheap.c`, `mempool.c` | free lists, wait queues | alloc, free | scheduler | block handed to a waiter | no block twice, none lost |
| Futexes, `futex.c` | a word in user memory, wait queue | wait, wake | scheduler | compare and wait | no lost wake-up |
| Threads, user mode, memory domains, MMU, start-up, fatal errors, usage, atomics | | | | | |

The hazards of these parts, each at its line, are in `PROJECT.json` together with the properties
that would notice them going wrong.

## 2. Plan

Written, in this order:

1. `TimeoutQ`, with the abstract service `TimeoutSpec` that it implements.
2. `WorkQ`.
3. `Sem`, down to the critical sections of the scheduler; `SemProof`.
4. `Mutex`; `MutexProof`. `SeqLemmas` holds the facts about sequences that the proofs share.
5. `Sched`: the run queue and the states of threads on several CPUs.
6. `Condvar`, composed with `Mutex`.
7. `KTimer`, composed with `TimeoutQ`.
8. `WaitQ`, what the remaining objects use of the scheduler, and on it `MsgQ`, `KQueue`, `KStack`,
   `MemSlab`, `KEvent`, `KHeap`, `Mailbox`, `Pipe`, `Futex` and `Poll`, each with its reference
   definition of contents, put side by side in `Objects`.
9. The theorems about `TimeoutQ`, `KTimer`, `WorkQ`, `Sched`, `Sem`, `Mutex` with `Condvar`, and `Objects` with
   all its kinds, in `TimeoutProof`, `KTimerProof`, `WorkQProof`, `SchedProof`, `SemProof`, `MutexProof` and
   `ObjectsProof`.

To come:

10. `k_work_poll`, with `Poll` and `WorkQ`; `k_queue_unique_append`; the objects on several CPUs,
    with the sections of `Sem`.

## 3. The modules

All modules take a critical section of the relevant spinlock as the step; what happens between two
sections may interleave with everything else. Definitions whose name has a suffix, announced as
*Variant*, are wrong forms of the definition they precede. No specification uses them; they are
there to see that the properties notice such a mistake.

**`TimeoutQ`** keeps `timeout_list`, `dticks`, `curr_tick` and `announce_remaining` as the code does,
and of the driver the real tick `hw`, `last_cycle` and the tick each CPU's compare interrupt is set
to. An interrupt is three kinds of step: the driver takes its ticks
(`arm_arch_timer_compare_isr`), `sys_clock_announce` enters its loop or leaves its ticks to the CPU
that is in it, and the callback returns (`CallbackReturn`). Between them the other CPU, and in a
callback the same CPU, add and abort. `due` and `latest` remember what the caller asked for.
The compare value is rounded by the driver, which depends on where in a tick the call comes, so
`CompareTicks` is a set. Time slicing is off, its default.

**`TimeoutSpec`** is what the queue promises: a clock and a set of absolute expiry ticks; time never
passes an armed tick, and no operation changes the tick of another timeout. `TimeoutQ` implements it
with `now <- curr_tick` and each expiry the sum of the distances up to it.

**`WorkQ`** has the flags of items and queues, the pending lists, the thread of each queue, and threads
that flush, cancel and drain. A handler may do what any context may, with itself as the caller
(`Caller`), which matters for a queue being drained. The flusher in a thread's `k_work_sync` is the
thread itself in a pending list. `owed` remembers which instances a waiting call has to see end. A
delayable item's timeout leaves the timeout queue in one step (`Expire`) and its callback takes the
lock in another (`work_timeout`); with one CPU nothing else comes between.

**`Sem`** spells out a call of `k_sem_take` and `k_sem_give` as the sections of `sched_spinlock` it
consists of: pending, adding the timeout, presetting the return value, switching; unpending,
setting the return value, readying. With one CPU nothing interleaves with a holder of the
semaphore's spinlock. `spinning` is a CPU in `wait_for_switch()` for a thread that is not being
switched out. Any runnable thread may run, so the results do not depend on the choice of the
scheduler. Poll events are left out.

**`Mutex`** has owner, count, saved priority and wait queue of each mutex, and the priority and the
state of each thread. A timeout takes the thread out of the wait queue; that the thread looks
at the mutex again is a later step, with anything in between, also on one CPU: the expiry makes it
runnable and it runs when it is its turn. `depth` remembers how often each thread was granted each
mutex. `Nested = FALSE` keeps threads from waiting for one mutex while they own another.
Calls that change nothing (`K_NO_WAIT` without success, errors) are no steps.

**`Condvar`** adds the wait queue of a condition variable and its users to `Mutex`. `k_condvar_wait` is two
sections, releasing the mutex and joining the wait queue, with the spinlock of `condvar.c` held over both
and everything that needs only the mutex's lock possible in between. The thread takes the mutex again with
the actions of `Mutex`, by time-out or signal alike. The users follow the documentation: the mutex guards
a number of items, a consumer waits in a loop, a producer signals or broadcasts with or without the mutex.

**`KTimer`** adds to `TimeoutQ` the fields of `k_timer`, one thread that synchronises and the calls that are
half done. The expiry handler is what `TimeoutQ` calls a callback, taken apart where `timer.c` drops its
lock: next period and status, the user's function (which may start or stop the timer itself), waking the
waiter. The next period counts from `k_uptime_ticks()`, which during an announcement is the announced tick and
the ticks that have passed since the interrupt. Any number of threads (`Starters`) start and stop the timers.
These calls take no lock: a start is three steps (abort, store, add) and a stop two, with anything in between.
A timer that another start, or the expiry handler on another CPU, has linked in between is added all the same:
`AddFails` is the assertion of `z_add_timeout()`, and the system stops. `asked`, `due` and
`latest` remember what the user wanted; `touched` that the timer was stopped or started while somebody
waited for it.

**`Sched`** holds in the record `k` what `sched_spinlock` protects: the run queue, the state, the priority
and the timeout of every thread, who is current on which CPU, `swap_ok`, join queues, pending IPIs. The
functions of `sched.c` that are called with the lock held are operators on that record, under their own
names (`ready_thread`, `update_cache`, `next_up`, `end_thread`, `z_reschedule` ...); an action is one section
of the lock, or one access to shared state that the code makes without it. `k_thread_suspend` aborts the timeout
of the thread first and then has its section; `k_wakeup` looks, aborts the timeout, tests, loads and stores the
state, all without the lock, before its section. `doing` is where each thread is in such a call. The IPI that is
signalled at the end of an interrupt is a step after the section (`SignalAfter`), and takes the flag whoever has set
it. Only `flag_ipi` of `k_wakeup` is counted to the section before it. The loop in `unpend_all` is a function of its
turns. At first the run queue holds the threads that were started, in any order that their priorities allow. `pc`
says whether a CPU is off, in a thread, in the handler of a timeout, leaving an interrupt, about to signal or about
to reschedule. A CPU in `wait_for_switch()` cannot show up in a state where `RunQueueSane` holds, so the wait itself
is not a step. The idle thread of a CPU is `NULL`.

The scheduler is not safe for every use that is made of it (see the limits), so the module says which: an
application, one of `Apps`, is the CPUs that are started and the calls that each thread makes on which others,
in any order. The model leaves no interleaving out for any of them. `Disciplined(a)` is what the proofs ask for:
a thread woken by `k_wakeup` has one waker, does not wait with a timeout and is not suspended, resumed or
aborted by others (`WakesInTurn`); nobody aborts a thread that may be half-way in suspending or waking another
(`FinishesCalls`); and either there is one CPU, or joins have no timeout and threads suspend and reprioritise
only themselves (`KeepsToItself`). Aborts of threads running elsewhere, timed sleeps, time slices and IPIs are
free on any number of CPUs.

**`WaitQ`** is what the objects of step 8 use of the scheduler, on one CPU: the state of every thread in a
call, one wait queue ordered by priority, pend, wake one, wake all, time out. A call is one section of the
object's lock up to `z_pend_curr`, and a second step from there to its return, with anything in between: a
thread woken by a time-out or with data may run much later. `obj` is the object itself and `held` the
reference the properties compare it with. The modules on top:

| Module | `obj` | `held` | Left out |
|---|---|---|---|
| `MsgQ` | ring, read and write index, `used_msgs` | the sequence of messages | peek |
| `KQueue` | the list | the set of items nobody has got | `k_queue_unique_append` |
| `KStack` | entries and `next` | the sequence of values | |
| `MemSlab` | free list, `num_used` | the blocks callers own | |
| `KEvent` | the bits set | what each waiting thread asked for | |
| `KHeap` | units free | chunks allocated | how `sys_heap` places chunks |
| `Mailbox` | senders' messages, waiting or being taken | what each receiver asked for | contents of the data |
| `Pipe` | ring, writers' wait queue | the sequence of bytes stored | a pipe without buffer |
| `Futex` | the value, and whether a wake-up is due | who went to wait for a value already gone | |
| `Poll` | which objects are ready, their lists of events | which pollers were told | triggered work |

Pipes copy with interrupts on and only the scheduler locked. Interrupt handlers may not use pipes, so
only a timeout can come in between, and the thread it readies runs after the copying: `Pipe` takes a call up
to its wait as one step. In `Poll`, each event's registration and removal is a step, as in the code.

`Objects` is the disjoint union of the ten, chosen by `kind`, so that one run and one statement of each
property covers them. `k_queue_append_list` takes one waiter more than it has items for (`AppendedAndTaken`): such a
thread is `"lost"`. `MCKTimer`, `MCSem`, `MCMutex`, `MCSched` and `MCObjects` give the priorities, the applications
and the symmetry for TLC.

## 4. The runs

| Run | Configuration | Shows |
|---|---|---|
| `timer_up` | 1 timer of period 0, 1 or 3, 1 other timeout, 2 threads that start and stop, 1 CPU, relative 0 and 2, absolute 3, 7 ticks | timers and timeouts expire neither early nor late, period after period; who synchronises is released and told the truth |
| `timeout_smp` | 2 timeouts, 2 CPUs, 7 ticks | ticks conserved; nothing late; some CPU always set to wake up; `TimeoutSpec` implemented; every armed timeout ends |
| `work_up` | a plain and a delayable item, 2 queues, 1 thread, 1 CPU | queued once, not re-entered, waits long enough, plugged queues quiet, cancelled items idle, the DELAYED flag and the timeout agree; flush, cancel_sync and drain return |
| `work_smp` | 1 delayable item, 2 queues, 2 threads, 2 CPUs | no waiter can be missed; no queue thread sleeps on work; no delayed item forgotten, late callbacks included |
| `sem_up` | 3 threads of 2 priorities, limit 2, 1 CPU | result matches cause; most urgent and longest waiting first; a timed take returns |
| `sem_smp` | 3 threads, limit 1, several CPUs | nobody waits beside a token; nobody is forgotten |
| `mutex_up` | 4 threads of 3 priorities, a mutex and a condition variable with 2 items | mutual exclusion and counts; inherited priorities exact; most urgent waiter next; no signal lost; a wait gives the mutex back as it was taken |
| `mutex_timeout` | 4 threads, 1 mutex | **violated**: a lock that timed out dereferences a NULL owner |
| `sched_smp` | a cooperative and two preemptible threads, one of them not started; applications for 1 CPU (`Crowded`, `Early`) and for 2 (`Apart`) | no running thread in the run queue, no thread on two CPUs; no ready thread lost; no preemption of another CPU forgotten; aborts complete |
| `sched_races` | the same threads, timed joins and aborts on 2 CPUs | **violated**: a late `z_thread_timeout()` puts a running thread into the run queue |
| `objects_up` | 3 threads of 2 priorities; each of the ten objects | contents kept; nobody is in a wait queue for what is there; results are true |
| `queue_list` | 3 threads, a queue | **violated**: a list appended with more waiters than items takes a thread out of the wait queue and never readies it |

The violated properties state what a comment, an assertion or the documentation says; each is
quoted in the findings of `PROJECT.json`.

Further limits, seen while modelling and kept out of the runs. Where the models show them, the constants or
the formula to check are named.

Timeouts and timers:
- On several CPUs callbacks run in parallel: a second CPU that announces while the first is in a callback
  with `announce_remaining` used up enters the loop as well (`timeout.c:266`), though the comment at
  `timeout.c:247` says this is prevented. In `TimeoutQ` with two CPUs, `pc` is `"callback"` for both.
- On several CPUs `NeverEarly` does not hold: a timeout added between the driver taking its ticks
  (`arm_arch_timer.c:48`) and their announcement is placed relative to a `curr_tick` that lacks them.
- A timer's period of 1 tick takes 2 (`timer.c:135`). The comment at `timer.c:38` promises a regular stride
  however late the handler runs. It counts from `k_uptime_ticks()` (`timer.c:49`), though, and so drifts by the ticks
  that pass between the interrupt and the handler; what the interrupt itself was late is made good. `OnTime` gives
  the stride that room: `latest` is one period after the handler ran.
- Two threads that start one timer can both abort before either adds, and the second adds a linked timeout, which
  the assertion at `timeout.c:99` catches, if built in (`timer.c:141`). `KTimer!NoDoubleAdd` is violated with
  the constants of `KTimer_up.cfg`; the documentation lets a running timer be started.
- `k_timer_stop` wakes one waiter, as `k_timer_status_sync` is for one. A timer started in its own expiry
  function has its status reset. On several CPUs a stop can find the timeout gone while its handler is about to
  start the next period (`timer.c:164`); nothing orders the two.

Scheduling:
- On several CPUs a thread that a give has unpended can return before the give has stored its result, with
  `-EAGAIN` for a token it was handed (`sem.c:96`): `ResultMatchesWakeup` fails with the constants of
  `Sem_smp.cfg`.
- `z_thread_timeout` on another CPU can put a thread into the run queue that is still running
  (`sched.c:810`). A CPU that picks it waits in `wait_for_switch()` with the lock held that the thread needs
  to be switched out (`kswap.h:134`). In `Sem` this is `spinning`; in `Sched` it is the run `sched_races`.
- `k_wakeup` of a thread that sleeps with a timeout is unsafe even on one CPU, when the waker can be preempted:
  it has aborted the timeout and is about to store a state it loaded before (`sched.c:1507`). With an application
  of one sleeper and one preemptible waker both `RunQueueSane` and `NoReadyThreadLost` are violated. A
  cooperative waker is safe on one CPU (`Early`, checked only).
- A thread resumed while it sleeps still has its timeout. If `k_thread_suspend` then aborts that timeout and the
  suspending thread is itself aborted before its section (`sched.c:667`), the sleeper may run and is nowhere:
  `NoReadyThreadLost` is violated without `FinishesCalls`.
- Suspending, resuming or changing the priority of a thread that runs on another CPU (`sched.c:663`, `sched.c:885`)
  changes its flags under it; that CPU is not told, and `RunQueueSane` is violated.
- At the end of an interrupt `signal_pending_ipi()` comes after the lock is released (`sched.c:1109`): a flag that
  another CPU has set in between for this one is taken away, and this CPU is the only one not interrupted. The
  more urgent thread waits for the next scheduling point. `NoPreemptionMissed` leaves out such a CPU (`blind`);
  without that it is violated on two CPUs.
- `k_thread_abort` of another thread readies its joiners without rescheduling (`sched.c:1754`): a more urgent
  joiner waits for the next scheduling point. `blind` also holds a CPU that has just ended an aborted thread
  in `next_up()`, which chose the next thread before the joiners were readied.
- `k_thread_suspend` cancels the timeout of a thread that waits with one (`sched.c:667`); resumed, the thread
  waits without it.

Objects:
- With `Nested = TRUE`, `HandedToMostUrgent` does not hold: a waiter that inherits a priority through another
  mutex keeps its place in the wait queue (`mutex.c:241`). With a priority ceiling below an owner's own urgency,
  that owner is lowered to the ceiling when one of two waiters gives up (`mutex.c:167`).
- A `work_timeout()` that comes late on another CPU takes the DELAYED flag of an item that was rescheduled meanwhile,
  and the next schedule adds a linked timeout (`work.c:802`; assertion at `timeout.c:99`). `WorkQ!NoDoubleAdd` is
  violated with the constants of `WorkQ_smp.cfg`.
- `k_heap_alloc` with `K_FOREVER` does not wait: the deadline is all ones (`kheap.c:67`), -1 as the signed
  number it is compared as (`kheap.c:82`), and the call returns `NULL` at once, against `kernel.h:5191`.
  `KHeap!ForeverWaits` is violated in two steps.
- The queue thread still touches the flusher after it has released the thread in `k_work_flush()`
  (`work.c:658`): in `WorkQ`, a state with `wpc[q] = "finish"` whose thread has already returned.
- `k_futex_wait` compares the value before it takes the lock (`futex.c:77`): a change and wake-up in between is
  missed. `FutexNobodyStranded` makes that exception (`t \in held`); without it, it fails.
- `k_pipe_buffer_flush` of a pipe without buffer returns with the lock taken (`pipes.c:118`).
- A poller whose timeout has expired, or that was told of another event, still takes an object's notification
  (`poll.c:251`), and the next poller stays asleep beside an object that is ready: the exception in
  `PollNobodyStranded`. Pollers are served by priority (`poll.c:104`), not first come first served.
- A poller whose event is cancelled while it still registers returns 0, with only a cancelled event
  (`poll.c:251`, `poll.c:298`); `kernel.h:5591` has `-EINTR` for it. `PollResults` states what the code does.
- On several CPUs the lists of poll events are changed under two different locks (`poll.c:226`, `poll.c:450`), and
  `k_queue_append_list` reads the link of an item it has already handed over (`queue.c:264`).

### Bounds

- `MaxHw = 7` real ticks and `Settle = 3`: durations of 0 and 2 ticks can be asked for
  at several times, expire in one announcement or in several, and overlap; in the last three ticks
  nothing new is due, so that the end of the explored time cuts no timeout off.
- `CPUs = 2` for timeouts is enough for one CPU in the announce loop and one outside. In `WorkQ` and
  `Sem`, `CPUs` bounds how many callbacks of one timeout are under way at a time; threads run on CPUs of
  their own.
- Two queues and two items are enough for an item submitted elsewhere while it runs and for chained
  submission; two threads for two waiters of the same or of different kinds, released by the queue threads.
- Two priorities for three threads, three for four, give equal and different neighbours in every wait
  queue. `MaxDepth = 2` is the first nested lock. `MaxItems = 2` lets two consumers be satisfied at once.
- Periods of 0, 1 and 3 are no period, the shortest, which is rounded, and one that meets the other timeout. Two
  starting threads and the expiry function are enough for a call to come between any two steps of another.
- Three threads on two CPUs leave one in the run queue, and on one CPU two, joined, asleep or suspended; one
  preemptible thread may become as urgent as the cooperative one, and less urgent than it again. `Crowded` and
  `Apart` hold nearly every call on every pair of threads that `Disciplined` allows with one of the threads
  woken by `k_wakeup` and one aborted by others; `MCAppsAreDisciplined` says so.
- Objects: two places in a ring and three items wrap and overfill it; three threads give two waiting readers
  or writers with one to serve them; a heap of 4 units and requests up to 3 makes one chunk satisfy several
  waiters or none; transfers of up to 2 bytes over a ring of 2 are partial on either side.

Symmetry (`timer_up`, `sem_smp`, `sched_smp`, `objects_up`) permutes only starting threads, CPUs, items, and
threads of the same priority, in runs without liveness properties.

### Deadlock

`CHECK_DEADLOCK FALSE` stands where the system really may stop: every user of a semaphore or mutex may wait for
ever, a NULL owner or a `wait_for_switch()` without end stops it, and a failed assertion stops `KTimer` and, on
several CPUs, `WorkQ`. In `timer_up` the explored time ends too; in `objects_up` all users may wait; in
`sched_smp` all threads may be dead or suspended.

### Fairness

- `TimeoutQ!FairSpec`: time passes, an unmasked interrupt is taken, a callback returns.
- `WorkQ!FairSpec`: a queue thread that can run does so again and again, and so does a thread that
  was released. Strong, because a timer interrupt may come between any two steps, though not for ever.
  Handlers return. Nothing is assumed of callers; `DrainReturns` excludes handlers that submit for ever
  to the queue being drained, which `k_work_queue_drain` allows.
- `Sem!FairSpec`: a runnable thread runs again and again, a timeout expires and its handler gets the
  lock. Strong, because the semaphore's lock may be taken by others now and then. The scheduler gives
  this to threads of equal priority with time slices, and to others as long as the more urgent ones
  block. Nothing is assumed of gives.

`timer_up`, `mutex_up`, `sched_smp` and `objects_up` check safety only. That nobody is stranded is stated
there as an invariant: whoever waits has somebody who will see it.

## 5. What is proved

With TLAPS, for every set of threads, mutexes, timeouts, timers, work items, queues and CPUs and every value of
the other constants that satisfies the named assumptions of the modules: `SemAssumption` (priorities are
integers, `0 <= InitialCount <= Limit`, `Limit > 0`, one CPU without `CONFIG_SMP`), `MutexAssumption` and
`CondvarAssumption` (likewise; finitely many threads, since the property counts them), `TimeoutQAssumption` (at
least one and finitely many CPUs, durations are naturals), `KTimerAssumption` (a timer has a timeout, periods
are naturals, the expiry function is no thread), `WorkQAssumption` (items, queues and threads are different
things), `SchedAssumption` (priorities are integers, finitely many threads, `NULL` is none of them, an
application's CPUs are CPUs), `WaitQAssumption` (likewise, and finitely many items, of which `NULL` is none
either), `MsgQAssumption`, `StackAssumption`, `PipeAssumption` (buffers and transfers are not empty),
`HeapAssumption` (a request fits in the heap), `MboxAssumption` (`NULL` is no asynchronous descriptor),
`PollAssumption` (pollers are threads). Further hypotheses of a theorem are in its row.

| Theorem | Statement |
|---|---|
| `SemProof!TypeCorrect` | `Spec => []TypeOK`; with it `count <= Limit` |
| `SemProof!TokenNeverIdle` | `Spec => []NoWaitWithToken` |
| `SemProof!NobodyOvertaken` | `Spec => FirstComeFirstServed` |
| `SemProof!NobodyIsForgotten` | `Spec => []NobodyForgotten` |
| `SemProof!ResultCorrectOnOneCPU` | `~CONFIG_SMP` gives `Spec => ResultMatchesWakeup` |
| `MutexProof!TypeCorrect`, `MutexSafe` | `Spec => []TypeOK`, `Spec => []MutualExclusion`, nested or not |
| `MutexProof!MostUrgentServed` | `~Nested` gives `Spec => HandedToMostUrgent` |
| `MutexProof!PriorityInherited` | `~Nested` and `CeilingAbove` give `Spec => []InheritedPriority` |
| `MutexProof!CvImplementsMutex` | `CvSpec => Spec` |
| `MutexProof!SignalNeverLost` | `CvSpec => []NoLostSignal` |
| `MutexProof!WaitReturnsLocked` | `CvSpec => WaitKeepsDepth` |
| `TimeoutProof!TimeoutTypes`, `TicksConserved`, `NoTimeoutLate`, `AlarmAlwaysArmed` | `Spec => []TypeOK`, `[]TickConservation`, `[]NeverLate`, `[]AlarmArmed` |
| `TimeoutProof!NoTimeoutEarly` | one CPU gives `Spec => []NeverEarly` |
| `TimeoutProof!Refinement` | `Spec => ImplementsTimeoutSpec` |
| `KTimerProof!TimerTypes`, `WaitersNotStranded` | `TimerSpec => []TypeOK`, `[]NoWaiterStranded` |
| `KTimerProof!TimersOnTime`, `SyncIsTruthful` | one CPU gives `TimerSpec => []OnTime`, `SyncTellsTruth` |
| `WorkQProof!WorkQTypes`, `ItemsQueuedOnce`, `HandlersNotReentered`, `NoWakeupLost`, `WaitersAreCovered`, `CallsWaitForInstances`, `PluggedStaysQuiet`, `DelayedStaysArmed` | `Spec => []TypeOK`, `[]QueuedOnce`, `[]NotReentered`, `[]NoLostWakeup`, `[]WaitersCovered`, `[]WaitsForInstances`, `[]PluggedIsQuiet`, `[]DelayedIsArmed` |
| `WorkQProof!CancelEndsIdle` | `Spec => CancelLeavesIdle` |
| `WorkQProof!DelayedIffArmedUP` | `CPUs = 1` gives `Spec => []DelayedIffArmed` |
| `SchedProof!RunQueueStaysSane`, `NoReadyThreadIsLost`, `NoPreemptionIsMissed`, `AbortsComplete` | `\A a \in Apps : Disciplined(a)` gives `Spec => []RunQueueSane`, `[]NoReadyThreadLost`, `[]NoPreemptionMissed`, `[]AbortCompletes` |
| `ObjectsProof!ObjectsContentsKept`, `ObjectsNobodyStranded`, `ObjectsResultsHold` | `Spec => []ContentsKept`, `[]NobodyStranded`, `[]ResultsHold`, for all ten kinds |

Every inductive invariant was an invariant of the corresponding run first.

**Semaphores.** Types are not inductive alone, because `z_ready_thread()` queues the thread that the give
unpended; `ServingKnown` says that there is one. `NoWaitWithToken` is inductive beside the types. The order
rests on `QueueInv`: the wait queue is ordered, nobody is in it twice, and nobody in it is in the run queue. That
nobody is forgotten needs, on one CPU, that a thread about to be switched out is still in the wait queue
(`UpInv`); on several CPUs that is false and the second look in `next_up()` takes its place. `ServingInv` says
that the loop of `k_sem_reset()` goes to the next thread only after it has woken the last. The result on one CPU
rests on `UpInv`: which call a thread is in by its place and the lock (`CallInv`); a switched-out waiter still
has the preset result (`PendedInv`); a timeout is armed or its handler under way only for a thread that waits with
one, so no handler is late (`TimerInv`); a thread in the run queue has its result (`WokenInv`). On several CPUs
`TimerInv` and `WokenInv` are false, and so is the property (see the limits).

**Mutexes.** `MutualExclusion` needs that a locked mutex has an owner (`OwnerInv`), and that a thread is in the wait
queue of the mutex it waits for and in no other, once (`WaitInv`): otherwise a hand-over could grant a
mutex to a thread that is not waiting for it. The order of the hand-over rests on `PrioInv`: an owner owns one
mutex, which holds the priority to restore, whoever owns none runs at its own priority, and so a wait queue once
ordered stays so. With nesting the last part is false and the property fails (see the limits). `InheritInv`
adds the owner's priority: at least as urgent as every waiter's, and exactly one of theirs or its own, except
between a time-out and the moment the thread that timed out recomputes it. `CeilingAbove` says
that the ceiling cuts no inheritance short; below it `InheritedPriority` is not what the code promises.

**Condition variables.** Every step of `Condvar` is a step of `Mutex` or leaves it alone, so each theorem about
`Mutex!Spec` holds of `CvSpec`. `NoLostSignal` speaks of threads in the wait queue; a signal that comes while
the thread is between its test and the wait queue would break it a step later, so `SignalInv` states the bound
from the entry to `k_condvar_wait()` on, when the spinlock of `condvar.c` is taken. `DepthInv` follows the depth
through the wait.

**Timeout queue.** The tick at which a timeout expires is `curr_tick` plus a sum of differences. The lemmas on
`Dist` say what an insertion, a removal and an announced stretch do to it: an insertion or removal changes
nobody else's, an announcement lowers all by what it adds to `curr_tick`. The sums are over finite sets,
defined by a choice; `SeqLemmas` proves that they do not depend on it. `Inv` adds to the checked
properties who may hold ticks (`Announcing`) and what keeps numbers in the explored time (`Bounded`).
`AlarmArmed` and `NeverLate` need each other: the interrupt is early enough for the first timeout and the first is the
least. On this the refinement is step by step: each operation is one of `TimeoutSpec` or a stutter. That
no timeout is early is proved for one CPU, and on several it is false (see the limits).

**Timers.** `TimersBase` ties the period in force to the one asked for and each expiry handler to a callback. The
actions of `TimeoutQ` that a timer performs preserve the queue's invariant, whoever calls them, so the queue
is not proved again. Truthfulness follows the thread that will be woken: an expiry or a stop that is about
to wake it has counted or was noticed since it came (`ExpiryCounts`, `StopTouches`). On several CPUs a stop
and an expiry of the same timer overlap and this is false.

**Work queues.** One invariant for all: flags, lists and queue threads agree (`FlagsInv`, `WorkerInv`), a flusher
is in use in one place (`FlusherInv`), and whatever a thread waits for is ahead of what will release it (`OwedInv`):
a flusher is behind its item in the same list, a canceller waits for its own item, a drain for items of its
queue. `WaitsForInstances` is not inductive without it, nor `NotReentered` without `QueuedOnce`. On one CPU a
callback under way has its timeout unlinked (`FiringInv`), and flag and timeout agree.

**Scheduler.** A section composes functions on the record `k`, so most of the proof is about those functions and
speaks of records, not of steps. `Sound(s, c)` holds while CPU `c` has the lock: the run queue is ordered and
holds exactly who is flagged, apart from current threads (`QueueOK`, `CurOK`); join queues and the `pending`
flags agree (`JoinOK`); a thread being aborted is current somewhere (`AbortOK`); and the threads on the other
CPUs neither wait nor are dead (`RunsOK`). One lemma for each function of `sched.c` says that it keeps `Sound`,
who may be missing from the run queue afterwards (`Placed`), and what dead threads have left behind (`DeadOK`,
with an exception while `end_thread` empties the join queue). `unpend_all` is an induction over the turns of its
loop. For preemption, `Calm(s, d)` says that CPU `d` has been interrupted, that an IPI is pending, or that
nobody in the run queue should preempt `d`'s thread; the case to argue is a switch, which puts a thread back
into the queue: it is not more urgent than the one that was chosen. `Leaves` collects what a section must
establish before it gives up the lock, and each action has one lemma that it does. Between sections `Inv` adds
that a current thread may run unless it is about to be switched out (`CurrentOK`), that nobody runs whose
timeout is being handled (`TimeoutOK`), that an abort is still on its way (`AbortSeen`) and that CPUs in a
thread are calm (`CalmOK`).

The discipline of the application comes in where the code leaves the lock. On several CPUs a thread with a
timeout, or whose timeout is being handled, is asleep or dead (`ArmedOK`, `TimeoutOK`), so that nothing else has
readied it when the handler gets the lock: this is what a timed join breaks. A thread half-way in `k_wakeup`
finds its target suspended from the load to the store (`CallsOK`), since nobody else resumes it and no timeout
ends the sleep (`UnwokenOK`); and it lives until it returns, since nobody aborts it (`DoomedOK`), so that the
thread which it has in hand, ready and in no queue, is queued or suspended in the end. `Harmless` says for each
section that it does nothing behind the back of such a call or timeout; `Continues` that a call which ends
leaves nobody behind. The unlocked steps and `SignalAfter` change one component of `k` each and have their own
lemmas. An abort between a taken timeout and its handler is an ordinary case: the handler finds the thread dead.

**Objects.** `kind` never changes, so `Inv` of `ObjectsProof` is one invariant for each kind, with three lemmas: it
holds at first, every operation keeps it, it implies what the object's module states. All of them contain `WaitOK`: in
a wait queue are exactly the threads that pend in a call that waits there, each once. Lemmas about pending, waking
one or all and timing out keep it, and say that nobody else's record changes. The rest is about the data:

- Message queues and pipes: the ring holds the reference sequence, place by place from the read index, and
  the write index follows from the read index and the number stored (`HoldsInOrder`, `PipeRing`). A put or get that
  crosses the end of the buffer is two copies; the lemmas on `Spots` and `GetSpots` say where each byte went. For
  message queues also that readers wait beside an empty and writers beside a full ring, so that a wait queue
  never holds both. A stack needs only its entries, and that who waits finds it empty.
- Queues and memory slabs: where an item or block is (not in which order) - in the list, on the way to a thread
  that was woken with it, or with its owner (`QueuePlaces`, `SlabPlaces`). Without the second place the
  hand-over is not inductive.
- Mailboxes: `Out` collects the places of messages (waiting, got, open for data) and `Known` says that no
  message is in two, that each synchronous one has its sender in the matching state, and that an asynchronous
  descriptor is out or in the pool. That nobody is stranded is a statement about every pair of sender and receiver.
- Events and heaps: a post must leave nobody who could go. The walk over the wait queue in `Unpended` is proved by
  induction over its places to keep exactly the others, in order.
- Pipes: the calls that `pipe_xfer_prepare` serves in full are a prefix of the wait queue; the bytes moved
  directly and those stored are together the lesser of what is offered and what is wanted or fits. So after a
  put a reader is left only beside an empty ring, after a get a writer only beside a full one, and never both;
  which bytes a direct hand-over moved is not part of the statement. The case a test rarely reaches is one call
  that serves some waiters, part of the next, and the ring.
- Polling: an event in an object's list belongs to a call that has registered it (`PollLists`), and a thread
  that still listens has all its registered events in their lists, each not met or told to another poller
  (`PollListeners`). Met and cancelled are told apart, and a result of 0 without a met event goes with a
  cancelled one.
- Futexes: whoever waits for a value that is gone has a wake-up coming.

`SeqLemmas` proves what the library does not say about inserting into, removing from and the range of
sequences, about sequences ordered by a rank, and about sums over finite sets.

Only model-checked:
- Liveness (`EveryTimeoutEnds`, `SyncCallsReturn`, `DrainReturns`, `TimedTakeReturns`): the prover has no fairness.

## 6. Not modelled

- Of the parts that are modelled: the wrap of tick and cycle counters (64 bit, or far beyond any explored
  time), the alternative wait and run queues (red-black tree, multi-queue), deadline scheduling, CPU masks,
  meta-IRQ threads, threads aborted from interrupts, suspend, abort and priority changes of threads that use a
  semaphore, mutex or another object, mutexes and the objects on `WaitQ` on several CPUs, `k_work_init` on
  items in use, draining of a queue that was not started, `k_work_poll`, `k_queue_unique_append`.
- `lib/os/heap.c`, the allocator below `k_heap`: a sequential data structure in bits and bytes, whose hard cases
  are layouts, not orders of steps; the repository has a validator for it.
- Thread creation, user mode, memory domains, MMU, start-up, fatal errors and statistics do not take
  part in the protocols above.
- Drivers other than the timer driver, boards, network stacks, and the other kernels of the repository, each an
  independent program, are outside the project. They are almost all of the repository's lines.
