------------------------------- MODULE KTimer -------------------------------
(***************************************************************************)
(* Kernel timers, kernel/timer.c, on the timeout queue.                    *)
(*                                                                         *)
(* A timer's expiry handler runs in sys_clock_announce() and is taken      *)
(* apart where it releases the timer lock: the section that starts the     *)
(* next period, the user's expiry function, which may restart or stop the  *)
(* timer, and the section that wakes the waiting thread.  k_timer_start()  *)
(* and k_timer_stop() take no lock: an interrupt or another thread may     *)
(* come between their calls into the timeout queue.  When a timer is       *)
(* linked again in between, the next z_add_timeout() fails its assertion   *)
(* and the system stops (CONFIG_ASSERT).                                   *)
(*                                                                         *)
(* As the documentation asks, one thread at a time synchronises with a     *)
(* timer; several threads start and stop the timers, and each timer's      *)
(* expiry function the timer itself.  CONFIG_TIMEOUT_64BIT is set.         *)
(***************************************************************************)
EXTENDS TimeoutQ

CONSTANTS Timers,     \* the timeouts that belong to a struct k_timer
          Periods,    \* the periods that callers ask for; 0 is K_NO_WAIT
          Starters    \* the threads that start and stop timers

ASSUME KTimerAssumption ==
    Timers \subseteq Timeouts /\ Periods \subseteq Nat /\ "fn" \notin Starters

VARIABLES
    period,      \* timer->period
    status,      \* timer->status
    asked,       \* history: the period asked for
    handler,     \* each CPU's place in z_timer_expiration_handler
    call,        \* the start or stop that each caller is executing
    waiting,     \* the timer of the thread in k_timer_status_sync, or NULL
    sync,        \* that thread: "out", "pend" or "woken"
    touched,     \* history: its timer was started or stopped since it came
    failed       \* the assertion of z_add_timeout failed

timerOnly == <<period, status, asked, handler, call, waiting, sync, touched, failed>>
timerVars == <<vars, timerOnly>>

Callers == Starters \union {"fn"}     \* the threads, and expiry_fn
NoCall == [op |-> "none", timer |-> NULL, d |-> 0, p |-> 0]

MaxStatus == 2                  \* bound: expiries nobody has looked at

\* Where each caller is executed, and the timers it may name.
MayCall(c, who, to) ==
    \/ who \in Starters /\ pc[c] = "thread" /\ to \in Timers
    \/ who = "fn" /\ pc[c] = "callback" /\ handler[c] = "fn" /\ to = cb[c]

\* z_abort_timeout, which fails when the timeout is not linked.
AbortIfLinked(to) == IF to \in Linked THEN z_abort_timeout(to) ELSE UNCHANGED vars

\* The waiting thread, if there is one, is made ready.
WakeOne(to) ==
    sync' = IF waiting = to /\ sync = "pend" THEN "woken" ELSE sync

-----------------------------------------------------------------------------
(* z_timer_expiration_handler *)

\* Variant of NextStride: without the offset by one.
NextStride_short(to) == curr_tick + sys_clock_elapsed + period[to]

\* k_uptime_ticks() + 1 + timer->period.ticks.  During an announcement the uptime
\* is the time of the event and the ticks that passed since the interrupt.
NextStride(to) == curr_tick + sys_clock_elapsed + 1 + period[to]

\* Variant: only a periodic timer counts its expiries.
HandlerRestart_uncounted(c) ==
    LET to == cb[c]
    IN  /\ pc[c] = "callback" /\ to \in Timers /\ handler[c] = "enter"
        /\ status[to] < MaxStatus
        /\ IF period[to] = 0 THEN UNCHANGED <<vars, status>>
           ELSE /\ z_add_timeout(c, to, AbsoluteTicks(NextStride(to)),
                                 curr_tick + asked[to], hw + Max({2, asked[to]}))
                /\ status' = [status EXCEPT ![to] = @ + 1]
        /\ handler' = [handler EXCEPT ![c] = "fn"]
        /\ UNCHANGED <<period, asked, call, waiting, sync, touched, failed>>

\* The first section: the next period, and one more expiry.
HandlerRestart(c) ==
    LET to == cb[c]
    IN  /\ pc[c] = "callback" /\ to \in Timers /\ handler[c] = "enter"
        /\ status[to] < MaxStatus
        /\ IF period[to] = 0 THEN UNCHANGED vars
           ELSE z_add_timeout(c, to, AbsoluteTicks(NextStride(to)),
                              curr_tick + asked[to], hw + Max({2, asked[to]}))
        /\ status' = [status EXCEPT ![to] = @ + 1]
        /\ handler' = [handler EXCEPT ![c] = "fn"]
        /\ UNCHANGED <<period, asked, call, waiting, sync, touched, failed>>

\* expiry_fn, called without the lock, has returned.
ExpiryFnReturn(c) ==
    /\ pc[c] = "callback" /\ handler[c] = "fn" /\ call["fn"] = NoCall
    /\ handler' = [handler EXCEPT ![c] = "wake"]
    /\ UNCHANGED <<vars, period, status, asked, call, waiting, sync, touched, failed>>

\* Variant: a thread is woken only when the timer goes on.
HandlerWake_periodic(c) ==
    /\ pc[c] = "callback" /\ handler[c] = "wake"
    /\ IF period[cb[c]] # 0 THEN WakeOne(cb[c]) ELSE UNCHANGED sync
    /\ handler' = [handler EXCEPT ![c] = "done"]
    /\ UNCHANGED <<vars, period, status, asked, call, waiting, touched, failed>>

HandlerWake(c) ==
    /\ pc[c] = "callback" /\ handler[c] = "wake"
    /\ WakeOne(cb[c])
    /\ handler' = [handler EXCEPT ![c] = "done"]
    /\ UNCHANGED <<vars, period, status, asked, call, waiting, touched, failed>>

HandlerReturn(c) ==
    /\ cb[c] \in Timers => handler[c] = "done"
    /\ CallbackReturn(c)
    /\ handler' = [handler EXCEPT ![c] = "enter"]
    /\ UNCHANGED <<period, status, asked, call, waiting, sync, touched, failed>>

-----------------------------------------------------------------------------
(* k_timer_start and k_timer_stop *)

\* The rounding of relative arguments: z_add_timeout adds a tick.
StartTicks(d) == Max({d - 1, 0})

PeriodTicks(p) == IF p = 0 THEN 0 ELSE Max({p - 1, 1})

StartAbort(c, who, to, d, p) ==
    /\ MayCall(c, who, to) /\ call[who] = NoCall
    /\ AbortIfLinked(to)
    /\ call' = [call EXCEPT ![who] = [op |-> "start", timer |-> to, d |-> d, p |-> p]]
    /\ touched' = (touched \/ waiting = to)
    /\ UNCHANGED <<period, status, asked, handler, waiting, sync, failed>>

StartStore(c, who) ==
    LET to == call[who].timer
    IN  /\ call[who].op = "start" /\ MayCall(c, who, to)
        /\ period' = [period EXCEPT ![to] = PeriodTicks(call[who].p)]
        /\ asked' = [asked EXCEPT ![to] = call[who].p]
        /\ status' = [status EXCEPT ![to] = 0]
        /\ call' = [call EXCEPT ![who].op = "add"]
        /\ touched' = (touched \/ waiting = to)
        /\ UNCHANGED <<vars, handler, waiting, sync, failed>>

StartAdd(c, who) ==
    LET to == call[who].timer
        n  == StartTicks(call[who].d)
        from == IF who = "fn" THEN curr_tick ELSE hw
    IN  /\ call[who].op = "add" /\ MayCall(c, who, to)
        /\ z_add_timeout(c, to, RelativeTicks(n), from + call[who].d, hw + n + 1)
        /\ call' = [call EXCEPT ![who] = NoCall]
        /\ UNCHANGED <<period, status, asked, handler, waiting, sync, touched, failed>>

\* The timers that CPU c is about to add: the one that expired, in its handler,
\* and those of the starts it executes.
Adding(c) ==
    {to \in Timers :
        \/ pc[c] = "callback" /\ handler[c] = "enter" /\ to = cb[c] /\ period[to] # 0
        \/ \E who \in Callers :
              call[who].op = "add" /\ call[who].timer = to /\ MayCall(c, who, to)}

\* The __ASSERT of z_add_timeout: the timer is linked, since another start or the
\* expiry handler on another CPU came after the z_abort_timeout() of this start.
AddFails(c) ==
    /\ Adding(c) \intersect Linked # {}
    /\ failed' = TRUE
    /\ UNCHANGED <<vars, period, status, asked, handler, call, waiting, sync, touched>>

\* A timer that is not running is left alone.
StopAbort(c, who, to) ==
    /\ MayCall(c, who, to) /\ call[who] = NoCall
    /\ z_abort_timeout(to)
    /\ call' = [call EXCEPT ![who] = [NoCall EXCEPT !.op = "stop", !.timer = to]]
    /\ touched' = (touched \/ waiting = to)
    /\ UNCHANGED <<period, status, asked, handler, waiting, sync, failed>>

\* After stop_fn.
StopWake(c, who) ==
    /\ call[who].op = "stop" /\ MayCall(c, who, call[who].timer)
    /\ WakeOne(call[who].timer)
    /\ call' = [call EXCEPT ![who] = NoCall]
    /\ UNCHANGED <<vars, period, status, asked, handler, waiting, touched, failed>>

-----------------------------------------------------------------------------
(* Reading the status. *)

k_timer_status_get(c, to) ==
    /\ pc[c] = "thread" /\ waiting # to /\ status[to] # 0
    /\ status' = [status EXCEPT ![to] = 0]
    /\ UNCHANGED <<vars, period, asked, handler, call, waiting, sync, touched, failed>>

\* k_timer_status_sync.  With a status, or a timer that is stopped, it is
\* k_timer_status_get.
SyncPend(c, to) ==
    /\ pc[c] = "thread" /\ sync = "out"
    /\ status[to] = 0 /\ to \in Linked
    /\ sync' = "pend"
    /\ waiting' = to
    /\ touched' = (\E who \in Callers : call[who].op = "stop" /\ call[who].timer = to)
    /\ UNCHANGED <<vars, period, status, asked, handler, call, failed>>

\* The second section.
SyncReturn(c) ==
    /\ pc[c] = "thread" /\ sync = "woken"
    /\ sync' = "out"
    /\ waiting' = NULL
    /\ status' = [status EXCEPT ![waiting] = 0]
    /\ touched' = FALSE
    /\ UNCHANGED <<vars, period, asked, handler, call, failed>>

-----------------------------------------------------------------------------
\* The rest of the system: time, the interrupt, and timeouts that do not
\* belong to a timer.
Rest ==
    /\ \/ Tick
       \/ \E c \in CPUs :
             \/ arm_arch_timer_compare_isr(c) \/ sys_clock_announce(c)
             \/ \E to \in Timeouts \ Timers :
                   \/ ThreadAbort(c, to)
                   \/ \E n \in Durations : ThreadAdd(c, to, n)
                   \/ \E tick \in Absolutes : cb[c] \notin Timers /\ AddAbsolute(c, to, tick)
    /\ UNCHANGED timerOnly

\* k_timer_init
TimerInit ==
    /\ Init
    /\ period = [to \in Timers |-> 0]
    /\ status = [to \in Timers |-> 0]
    /\ asked = [to \in Timers |-> 0]
    /\ handler = [c \in CPUs |-> "enter"]
    /\ call = [who \in Callers |-> NoCall]
    /\ waiting = NULL
    /\ sync = "out"
    /\ touched = FALSE
    /\ failed = FALSE

TimerStep(c) ==
    \/ HandlerRestart(c) \/ ExpiryFnReturn(c) \/ HandlerWake(c) \/ HandlerReturn(c)
    \/ SyncReturn(c) \/ AddFails(c)
    \/ \E who \in Callers : StartStore(c, who) \/ StartAdd(c, who) \/ StopWake(c, who)
    \/ \E to \in Timers : SyncPend(c, to) \/ k_timer_status_get(c, to)
    \/ \E who \in Callers, to \in Timers :
          \/ StopAbort(c, who, to)
          \/ \E d \in Durations, p \in Periods : StartAbort(c, who, to, d, p)

TimerNext ==
    /\ ~failed
    /\ \/ Rest
       \/ \E c \in CPUs : TimerStep(c)

TimerSpec == TimerInit /\ [][TimerNext]_timerVars

-----------------------------------------------------------------------------
(* Properties. *)

\* No timer or timeout expires before or after the time asked for.  A period
\* counts from the event, not from the late interrupt, plus the ticks that pass
\* while the event is announced; it ends at the latest one period after the
\* handler ran, and one of 1 tick takes 2.
OnTime == NeverEarly /\ NeverLate

\* In a system that has not stopped, a thread in k_timer_status_sync() waits for a
\* timer that is running, whose expiry is being handled, or that is being started
\* or stopped.
NoWaiterStranded ==
    sync = "pend" /\ ~failed =>
        \/ waiting \in Linked
        \/ \E c \in CPUs : pc[c] = "callback" /\ cb[c] = waiting /\ handler[c] # "done"
        \/ \E who \in Callers : call[who].timer = waiting

\* k_timer_status_sync() waits until the status is not zero, unless the timer was
\* started or stopped meanwhile or was being stopped when the thread came.
SyncTellsTruth == [][sync = "woken" /\ sync' = "out" => status[waiting] # 0 \/ touched]_timerVars

\* No start finds its timer linked: kernel.h says that a timer that is running may
\* be started.
NoDoubleAdd == ~failed
=============================================================================
