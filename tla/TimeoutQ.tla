------------------------------ MODULE TimeoutQ ------------------------------
(***************************************************************************)
(* The kernel timeout queue, kernel/timeout.c, with the system timer       *)
(* driver that feeds it (drivers/timer/arm_arch_timer.c, tickless).        *)
(*                                                                         *)
(* timeout_list is a list of timeouts ordered by expiry; each one keeps    *)
(* only the difference to its predecessor.  The driver counts real ticks   *)
(* (hw) and reports them in its interrupt handler through                  *)
(* sys_clock_announce(), which drops timeout_lock around every expiry      *)
(* callback.  One step is one critical section of timeout_lock, so every   *)
(* interleaving with the other CPUs is explored.                           *)
(*                                                                         *)
(* Time slicing is off (slice_ticks = 0, the CONFIG_TIMESLICE_SIZE         *)
(* default).                                                               *)
(***************************************************************************)
EXTENDS Integers, Sequences, FiniteSets, FiniteSetsExt, SequencesExt

CONSTANTS Timeouts,    \* the struct _timeout objects
          CPUs,        \* the CPUs that run the kernel
          Durations,   \* relative durations (timeout.ticks) that callers ask for
          Absolutes,   \* absolute expiry ticks they ask for (CONFIG_TIMEOUT_64BIT)
          MaxHw,       \* bound: the last real tick explored
          CONFIG_SMP,  \* the kernel is built for several CPUs
          NULL         \* no timeout

ASSUME TimeoutQAssumption ==
    /\ IsFiniteSet(CPUs) /\ CPUs # {}
    /\ CONFIG_SMP \in BOOLEAN
    /\ ~CONFIG_SMP => Cardinality(CPUs) = 1
    /\ Durations \subseteq Nat /\ Absolutes \subseteq Nat
    /\ MaxHw \in Nat
    /\ NULL \notin Timeouts

VARIABLES
    hw,                 \* ticks really elapsed, the hardware counter
    last_cycle,         \* driver: the tick up to which time has been taken
    alarm,              \* driver: the tick each CPU's compare interrupt is set to
    curr_tick,          \* uptime up to the last announced tick
    announce_remaining, \* ticks left in the executing sys_clock_announce()
    timeout_list,       \* the armed timeouts
    dticks,             \* each timeout's distance from its predecessor
    pc,                 \* where each CPU is: "thread", "announce" or "callback"
    ticks,              \* the argument of each CPU's sys_clock_announce()
    cb,                 \* the timeout whose fn each CPU is running
    due,                \* history: the earliest tick each timeout may expire at
    latest              \* history: the latest tick it may expire at

driverVars == <<hw, last_cycle>>
vars == <<hw, last_cycle, alarm, curr_tick, announce_remaining, timeout_list,
          dticks, pc, ticks, cb, due, latest>>

Linked == Range(timeout_list)    \* sys_dnode_is_linked(&to->node)

Never == MaxHw + 1               \* MAX_WAIT: INT_MAX ticks away

\* Bound: no timeout is due in the last Settle ticks of the explored time, and
\* in these every interrupt is served before the next tick.
Settle == 3

-----------------------------------------------------------------------------
(* The driver. *)

\* Variant of sys_clock_elapsed: the time since boot.
sys_clock_elapsed_total == hw

sys_clock_elapsed == hw - last_cycle

\* Program the calling CPU's compare register n ticks ahead.  The request is
\* rounded up to a tick boundary: on the boundary itself that is one tick
\* sooner, and a boundary nearer than MIN_DELAY is put off by one tick.
CompareTicks(n) ==
    {Max({1, n - 1}), Max({1, n})} \union (IF n <= 1 THEN {2} ELSE {})

sys_clock_set_timeout(c, n) ==
    \E k \in CompareTicks(n) : alarm' = [alarm EXCEPT ![c] = Min({Never, hw + k})]

-----------------------------------------------------------------------------
(* The queue.  The operators take the list and the distances they work on, *)
(* because some are used on the state another one has just produced.       *)

elapsed(rem) == IF rem = 0 THEN sys_clock_elapsed ELSE 0

\* Variant of next_timeout: counted from the last announcement.
next_timeout_unadjusted(list, dt, rem) ==
    IF list = <<>> THEN Never ELSE dt[Head(list)]

\* Variant of next_timeout: a timeout that is overdue is skipped.
next_timeout_overdue_lost(list, dt, rem) ==
    IF list = <<>> THEN Never
    ELSE IF dt[Head(list)] <= elapsed(rem) THEN Never
    ELSE dt[Head(list)] - elapsed(rem)

next_timeout(list, dt, rem) ==
    IF list = <<>> THEN Never
    ELSE Max({0, dt[Head(list)] - elapsed(rem)})

\* Distance of the i-th timeout of the list from curr_tick.
SumTo(list, dt, i) ==
    SumFunctionOnSet([j \in 1..Len(list) |-> dt[list[j]]], 1..i)

\* Variant of InsertionPoint: no search.
InsertionPoint_head(d) == 1

\* The loop of z_add_timeout: the place of a timeout d ticks from curr_tick is
\* in front of the first one that expires strictly later.
InsertionPoint(d) ==
    LET later == {i \in 1..Len(timeout_list) : SumTo(timeout_list, dticks, i) > d}
    IN  IF later = {} THEN Len(timeout_list) + 1 ELSE Min(later)

\* z_add_timeout() on CPU c of a timeout d ticks from curr_tick; the caller
\* wants it to expire not before lo and not after hi.
z_add_timeout(c, to, d, lo, hi) ==
    LET i    == InsertionPoint(d)
        own  == d - SumTo(timeout_list, dticks, i - 1)
        list == InsertAt(timeout_list, i, to)
        dt   == [t \in Timeouts |->
                    IF t = to THEN own
                    ELSE IF i <= Len(timeout_list) /\ t = timeout_list[i]
                         THEN dticks[t] - own
                         ELSE dticks[t]]
    IN  /\ to \notin Linked                     \* the __ASSERT on entry
        /\ hi <= MaxHw - Settle
        /\ timeout_list' = list
        /\ dticks' = dt
        /\ due' = [due EXCEPT ![to] = lo]
        /\ latest' = [latest EXCEPT ![to] = hi]
        /\ IF i = 1
           THEN sys_clock_set_timeout(c, next_timeout(list, dt, announce_remaining))
           ELSE UNCHANGED alarm
        /\ UNCHANGED <<driverVars, curr_tick, announce_remaining, pc, ticks, cb>>

\* Variant of RemoveDticks: the successor is not adjusted.
RemoveDticks_dropped(to) == [dticks EXCEPT ![to] = 0]

\* remove_timeout(): the successor inherits the distance.
RemoveDticks(to) ==
    [t \in Timeouts |->
        IF t = to THEN 0
        ELSE IF \E i \in 2..Len(timeout_list) :
                    timeout_list[i] = t /\ timeout_list[i - 1] = to
             THEN dticks[t] + dticks[to]
             ELSE dticks[t]]

\* The place of a linked timeout in the list.
Position(to) == CHOOSE i \in 1..Len(timeout_list) : timeout_list[i] = to

z_abort_timeout(to) ==
    /\ to \in Linked
    /\ timeout_list' = RemoveAt(timeout_list, Position(to))
    /\ dticks' = RemoveDticks(to)
    /\ due' = [due EXCEPT ![to] = 0]
    /\ latest' = [latest EXCEPT ![to] = 0]
    /\ UNCHANGED <<driverVars, alarm, curr_tick, announce_remaining, pc, ticks, cb>>

-----------------------------------------------------------------------------
(* Callers: threads, and the expiry callbacks that run in the timer        *)
(* interrupt.  A CPU in its interrupt handler runs no thread.              *)

\* The distance from curr_tick of a relative and of an absolute timeout.
RelativeTicks(n) == n + 1 + elapsed(announce_remaining)
AbsoluteTicks(tick) == Max({1, tick - curr_tick})

ThreadAdd(c, to, n) ==
    /\ pc[c] = "thread"
    /\ z_add_timeout(c, to, RelativeTicks(n), hw + n + 1, hw + n + 1)

ThreadAbort(c, to) == pc[c] = "thread" /\ z_abort_timeout(to)

\* In a callback the time is that of the event that is being handled.
CallbackAdd(c, to, n) ==
    /\ pc[c] = "callback"
    /\ z_add_timeout(c, to, RelativeTicks(n), curr_tick + n + 1, hw + n + 1)

CallbackAbort(c, to) == pc[c] = "callback" /\ z_abort_timeout(to)

AddAbsolute(c, to, tick) ==
    /\ pc[c] # "announce"
    /\ z_add_timeout(c, to, AbsoluteTicks(tick), tick, Max({tick, hw + 1}))

-----------------------------------------------------------------------------
(* Time. *)

Tick ==
    /\ hw < MaxHw
    /\ hw >= MaxHw - Settle => \A c \in CPUs : pc[c] = "thread" /\ alarm[c] > hw
    /\ hw' = hw + 1
    /\ UNCHANGED <<last_cycle, alarm, curr_tick, announce_remaining,
                   timeout_list, dticks, pc, ticks, cb, due, latest>>

\* Variant of arm_arch_timer_compare_isr: one tick per interrupt.
arm_arch_timer_compare_isr_single(c) ==
    /\ pc[c] = "thread"
    /\ hw >= alarm[c]
    /\ ticks' = [ticks EXCEPT ![c] = 1]
    /\ last_cycle' = hw
    /\ alarm' = [alarm EXCEPT ![c] = Never]
    /\ pc' = [pc EXCEPT ![c] = "announce"]
    /\ UNCHANGED <<hw, curr_tick, announce_remaining, timeout_list, dticks, cb,
                   due, latest>>

\* The compare interrupt: take the ticks that have passed and mask the
\* interrupt until the next sys_clock_set_timeout() on this CPU.
arm_arch_timer_compare_isr(c) ==
    /\ pc[c] = "thread"
    /\ hw >= alarm[c]
    /\ ticks' = [ticks EXCEPT ![c] = hw - last_cycle]
    /\ last_cycle' = hw
    /\ alarm' = [alarm EXCEPT ![c] = Never]
    /\ pc' = [pc EXCEPT ![c] = "announce"]
    /\ UNCHANGED <<hw, curr_tick, announce_remaining, timeout_list, dticks, cb,
                   due, latest>>

\* The condition of that loop.
Expired(rem) == timeout_list # <<>> /\ dticks[Head(timeout_list)] <= rem

\* One turn of the loop of sys_clock_announce() with announce_remaining = rem:
\* take the first timeout out and call it with the lock released, or finish.
AnnounceLoop(c, rem) ==
    \/ /\ Expired(rem)
       /\ LET t == Head(timeout_list)
          IN  /\ curr_tick' = curr_tick + dticks[t]
              /\ announce_remaining' = rem - dticks[t]
              /\ timeout_list' = Tail(timeout_list)
              /\ dticks' = [dticks EXCEPT ![t] = 0]
              /\ cb' = [cb EXCEPT ![c] = t]
              /\ due' = [due EXCEPT ![t] = 0]
              /\ latest' = [latest EXCEPT ![t] = 0]
       /\ pc' = [pc EXCEPT ![c] = "callback"]
       /\ UNCHANGED alarm
    \/ /\ ~Expired(rem)
       /\ dticks' = IF timeout_list = <<>> THEN dticks
                    ELSE [dticks EXCEPT ![Head(timeout_list)] = @ - rem]
       /\ curr_tick' = curr_tick + rem
       /\ announce_remaining' = 0
       /\ sys_clock_set_timeout(c, next_timeout(timeout_list, dticks', 0))
       /\ cb' = [cb EXCEPT ![c] = NULL]
       /\ pc' = [pc EXCEPT ![c] = "thread"]
       /\ UNCHANGED <<timeout_list, due, latest>>

\* sys_clock_announce(): leave the ticks to the CPU that is in the loop, or
\* start the loop.
sys_clock_announce(c) ==
    /\ pc[c] = "announce"
    /\ ticks' = [ticks EXCEPT ![c] = 0]
    /\ UNCHANGED driverVars
    /\ IF CONFIG_SMP /\ announce_remaining # 0
       THEN /\ announce_remaining' = announce_remaining + ticks[c]
            /\ pc' = [pc EXCEPT ![c] = "thread"]
            /\ UNCHANGED <<alarm, curr_tick, timeout_list, dticks, cb, due, latest>>
       ELSE AnnounceLoop(c, ticks[c])

\* t->fn(t) returns: the lock is taken again and the loop goes on.
CallbackReturn(c) ==
    /\ pc[c] = "callback"
    /\ UNCHANGED <<driverVars, ticks>>
    /\ AnnounceLoop(c, announce_remaining)

\* The end of the explored time; the system itself goes on.
Horizon == hw = MaxHw /\ (\A c \in CPUs : pc[c] = "thread") /\ UNCHANGED vars

-----------------------------------------------------------------------------
Init ==
    /\ hw = 0
    /\ last_cycle = 0
    /\ alarm = [c \in CPUs |-> 1]     \* sys_clock_driver_init, smp_timer_init
    /\ curr_tick = 0
    /\ announce_remaining = 0
    /\ timeout_list = <<>>
    /\ dticks = [t \in Timeouts |-> 0]
    /\ pc = [c \in CPUs |-> "thread"]
    /\ ticks = [c \in CPUs |-> 0]
    /\ cb = [c \in CPUs |-> NULL]
    /\ due = [t \in Timeouts |-> 0]
    /\ latest = [t \in Timeouts |-> 0]

Interrupt(c) ==
    arm_arch_timer_compare_isr(c) \/ sys_clock_announce(c) \/ CallbackReturn(c)

Next ==
    \/ Tick
    \/ Horizon
    \/ \E c \in CPUs : Interrupt(c)
    \/ \E c \in CPUs, to \in Timeouts :
          \/ ThreadAbort(c, to) \/ CallbackAbort(c, to)
          \/ \E n \in Durations : ThreadAdd(c, to, n) \/ CallbackAdd(c, to, n)
          \/ \E tick \in Absolutes : AddAbsolute(c, to, tick)

Spec == Init /\ [][Next]_vars

\* The counter runs, an unmasked interrupt is taken, a callback returns.
FairSpec == Spec /\ WF_vars(Tick) /\ \A c \in CPUs : WF_vars(Interrupt(c))

-----------------------------------------------------------------------------
(* Properties. *)

\* The kernel's own view of the tick a linked timeout expires at.
Expires(to) == curr_tick + SumTo(timeout_list, dticks, Position(to))

\* The variables have their types and no timeout is in the list twice.
TypeOK ==
    /\ hw \in 0..MaxHw /\ last_cycle \in 0..hw
    /\ alarm \in [CPUs -> 1..Never]
    /\ curr_tick \in 0..MaxHw /\ announce_remaining \in 0..MaxHw
    /\ timeout_list \in Seq(Timeouts) /\ IsInjective(timeout_list)
    /\ dticks \in [Timeouts -> 0..MaxHw]
    /\ pc \in [CPUs -> {"thread", "announce", "callback"}]
    /\ ticks \in [CPUs -> 0..MaxHw]
    /\ cb \in [CPUs -> Timeouts \union {NULL}]
    /\ due \in [Timeouts -> 0..MaxHw] /\ latest \in [Timeouts -> 0..MaxHw]

\* No tick is lost or counted twice between the driver and the uptime: what
\* the driver has taken is announced, being announced, or in the hands of a
\* CPU on its way into sys_clock_announce().
TickConservation ==
    curr_tick + announce_remaining + SumFunctionOnSet(ticks, CPUs) = last_cycle

\* A linked timeout never expires later than the duration asked for, counted
\* from the real tick of the call and rounded up by one (timeout.ticks + 1).
NeverLate == \A to \in Linked : Expires(to) <= latest[to]

\* A linked timeout never expires before the duration asked for has passed.
NeverEarly == \A to \in Linked : Expires(to) >= due[to]

\* With all CPUs out of the interrupt handler, some CPU is to be interrupted
\* when the first timeout expires, or within the two ticks of MIN_DELAY.
AlarmArmed ==
    timeout_list # <<>> /\ (\A c \in CPUs : pc[c] = "thread") =>
        \E c \in CPUs :
            alarm[c] <= Max({last_cycle + dticks[Head(timeout_list)], hw + 2})

\* An armed timeout expires or is aborted.
EveryTimeoutEnds ==
    \A to \in Timeouts : to \in Linked ~> to \notin Linked

\* The delta list implements a set of absolute expiry ticks.
TimeoutSpecOf == INSTANCE TimeoutSpec
    WITH now <- curr_tick, expiry <- [to \in Linked |-> Expires(to)]

ImplementsTimeoutSpec == TimeoutSpecOf!TimeoutSpec
=============================================================================
