----------------------------- MODULE KTimerProof -----------------------------
(***************************************************************************)
(* Proofs about kernel timers: they expire on time, no thread waits for a  *)
(* timer that will not wake it, and k_timer_status_sync() tells the truth. *)
(***************************************************************************)
EXTENDS KTimer, TimeoutProof

\* The types of the timers and of their callers.
StartCall == [op : {"start", "add"}, timer : Timers, d : Durations, p : Periods]
StopCall == [op : {"stop"}, timer : Timers, d : {0}, p : {0}]

TimersType ==
    /\ period \in [Timers -> Nat] /\ asked \in [Timers -> Nat]
    /\ status \in [Timers -> Nat]
    /\ handler \in [CPUs -> {"enter", "fn", "wake", "done"}]
    /\ call \in [Callers -> {NoCall} \union StartCall \union StopCall]
    /\ sync \in {"out", "pend", "woken"} /\ touched \in BOOLEAN /\ failed \in BOOLEAN
    /\ sync # "out" => waiting \in Timers

\* The period in force is the one asked for, rounded.
PeriodInv == \A to \in Timers : period[to] = PeriodTicks(asked[to])

\* A CPU is in the expiry handler of a timer only in a callback for it.
HandlerInv ==
    \A c \in CPUs : handler[c] # "enter" => pc[c] = "callback" /\ cb[c] \in Timers

TimersBase == TimersType /\ PeriodInv /\ HandlerInv

\* What makes k_timer_status_sync() tell the truth on one CPU.
\* The thread that k_timer_stop() is about to wake knows of the stop.
StopTouches ==
    \A who \in Callers :
        call[who].op = "stop" /\ sync = "pend" /\ waiting = call[who].timer => touched

\* The thread that an expiry is about to wake came before the expiry.
ExpiryCounts ==
    \A c \in CPUs :
        handler[c] \in {"fn", "wake"} /\ sync = "pend" /\ waiting = cb[c] =>
            status[waiting] # 0 \/ touched

\* What the woken thread will find.
WokenFinds == sync = "woken" => status[waiting] # 0 \/ touched

SyncInv == StopTouches /\ ExpiryCounts /\ WokenFinds

-----------------------------------------------------------------------------
(* The timeout queue below the timers. *)

\* The demands of a timer on the timeout queue.
LEMMA RestartAsks ==
    ASSUME Inv, TimersBase, NEW c \in CPUs, HandlerRestart(c), period[cb[c]] # 0
    PROVE  Asks(c, cb[c]) /\ cb[c] \in Timeouts
<1> DEFINE to == cb[c]
           el == sys_clock_elapsed
           x == NextStride(to) - curr_tick
           d == AbsoluteTicks(NextStride(to))
           lo == curr_tick + asked[to]
           m == Max({2, asked[to]})
           hi == hw + m
<1>1. to \in Timers /\ to \in Timeouts /\ z_add_timeout(c, to, d, lo, hi)
  BY KTimerAssumption DEF HandlerRestart
<1>2. /\ curr_tick \in Nat /\ hw \in Nat /\ el \in Nat /\ curr_tick + el <= hw
      /\ curr_tick <= hw
  BY UptimeBounds DEF Inv, TimeType, sys_clock_elapsed
<1>3. asked[to] \in Nat /\ period[to] \in Nat /\ period[to] = PeriodTicks(asked[to])
  BY <1>1 DEF TimersBase, TimersType, PeriodInv
<1>4. m \in Nat /\ m >= asked[to] /\ 1 + period[to] = m
  <2> DEFINE a == asked[to]
  <2>1. a # 0
    BY <1>3 DEF PeriodTicks
  <2>2. period[to] = Max({a - 1, 1})
    BY <1>3, <2>1 DEF PeriodTicks
  <2> HIDE DEF a
  <2>3. Max({a - 1, 1}) \in {a - 1, 1} /\ Max({a - 1, 1}) >= a - 1 /\ Max({a - 1, 1}) >= 1
    <3>1. \E k \in {a - 1, 1} : \A w \in {a - 1, 1} : k >= w
      BY <1>3 DEF a
    <3> QED BY <3>1 DEF Max
  <2>4. Max({2, a}) \in {2, a} /\ Max({2, a}) >= 2 /\ Max({2, a}) >= a
    <3>1. \E k \in {2, a} : \A w \in {2, a} : k >= w
      BY <1>3 DEF a
    <3> QED BY <3>1 DEF Max
  <2>5. m = Max({2, a}) /\ a \in Nat
    BY <1>3 DEF a
  <2> HIDE DEF m
  <2>6. m \in Nat /\ m >= a /\ 1 + period[to] = m
    BY <2>1, <2>2, <2>3, <2>4, <2>5
  <2> QED BY <2>6 DEF a
<1>5. x = el + 1 + period[to]
  BY <1>2, <1>3 DEF NextStride
<1>6. d = x
  <2>1. x \in Int /\ x >= 1
    <3> HIDE DEF x, el
    <3> QED BY <1>2, <1>3, <1>5
  <2>2. d = Max({1, x})
    BY DEF AbsoluteTicks
  <2> HIDE DEF x, d
  <2>3. Max({1, x}) \in {1, x} /\ Max({1, x}) >= x
    <3>1. \E k \in {1, x} : \A w \in {1, x} : k >= w
      BY <2>1
    <3> QED BY <3>1 DEF Max
  <2> QED BY <2>1, <2>2, <2>3
<1> HIDE DEF x, d, el, m
<1>7. /\ d \in Nat /\ lo \in Nat /\ hi \in Nat /\ d >= 1 /\ lo <= hi
      /\ curr_tick + d <= hi /\ lo <= curr_tick + d
  BY <1>2, <1>3, <1>4, <1>5, <1>6
<1> HIDE DEF lo, hi
<1> QED BY <1>1, <1>7 DEF Asks

\* So do k_timer_start() and its rounding.
LEMMA StartAsks ==
    ASSUME Inv, TimersBase, NEW c \in CPUs, NEW who \in Callers, StartAdd(c, who)
    PROVE  Asks(c, call[who].timer) /\ call[who].timer \in Timers
<1> DEFINE to == call[who].timer
           dur == call[who].d
           n == StartTicks(dur)
           el == elapsed(announce_remaining)
           from == IF who = "fn" THEN curr_tick ELSE hw
           d == RelativeTicks(n)
           lo == from + dur
           hi == hw + n + 1
<1>1. call[who].op = "add" /\ MayCall(c, who, to) /\ z_add_timeout(c, to, d, lo, hi)
  BY DEF StartAdd
<1>2. call[who] \in StartCall
  BY <1>1 DEF TimersBase, TimersType, NoCall, StopCall
<1>3. to \in Timers /\ to \in Timeouts /\ dur \in Nat
  BY <1>2, KTimerAssumption, TimeoutQAssumption DEF StartCall
<1>4. /\ curr_tick \in Nat /\ hw \in Nat /\ el \in Nat /\ curr_tick + el <= hw
      /\ curr_tick <= hw /\ last_cycle \in Nat /\ last_cycle <= hw
      /\ announce_remaining = 0 => el = hw - last_cycle
  BY UptimeBounds, ElapsedFacts DEF Inv, TimeType
<1>5. n \in Nat /\ dur <= n + 1
  <2>1. n = Max({dur - 1, 0})
    BY DEF StartTicks
  <2> HIDE DEF n, dur
  <2>2. Max({dur - 1, 0}) \in {dur - 1, 0} /\ Max({dur - 1, 0}) >= dur - 1
        /\ Max({dur - 1, 0}) >= 0
    <3>1. \E k \in {dur - 1, 0} : \A w \in {dur - 1, 0} : k >= w
      BY <1>3
    <3> QED BY <3>1 DEF Max
  <2> QED BY <1>3, <2>1, <2>2
<1>6. d = n + 1 + el
  BY DEF RelativeTicks
<1>7. from \in Nat /\ from <= hw
  BY <1>4
<1>8. OneCPU => from <= curr_tick + el
  <2> SUFFICES ASSUME OneCPU PROVE from <= curr_tick + el
    OBVIOUS
  <2>1. CASE who = "fn"
    BY <1>4, <2>1
  <2>2. CASE who # "fn"
    <3>1. pc[c] = "thread"
      BY <1>1, <2>2 DEF MayCall
    <3>2. announce_remaining = 0 /\ curr_tick = last_cycle
      BY <3>1, ThreadSeesUptime
    <3> QED BY <1>4, <2>2, <3>2
  <2> QED BY <2>1, <2>2
<1> HIDE DEF d, n, el, from, dur
<1>9. /\ d \in Nat /\ lo \in Nat /\ hi \in Nat /\ d >= 1 /\ lo <= hi
      /\ curr_tick + d <= hi
  BY <1>3, <1>4, <1>5, <1>6, <1>7
<1>10. OneCPU => lo <= curr_tick + d
  BY <1>3, <1>4, <1>5, <1>6, <1>7, <1>8
<1> HIDE DEF lo, hi, to
<1>11. Asks(c, to)
  BY <1>1, <1>9, <1>10 DEF Asks
<1> QED BY <1>3, <1>11 DEF to

\* What a step of the timers does to the timeout queue: a call of one of its
\* operations, or nothing.
QueueStep ==
    \/ UNCHANGED vars \/ Tick
    \/ \E c \in CPUs : \/ arm_arch_timer_compare_isr(c) \/ sys_clock_announce(c)
                       \/ CallbackReturn(c)
    \/ \E to \in Timeouts : z_abort_timeout(to)
    \/ \E c \in CPUs, to \in Timeouts : Asks(c, to)

\* Every step of the timers is one of those.
LEMMA TimerQueueStep ==
    ASSUME Inv, TimersBase, [TimerNext]_timerVars
    PROVE  QueueStep
<1>0. Timers \subseteq Timeouts
  BY KTimerAssumption
<1>1. CASE UNCHANGED timerVars
  BY <1>1 DEF timerVars, QueueStep
<1>2. CASE Rest
  BY <1>2, CallersAsk DEF Rest, ThreadAbort, QueueStep
<1>3. ASSUME NEW c \in CPUs, HandlerRestart(c) PROVE QueueStep
  <2>1. CASE period[cb[c]] = 0
    BY <1>3, <2>1 DEF HandlerRestart, QueueStep
  <2>2. CASE period[cb[c]] # 0
    BY <1>3, <2>2, RestartAsks DEF QueueStep
  <2> QED BY <2>1, <2>2
<1>4. ASSUME NEW c \in CPUs,
             ExpiryFnReturn(c) \/ HandlerWake(c) \/ SyncReturn(c) \/ AddFails(c)
      PROVE  QueueStep
  BY <1>4 DEF ExpiryFnReturn, HandlerWake, SyncReturn, AddFails, QueueStep
<1>5. ASSUME NEW c \in CPUs, HandlerReturn(c) PROVE QueueStep
  BY <1>5 DEF HandlerReturn, QueueStep
<1>6. ASSUME NEW c \in CPUs, NEW who \in Callers, StartAdd(c, who) PROVE QueueStep
  BY <1>0, <1>6, StartAsks DEF QueueStep
<1>7. ASSUME NEW c \in CPUs, NEW who \in Callers, StartStore(c, who) \/ StopWake(c, who)
      PROVE  QueueStep
  BY <1>7 DEF StartStore, StopWake, QueueStep
<1>8. ASSUME NEW c \in CPUs, NEW to \in Timers,
             SyncPend(c, to) \/ k_timer_status_get(c, to)
      PROVE  QueueStep
  BY <1>8 DEF SyncPend, k_timer_status_get, QueueStep
<1>9. ASSUME NEW c \in CPUs, NEW who \in Callers, NEW to \in Timers,
             StopAbort(c, who, to)
      PROVE  QueueStep
  BY <1>0, <1>9 DEF StopAbort, QueueStep
<1>10. ASSUME NEW c \in CPUs, NEW who \in Callers, NEW to \in Timers,
              NEW d \in Durations, NEW p \in Periods, StartAbort(c, who, to, d, p)
       PROVE  QueueStep
  BY <1>0, <1>10 DEF StartAbort, AbortIfLinked, QueueStep
<1> QED BY <1>1, <1>2, <1>3, <1>4, <1>5, <1>6, <1>7, <1>8, <1>9, <1>10
        DEF TimerNext, TimerStep

\* The invariant of the queue survives the timers.
LEMMA QueueInv ==
    /\ Inv /\ QueueStep => Inv'
    /\ OneCPU /\ Inv /\ NeverEarly /\ QueueStep => NeverEarly'
<1>1. ASSUME Inv, QueueStep PROVE Inv'
  <2>1. ASSUME NEW c \in CPUs, NEW to \in Timeouts, Asks(c, to) PROVE Inv'
    <3>1. PICK d \in Nat, lo \in Nat, hi \in Nat :
              /\ lo <= hi /\ curr_tick + d <= hi /\ z_add_timeout(c, to, d, lo, hi)
      BY <2>1 DEF Asks
    <3> QED BY <1>1, <3>1, AddKeeps
  <2> QED BY <1>1, <2>1, StutterKeeps, TickKeeps, IsrKeeps, AnnounceKeeps, ReturnKeeps,
             AbortKeeps DEF QueueStep
<1>2. ASSUME OneCPU, Inv, NeverEarly, QueueStep PROVE NeverEarly'
  <2>1. ASSUME NEW c \in CPUs, NEW to \in Timeouts, Asks(c, to) PROVE NeverEarly'
    <3>1. PICK d \in Nat, lo \in Nat, hi \in Nat :
              lo <= curr_tick + d /\ z_add_timeout(c, to, d, lo, hi)
      BY <1>2, <2>1 DEF Asks
    <3> QED BY <1>2, <3>1, EarlyAdd
  <2>2. CASE UNCHANGED vars
    BY <1>2, <2>2 DEF vars, NeverEarly, Linked, Expires, Position
  <2>3. CASE Tick
    BY <1>2, <2>3 DEF Tick, NeverEarly, Linked, Expires, Position
  <2>4. ASSUME NEW c \in CPUs,
               arm_arch_timer_compare_isr(c) \/ sys_clock_announce(c) \/ CallbackReturn(c)
        PROVE  NeverEarly'
    BY <1>2, <2>4, EarlyInterrupt
  <2>5. ASSUME NEW to \in Timeouts, z_abort_timeout(to) PROVE NeverEarly'
    BY <1>2, <2>5, EarlyAbort
  <2> QED BY <1>2, <2>1, <2>2, <2>3, <2>4, <2>5 DEF QueueStep
<1> QED BY <1>1, <1>2

-----------------------------------------------------------------------------
(* What the steps do to the handlers and to the set of running timers. *)

\* A call of an operation of the queue outside the announcing loop.
AddsOnly(to) == pc' = pc /\ cb' = cb /\ Linked' = Linked \union {to}
DropsOnly(to) == pc' = pc /\ cb' = cb /\ Linked' = Linked \ {to}
LeavesQueue == pc' = pc /\ cb' = cb /\ Linked' = Linked

\* A turn of the loop on CPU c calls back the timeout that it takes out, or
\* lets the CPU go back to its thread.
Turns(c) ==
    /\ \A k \in CPUs : k # c => pc'[k] = pc[k] /\ cb'[k] = cb[k]
    /\ \/ /\ pc'[c] = "callback" /\ cb'[c] \in Linked /\ Linked' = Linked \ {cb'[c]}
       \/ pc'[c] = "thread" /\ Linked' = Linked

\* The rest of the system enters callbacks and leaves none; it takes a timer
\* out only to call it back, and adds none.
Enters ==
    /\ \A k \in CPUs : pc[k] = "callback" => pc'[k] = "callback" /\ cb'[k] = cb[k]
    /\ \A k \in CPUs : pc[k] # "callback" /\ pc'[k] = "callback" =>
          pc[k] = "announce" /\ cb'[k] \in Linked /\ Linked' = Linked \ {cb'[k]}
    /\ \A to \in Timers : to \in Linked' => to \in Linked
    /\ \A to \in Timers : to \in Linked /\ to \notin Linked' =>
          \E k \in CPUs : pc'[k] = "callback" /\ cb'[k] = to /\ pc[k] = "announce"

\* The operations of the queue in these terms.
LEMMA QueueMoves ==
    ASSUME Inv
    PROVE  /\ UNCHANGED vars => LeavesQueue
           /\ \A to \in Timeouts : z_abort_timeout(to) => DropsOnly(to) /\ to \in Linked
           /\ \A c \in CPUs, to \in Timeouts : Asks(c, to) => AddsOnly(to)
<1>1. UNCHANGED vars => LeavesQueue
  BY DEF vars, LeavesQueue, Linked
<1>2. ASSUME NEW to \in Timeouts, z_abort_timeout(to) PROVE DropsOnly(to) /\ to \in Linked
  <2>1. Removed(to)
    BY <1>2, AbortStep DEF Inv
  <2> QED BY <1>2, <2>1 DEF Removed, z_abort_timeout, DropsOnly
<1>3. ASSUME NEW c \in CPUs, NEW to \in Timeouts, Asks(c, to) PROVE AddsOnly(to)
  <2>1. PICK d \in Nat, lo \in Nat, hi \in Nat : z_add_timeout(c, to, d, lo, hi)
    BY <1>3 DEF Asks
  <2>2. Added(c, to, d)
    BY <2>1, AddStep DEF Inv
  <2>3. pc' = pc /\ cb' = cb
    BY <2>1 DEF z_add_timeout
  <2> QED BY <2>2, <2>3 DEF Added, AddsOnly
<1> QED BY <1>1, <1>2, <1>3

\* A turn of the loop.
LEMMA LoopTurns ==
    ASSUME Inv, NEW c \in CPUs, NEW rem \in Nat, AnnounceLoop(c, rem),
           UNCHANGED <<hw, last_cycle>>, ticks' \in [CPUs -> Nat]
    PROVE  Turns(c)
<1>1. TookOut(c, rem) \/ Finished(c, rem)
  BY LoopStep DEF Inv
<1>2. /\ pc \in [CPUs -> {"thread", "announce", "callback"}]
      /\ cb \in [CPUs -> Timeouts \union {NULL}]
  BY DEF Inv, TimeType
<1>3. CASE Expired(rem)
  <2>1. /\ cb' = [cb EXCEPT ![c] = Head(timeout_list)]
        /\ pc' = [pc EXCEPT ![c] = "callback"]
    BY <1>3 DEF AnnounceLoop
  <2>2. pc'[c] = "callback"
    BY <1>2, <2>1
  <2>3. TookOut(c, rem)
    BY <1>1, <1>2, <2>2 DEF Finished
  <2> QED BY <1>2, <2>1, <2>3 DEF TookOut, Turns
<1>4. CASE ~Expired(rem)
  <2>1. cb' = [cb EXCEPT ![c] = NULL] /\ pc' = [pc EXCEPT ![c] = "thread"]
    BY <1>4 DEF AnnounceLoop
  <2>2. pc'[c] = "thread"
    BY <1>2, <2>1
  <2>3. Finished(c, rem)
    BY <1>1, <1>2, <2>2 DEF TookOut
  <2> QED BY <1>2, <2>1, <2>2, <2>3 DEF Finished, Turns
<1> QED BY <1>3, <1>4

\* The return of a callback.
LEMMA ReturnTurns ==
    ASSUME Inv, NEW c \in CPUs, CallbackReturn(c)
    PROVE  Turns(c)
<1>1. /\ AnnounceLoop(c, announce_remaining) /\ ticks' = ticks
      /\ UNCHANGED <<hw, last_cycle>>
  BY DEF CallbackReturn, driverVars
<1>2. ticks \in [CPUs -> Nat] /\ announce_remaining \in Nat
  BY DEF Inv, TimeType
<1> QED BY <1>1, <1>2, LoopTurns

\* The rest of the system.
LEMMA RestEnters ==
    ASSUME Inv, Rest
    PROVE  Enters /\ UNCHANGED timerOnly
<1>0. /\ pc \in [CPUs -> {"thread", "announce", "callback"}]
      /\ cb \in [CPUs -> Timeouts \union {NULL}] /\ ticks \in [CPUs -> Nat]
  BY DEF Inv, TimeType
<1>1. UNCHANGED timerOnly
  BY DEF Rest
<1>2. CASE Tick
  <2>1. pc' = pc /\ cb' = cb /\ Linked' = Linked
    BY <1>2 DEF Tick, Linked
  <2> QED BY <1>1, <2>1 DEF Enters
<1>3. ASSUME NEW c \in CPUs, arm_arch_timer_compare_isr(c) PROVE Enters
  <2>1. /\ pc[c] = "thread" /\ pc' = [pc EXCEPT ![c] = "announce"] /\ cb' = cb
        /\ Linked' = Linked
    BY <1>3 DEF arm_arch_timer_compare_isr, Linked
  <2> QED BY <1>0, <2>1 DEF Enters
<1>4. ASSUME NEW c \in CPUs, sys_clock_announce(c) PROVE Enters
  <2>1. /\ pc[c] = "announce" /\ ticks' = [ticks EXCEPT ![c] = 0]
        /\ UNCHANGED <<hw, last_cycle>>
    BY <1>4 DEF sys_clock_announce, driverVars
  <2>2. CASE CONFIG_SMP /\ announce_remaining # 0
    <3>1. pc' = [pc EXCEPT ![c] = "thread"] /\ cb' = cb /\ Linked' = Linked
      BY <1>4, <2>2 DEF sys_clock_announce, Linked
    <3> QED BY <1>0, <2>1, <3>1 DEF Enters
  <2>3. CASE ~(CONFIG_SMP /\ announce_remaining # 0)
    <3>1. AnnounceLoop(c, ticks[c])
      BY <1>4, <2>3 DEF sys_clock_announce
    <3>2. ticks[c] \in Nat /\ ticks' \in [CPUs -> Nat]
      BY <1>0, <2>1
    <3>3. Turns(c)
      BY <2>1, <3>1, <3>2, LoopTurns
    <3> QED BY <2>1, <3>3 DEF Turns, Enters
  <2> QED BY <2>2, <2>3
<1>5. ASSUME NEW c \in CPUs, NEW to \in Timeouts \ Timers, ThreadAbort(c, to) PROVE Enters
  <2>1. DropsOnly(to)
    BY <1>5, QueueMoves DEF ThreadAbort
  <2> QED BY <2>1 DEF DropsOnly, Enters
<1>6. ASSUME NEW c \in CPUs, NEW to \in Timeouts \ Timers, Asks(c, to) PROVE Enters
  <2>1. AddsOnly(to)
    BY <1>6, QueueMoves
  <2> QED BY <2>1 DEF AddsOnly, Enters
<1> QED BY <1>1, <1>2, <1>3, <1>4, <1>5, <1>6, CallersAsk DEF Rest

\* The timers' own steps.  Only the return of a callback touches a handler of
\* another kind than the step's own, and only k_timer_start() and the next
\* period of a timer put it into the queue.
LEMMA OwnMoves ==
    ASSUME Inv, TimersBase, NEW c \in CPUs
    PROVE  /\ HandlerRestart(c) => LeavesQueue \/ AddsOnly(cb[c])
           /\ ExpiryFnReturn(c) \/ HandlerWake(c) \/ SyncReturn(c) \/ AddFails(c) =>
                 LeavesQueue
           /\ HandlerReturn(c) => Turns(c)
           /\ \A who \in Callers : StartAdd(c, who) => AddsOnly(call[who].timer)
           /\ \A who \in Callers : StartStore(c, who) \/ StopWake(c, who) => LeavesQueue
           /\ \A to \in Timers : SyncPend(c, to) \/ k_timer_status_get(c, to) => LeavesQueue
           /\ \A who \in Callers, to \in Timers :
                 StopAbort(c, who, to) => DropsOnly(to)
           /\ \A who \in Callers, to \in Timers, d \in Durations, p \in Periods :
                 StartAbort(c, who, to, d, p) => DropsOnly(to)
<1>0. Timers \subseteq Timeouts
  BY KTimerAssumption
<1>1. HandlerRestart(c) => LeavesQueue \/ AddsOnly(cb[c])
  <2>1. CASE HandlerRestart(c) /\ period[cb[c]] = 0
    BY <2>1, QueueMoves DEF HandlerRestart
  <2>2. CASE HandlerRestart(c) /\ period[cb[c]] # 0
    BY <2>2, QueueMoves, RestartAsks
  <2> QED BY <2>1, <2>2
<1>2. ExpiryFnReturn(c) \/ HandlerWake(c) \/ SyncReturn(c) \/ AddFails(c) => LeavesQueue
  BY QueueMoves DEF ExpiryFnReturn, HandlerWake, SyncReturn, AddFails
<1>3. HandlerReturn(c) => Turns(c)
  BY ReturnTurns DEF HandlerReturn
<1>4. ASSUME NEW who \in Callers, StartAdd(c, who) PROVE AddsOnly(call[who].timer)
  <2>1. Asks(c, call[who].timer) /\ call[who].timer \in Timeouts
    BY <1>0, <1>4, StartAsks
  <2> QED BY <2>1, QueueMoves
<1>5. ASSUME NEW who \in Callers, StartStore(c, who) \/ StopWake(c, who) PROVE LeavesQueue
  BY <1>5, QueueMoves DEF StartStore, StopWake
<1>6. ASSUME NEW to \in Timers, SyncPend(c, to) \/ k_timer_status_get(c, to)
      PROVE  LeavesQueue
  BY <1>6, QueueMoves DEF SyncPend, k_timer_status_get
<1>7. ASSUME NEW who \in Callers, NEW to \in Timers, StopAbort(c, who, to)
      PROVE  DropsOnly(to)
  BY <1>0, <1>7, QueueMoves DEF StopAbort
<1>8. ASSUME NEW who \in Callers, NEW to \in Timers, NEW d \in Durations, NEW p \in Periods,
             StartAbort(c, who, to, d, p)
      PROVE  DropsOnly(to)
  <2>1. CASE to \in Linked
    BY <1>0, <1>8, <2>1, QueueMoves DEF StartAbort, AbortIfLinked
  <2>2. CASE to \notin Linked
    <3>1. LeavesQueue
      BY <1>8, <2>2, QueueMoves DEF StartAbort, AbortIfLinked
    <3> QED BY <2>2, <3>1 DEF LeavesQueue, DropsOnly
  <2> QED BY <2>1, <2>2
<1> QED BY <1>1, <1>2, <1>3, <1>4, <1>5, <1>6, <1>7, <1>8

-----------------------------------------------------------------------------
(* The types, the periods and the handlers. *)

\* Initially.
LEMMA BaseInit == TimerInit => Inv /\ TimersBase
<1> SUFFICES ASSUME TimerInit PROVE Inv /\ TimersBase
  OBVIOUS
<1>1. Inv
  BY InitInv DEF TimerInit
<1>2. TimersType
  BY DEF TimerInit, TimersType, Callers
<1>3. PeriodInv
  BY DEF TimerInit, PeriodInv, PeriodTicks
<1>4. HandlerInv
  BY DEF TimerInit, HandlerInv
<1> QED BY <1>1, <1>2, <1>3, <1>4 DEF TimersBase

\* A rounded period.
LEMMA PeriodNat == \A p \in Nat : PeriodTicks(p) \in Nat
<1> SUFFICES ASSUME NEW p \in Nat PROVE PeriodTicks(p) \in Nat
  OBVIOUS
<1>1. Max({p - 1, 1}) \in {p - 1, 1} /\ Max({p - 1, 1}) >= 1
  BY MaxTwo
<1> QED BY <1>1 DEF PeriodTicks

\* Steps that leave the handlers alone leave them consistent.
LEMMA HandlerKept ==
    ASSUME HandlerInv, handler' = handler, pc' = pc, cb' = cb
    PROVE  HandlerInv'
BY DEF HandlerInv

\* Every step keeps them.
LEMMA BaseNext ==
    ASSUME Inv, TimersBase, [TimerNext]_timerVars
    PROVE  TimersBase'
<1>0. /\ TimersType /\ PeriodInv /\ HandlerInv
      /\ pc \in [CPUs -> {"thread", "announce", "callback"}]
      /\ cb \in [CPUs -> Timeouts \union {NULL}]
  BY DEF TimersBase, Inv, TimeType
<1>1. CASE UNCHANGED timerVars
  <2>1. UNCHANGED timerOnly /\ UNCHANGED <<pc, cb>>
    BY <1>1 DEF timerVars, vars
  <2> QED BY <1>0, <2>1 DEF timerOnly, TimersBase, TimersType, PeriodInv, HandlerInv
<1>2. CASE Rest
  <2>1. Enters /\ UNCHANGED timerOnly
    BY <1>2, RestEnters
  <2>2. TimersType' /\ PeriodInv'
    BY <1>0, <2>1 DEF timerOnly, TimersType, PeriodInv
  <2>3. HandlerInv'
    BY <1>0, <2>1 DEF timerOnly, HandlerInv, Enters
  <2> QED BY <2>2, <2>3 DEF TimersBase
<1>3. ASSUME NEW c \in CPUs, HandlerRestart(c) PROVE TimersBase'
  <2>1. LeavesQueue \/ AddsOnly(cb[c])
    BY <1>3, OwnMoves
  <2>2. /\ pc' = pc /\ cb' = cb
    BY <2>1 DEF LeavesQueue, AddsOnly
  <2>3. /\ pc[c] = "callback" /\ cb[c] \in Timers
        /\ status' = [status EXCEPT ![cb[c]] = @ + 1]
        /\ handler' = [handler EXCEPT ![c] = "fn"]
        /\ UNCHANGED <<period, asked, call, waiting, sync, touched, failed>>
    BY <1>3 DEF HandlerRestart
  <2>4. TimersType' /\ PeriodInv'
    BY <1>0, <2>3 DEF TimersType, PeriodInv
  <2>5. HandlerInv'
    BY <1>0, <2>2, <2>3 DEF HandlerInv, TimersType
  <2> QED BY <2>4, <2>5 DEF TimersBase
<1>4. ASSUME NEW c \in CPUs, ExpiryFnReturn(c) \/ HandlerWake(c) PROVE TimersBase'
  <2>1. LeavesQueue
    BY <1>4, OwnMoves
  <2>2. PICK x \in {"wake", "done"}, y \in {sync, "woken"} :
          /\ pc[c] = "callback" /\ handler[c] # "enter"
          /\ handler' = [handler EXCEPT ![c] = x]
          /\ sync' = y /\ (y = "woken" /\ sync # y => sync = "pend")
          /\ UNCHANGED <<period, status, asked, call, waiting, touched, failed>>
    BY <1>4 DEF ExpiryFnReturn, HandlerWake, WakeOne
  <2>3. TimersType' /\ PeriodInv'
    BY <1>0, <2>2 DEF TimersType, PeriodInv
  <2>4. HandlerInv'
    BY <1>0, <2>1, <2>2 DEF HandlerInv, TimersType, LeavesQueue
  <2> QED BY <2>3, <2>4 DEF TimersBase
<1>5. ASSUME NEW c \in CPUs, HandlerReturn(c) PROVE TimersBase'
  <2>1. Turns(c)
    BY <1>5, OwnMoves
  <2>2. /\ handler' = [handler EXCEPT ![c] = "enter"]
        /\ UNCHANGED <<period, status, asked, call, waiting, sync, touched, failed>>
    BY <1>5 DEF HandlerReturn
  <2>3. TimersType' /\ PeriodInv'
    BY <1>0, <2>2 DEF TimersType, PeriodInv
  <2>4. HandlerInv'
    BY <1>0, <2>1, <2>2 DEF HandlerInv, TimersType, Turns
  <2> QED BY <2>3, <2>4 DEF TimersBase
<1>6. ASSUME NEW c \in CPUs, SyncReturn(c) PROVE TimersBase'
  <2>1. LeavesQueue
    BY <1>6, OwnMoves
  <2>2. /\ sync = "woken" /\ sync' = "out" /\ touched' = FALSE
        /\ status' = [status EXCEPT ![waiting] = 0]
        /\ UNCHANGED <<period, asked, handler, call, failed>>
    BY <1>6 DEF SyncReturn
  <2>3. TimersType' /\ PeriodInv'
    BY <1>0, <2>2 DEF TimersType, PeriodInv
  <2>4. HandlerInv'
    BY <1>0, <2>1, <2>2, HandlerKept DEF LeavesQueue
  <2> QED BY <2>3, <2>4 DEF TimersBase
<1>7. ASSUME NEW c \in CPUs, NEW who \in Callers, StartStore(c, who) PROVE TimersBase'
  <2> DEFINE to == call[who].timer
             p == call[who].p
  <2>1. LeavesQueue
    BY <1>7, OwnMoves
  <2>2. /\ call[who].op = "start"
        /\ period' = [period EXCEPT ![to] = PeriodTicks(p)]
        /\ asked' = [asked EXCEPT ![to] = p]
        /\ status' = [status EXCEPT ![to] = 0]
        /\ call' = [call EXCEPT ![who].op = "add"]
        /\ touched' = (touched \/ waiting = to)
        /\ UNCHANGED <<handler, waiting, sync, failed>>
    BY <1>7 DEF StartStore
  <2>3. call[who] \in StartCall
    BY <1>0, <2>2 DEF TimersType, NoCall, StopCall
  <2>4. to \in Timers /\ p \in Nat /\ PeriodTicks(p) \in Nat
    BY <2>3, KTimerAssumption, PeriodNat DEF StartCall
  <2> HIDE DEF to, p
  <2>9. call' \in [Callers -> {NoCall} \union StartCall \union StopCall]
    <3>1. [call[who] EXCEPT !.op = "add"] \in StartCall
      BY <2>3 DEF StartCall
    <3>2. call' = [call EXCEPT ![who] = [call[who] EXCEPT !.op = "add"]]
      BY <2>2
    <3> QED BY <1>0, <3>1, <3>2 DEF TimersType
  <2>5. touched' \in BOOLEAN
    BY <2>2
  <2>6. TimersType'
    BY <1>0, <2>2, <2>4, <2>5, <2>9 DEF TimersType
  <2>7. PeriodInv'
    BY <1>0, <2>2, <2>4 DEF TimersType, PeriodInv
  <2>8. HandlerInv'
    BY <1>0, <2>1, <2>2, HandlerKept DEF LeavesQueue
  <2> QED BY <2>6, <2>7, <2>8 DEF TimersBase
<1>8. ASSUME NEW c \in CPUs, NEW who \in Callers, StopWake(c, who) PROVE TimersBase'
  <2>1. LeavesQueue
    BY <1>8, OwnMoves
  <2>2. /\ sync' \in {sync, "woken"} /\ (sync' = "woken" => sync \in {"pend", "woken"})
        /\ call' = [call EXCEPT ![who] = NoCall]
        /\ UNCHANGED <<period, status, asked, handler, waiting, touched, failed>>
    BY <1>8 DEF StopWake, WakeOne
  <2>3. TimersType' /\ PeriodInv'
    BY <1>0, <2>2 DEF TimersType, PeriodInv
  <2>4. HandlerInv'
    BY <1>0, <2>1, <2>2, HandlerKept DEF LeavesQueue
  <2> QED BY <2>3, <2>4 DEF TimersBase
<1>9. ASSUME NEW c \in CPUs, NEW to \in Timers,
             SyncPend(c, to) \/ k_timer_status_get(c, to)
      PROVE  TimersBase'
  <2>1. LeavesQueue
    BY <1>9, OwnMoves
  <2>2. /\ UNCHANGED <<period, asked, handler, call, failed>>
        /\ \/ sync' = "pend" /\ waiting' = to /\ touched' \in BOOLEAN /\ status' = status
           \/ status' = [status EXCEPT ![to] = 0] /\ UNCHANGED <<waiting, sync, touched>>
    BY <1>9 DEF SyncPend, k_timer_status_get
  <2>3. TimersType' /\ PeriodInv'
    <3>1. CASE sync' = "pend" /\ waiting' = to /\ touched' \in BOOLEAN /\ status' = status
      BY <1>0, <2>2, <3>1 DEF TimersType, PeriodInv
    <3>2. CASE status' = [status EXCEPT ![to] = 0] /\ UNCHANGED <<waiting, sync, touched>>
      BY <1>0, <2>2, <3>2 DEF TimersType, PeriodInv
    <3> QED BY <2>2, <3>1, <3>2
  <2>4. HandlerInv'
    BY <1>0, <2>1, <2>2, HandlerKept DEF LeavesQueue
  <2> QED BY <2>3, <2>4 DEF TimersBase
<1>10. ASSUME NEW c \in CPUs, NEW who \in Callers, NEW to \in Timers,
              StopAbort(c, who, to)
       PROVE  TimersBase'
  <2>1. DropsOnly(to)
    BY <1>10, OwnMoves
  <2> DEFINE new == [NoCall EXCEPT !.op = "stop", !.timer = to]
  <2>2. /\ call' = [call EXCEPT ![who] = new]
        /\ touched' = (touched \/ waiting = to)
        /\ UNCHANGED <<period, status, asked, handler, waiting, sync, failed>>
    BY <1>10 DEF StopAbort
  <2>3. new \in StopCall
    BY DEF NoCall, StopCall
  <2> HIDE DEF new
  <2>4. touched' \in BOOLEAN
    BY <2>2
  <2>5. TimersType' /\ PeriodInv'
    BY <1>0, <2>2, <2>3, <2>4 DEF TimersType, PeriodInv
  <2>6. HandlerInv'
    BY <1>0, <2>1, <2>2, HandlerKept DEF DropsOnly
  <2> QED BY <2>5, <2>6 DEF TimersBase
<1>11. ASSUME NEW c \in CPUs, NEW who \in Callers, NEW to \in Timers,
              NEW d \in Durations, NEW p \in Periods, StartAbort(c, who, to, d, p)
       PROVE  TimersBase'
  <2>1. DropsOnly(to)
    BY <1>11, OwnMoves
  <2> DEFINE new == [op |-> "start", timer |-> to, d |-> d, p |-> p]
  <2>2. /\ call' = [call EXCEPT ![who] = new]
        /\ touched' = (touched \/ waiting = to)
        /\ UNCHANGED <<period, status, asked, handler, waiting, sync, failed>>
    BY <1>11 DEF StartAbort
  <2>3. new \in StartCall
    BY DEF StartCall
  <2> HIDE DEF new
  <2>4. touched' \in BOOLEAN
    BY <2>2
  <2>5. TimersType' /\ PeriodInv'
    BY <1>0, <2>2, <2>3, <2>4 DEF TimersType, PeriodInv
  <2>6. HandlerInv'
    BY <1>0, <2>1, <2>2, HandlerKept DEF DropsOnly
  <2> QED BY <2>5, <2>6 DEF TimersBase
<1>12. ASSUME NEW c \in CPUs, NEW who \in Callers, StartAdd(c, who) PROVE TimersBase'
  <2>1. AddsOnly(call[who].timer)
    BY <1>12, OwnMoves
  <2>2. /\ call' = [call EXCEPT ![who] = NoCall]
        /\ UNCHANGED <<period, status, asked, handler, waiting, sync, touched, failed>>
    BY <1>12 DEF StartAdd
  <2>3. TimersType' /\ PeriodInv'
    BY <1>0, <2>2 DEF TimersType, PeriodInv
  <2>4. HandlerInv'
    BY <1>0, <2>1, <2>2, HandlerKept DEF AddsOnly
  <2> QED BY <2>3, <2>4 DEF TimersBase
<1>13. ASSUME NEW c \in CPUs, AddFails(c) PROVE TimersBase'
  <2>1. LeavesQueue
    BY <1>13, OwnMoves
  <2>2. /\ failed' = TRUE
        /\ UNCHANGED <<period, status, asked, handler, call, waiting, sync, touched>>
    BY <1>13 DEF AddFails
  <2>3. TimersType' /\ PeriodInv'
    BY <1>0, <2>2 DEF TimersType, PeriodInv
  <2>4. HandlerInv'
    BY <1>0, <2>1, <2>2, HandlerKept DEF LeavesQueue
  <2> QED BY <2>3, <2>4 DEF TimersBase
<1> QED BY <1>1, <1>2, <1>3, <1>4, <1>5, <1>6, <1>7, <1>8, <1>9, <1>10, <1>11, <1>12, <1>13
        DEF TimerNext, TimerStep

\* The queue's invariant and the timers' hold in every state.
LEMMA TimerInvAlways == TimerSpec => [](Inv /\ TimersBase)
<1>1. Inv /\ TimersBase /\ [TimerNext]_timerVars => (Inv /\ TimersBase)'
  BY BaseNext, TimerQueueStep, QueueInv
<1> QED BY BaseInit, <1>1, PTL DEF TimerSpec

\* The timeout queue keeps its types when timers use it.
THEOREM TimerTypes == TimerSpec => []TypeOK
BY TimerInvAlways, InvTypes, PTL

\* On one CPU every timer and every timeout expires within the ticks that its
\* caller may expect: k_timer_start() and the restart in
\* z_timer_expiration_handler() round in a way that is neither early nor late.
THEOREM TimersOnTime ==
    ASSUME OneCPU
    PROVE  TimerSpec => []OnTime
<1>1. TimerInit => NeverEarly
  <2>1. TimerInit => Linked = {}
    BY DEF TimerInit, Init, Linked, Range
  <2> QED BY <2>1 DEF NeverEarly
<1>2. Inv /\ TimersBase /\ NeverEarly /\ [TimerNext]_timerVars => NeverEarly'
  BY OneCPU, TimerQueueStep, QueueInv
<1>3. Inv /\ NeverEarly => OnTime
  BY DEF Inv, OnTime
<1> QED BY TimerInvAlways, <1>1, <1>2, <1>3, PTL DEF TimerSpec

-----------------------------------------------------------------------------
(* The thread in k_timer_status_sync(). *)

\* The three reasons for which the thread will be woken.
Running == waiting \in Linked
Expiring == \E c \in CPUs : pc[c] = "callback" /\ cb[c] = waiting /\ handler[c] # "done"
Called == \E who \in Callers : call[who].timer = waiting

\* Every step leaves one of them.
LEMMA StrandedNext ==
    ASSUME Inv, TimersBase, NoWaiterStranded, [TimerNext]_timerVars
    PROVE  NoWaiterStranded'
<1>0. /\ HandlerInv /\ call \in [Callers -> {NoCall} \union StartCall \union StopCall]
      /\ handler \in [CPUs -> {"enter", "fn", "wake", "done"}]
      /\ sync # "out" => waiting \in Timers
      /\ sync = "pend" /\ ~failed => Running \/ Expiring \/ Called
      /\ NULL \notin Timers /\ Timers \subseteq Timeouts
  BY KTimerAssumption, TimeoutQAssumption
     DEF TimersBase, TimersType, NoWaiterStranded, Running, Expiring, Called
<1> SUFFICES ASSUME sync' = "pend", ~failed' PROVE Running' \/ Expiring' \/ Called'
  BY DEF NoWaiterStranded, Running, Expiring, Called
<1>b. ~failed
  BY DEF TimerNext, timerVars, timerOnly
<1>c. sync = "pend" => Running \/ Expiring \/ Called
  BY <1>0, <1>b
<1>1. CASE UNCHANGED timerVars
  <2>1. UNCHANGED timerOnly /\ LeavesQueue
    BY <1>1, QueueMoves DEF timerVars
  <2> QED BY <1>0, <1>c, <2>1 DEF timerOnly, LeavesQueue, Running, Expiring, Called
<1>2. CASE Rest
  <2>1. Enters /\ UNCHANGED timerOnly
    BY <1>2, RestEnters
  <2>2. UNCHANGED <<handler, call, waiting, sync>> /\ waiting \in Timers
    BY <1>0, <1>c, <2>1 DEF timerOnly
  <2>3. CASE Called
    BY <2>2, <2>3 DEF Called
  <2>4. CASE Expiring
    BY <2>1, <2>2, <2>4 DEF Enters, Expiring
  <2>5. CASE Running
    BY <1>0, <1>c, <2>1, <2>2, <2>5 DEF Enters, Running, Expiring, HandlerInv
  <2> QED BY <1>0, <1>c, <2>2, <2>3, <2>4, <2>5
<1>3. ASSUME NEW c \in CPUs, HandlerRestart(c) PROVE Running' \/ Expiring' \/ Called'
  <2>1. LeavesQueue \/ AddsOnly(cb[c])
    BY <1>3, OwnMoves
  <2>2. pc' = pc /\ cb' = cb /\ Linked \subseteq Linked'
    BY <2>1 DEF LeavesQueue, AddsOnly
  <2>3. UNCHANGED <<call, waiting, sync>> /\ handler' = [handler EXCEPT ![c] = "fn"]
    BY <1>3 DEF HandlerRestart
  <2> QED BY <1>0, <1>c, <2>2, <2>3 DEF Running, Expiring, Called
<1>4. ASSUME NEW c \in CPUs, ExpiryFnReturn(c) PROVE Running' \/ Expiring' \/ Called'
  <2>1. LeavesQueue
    BY <1>4, OwnMoves
  <2>2. UNCHANGED <<call, waiting, sync>> /\ handler' = [handler EXCEPT ![c] = "wake"]
    BY <1>4 DEF ExpiryFnReturn
  <2> QED BY <1>0, <1>c, <2>1, <2>2 DEF LeavesQueue, Running, Expiring, Called
<1>5. ASSUME NEW c \in CPUs, HandlerWake(c) PROVE Running' \/ Expiring' \/ Called'
  <2>1. LeavesQueue
    BY <1>5, OwnMoves
  <2>2. /\ UNCHANGED <<call, waiting>> /\ handler' = [handler EXCEPT ![c] = "done"]
        /\ sync' = IF waiting = cb[c] /\ sync = "pend" THEN "woken" ELSE sync
    BY <1>5 DEF HandlerWake, WakeOne
  <2>3. sync = "pend" /\ waiting # cb[c]
    BY <2>2
  <2> QED BY <1>0, <1>c, <2>1, <2>2, <2>3 DEF LeavesQueue, Running, Expiring, Called
<1>6. ASSUME NEW c \in CPUs, HandlerReturn(c) PROVE Running' \/ Expiring' \/ Called'
  <2>1. Turns(c)
    BY <1>6, OwnMoves
  <2>2. /\ cb[c] \in Timers => handler[c] = "done"
        /\ UNCHANGED <<call, waiting, sync>> /\ handler' = [handler EXCEPT ![c] = "enter"]
    BY <1>6 DEF HandlerReturn
  <2>3. sync = "pend" /\ waiting \in Timers
    BY <1>0, <1>c, <2>2
  <2>4. CASE Called
    BY <2>2, <2>4 DEF Called
  <2>5. CASE Expiring
    BY <1>0, <1>c, <2>1, <2>2, <2>3, <2>5 DEF Turns, Expiring
  <2>6. CASE Running
    BY <1>0, <1>c, <2>1, <2>2, <2>3, <2>6 DEF Turns, Running, Expiring
  <2> QED BY <1>0, <1>c, <2>3, <2>4, <2>5, <2>6
<1>7. ASSUME NEW c \in CPUs, SyncReturn(c) PROVE FALSE
  BY <1>7 DEF SyncReturn
<1>8. ASSUME NEW c \in CPUs, NEW who \in Callers, StartAdd(c, who)
      PROVE  Running' \/ Expiring' \/ Called'
  <2>1. AddsOnly(call[who].timer)
    BY <1>8, OwnMoves
  <2>2. UNCHANGED <<handler, waiting, sync>> /\ call' = [call EXCEPT ![who] = NoCall]
    BY <1>8 DEF StartAdd
  <2> QED BY <1>0, <1>c, <2>1, <2>2 DEF AddsOnly, Running, Expiring, Called
<1>9. ASSUME NEW c \in CPUs, NEW who \in Callers, StopWake(c, who)
      PROVE  Running' \/ Expiring' \/ Called'
  <2>1. LeavesQueue
    BY <1>9, OwnMoves
  <2>2. /\ UNCHANGED <<handler, waiting>> /\ call' = [call EXCEPT ![who] = NoCall]
        /\ sync' = IF waiting = call[who].timer /\ sync = "pend" THEN "woken" ELSE sync
    BY <1>9 DEF StopWake, WakeOne
  <2>3. sync = "pend" /\ waiting # call[who].timer
    BY <2>2
  <2> QED BY <1>0, <1>c, <2>1, <2>2, <2>3 DEF LeavesQueue, Running, Expiring, Called
<1>10. ASSUME NEW c \in CPUs, NEW to \in Timers, SyncPend(c, to) PROVE Running'
  <2>1. LeavesQueue
    BY <1>10, OwnMoves
  <2>2. to \in Linked /\ waiting' = to
    BY <1>10 DEF SyncPend
  <2> QED BY <2>1, <2>2 DEF LeavesQueue, Running
<1>11. ASSUME NEW c \in CPUs, NEW to \in Timers, k_timer_status_get(c, to)
       PROVE  Running' \/ Expiring' \/ Called'
  <2>1. LeavesQueue
    BY <1>11, OwnMoves
  <2>2. UNCHANGED <<handler, call, waiting, sync>>
    BY <1>11 DEF k_timer_status_get
  <2> QED BY <1>0, <1>c, <2>1, <2>2 DEF LeavesQueue, Running, Expiring, Called
<1>12. ASSUME NEW who \in Callers, NEW to \in Timers, NEW new,
              DropsOnly(to), call[who] = NoCall, call' = [call EXCEPT ![who] = new],
              new.timer = to, UNCHANGED <<handler, waiting, sync>>
       PROVE  Running' \/ Expiring' \/ Called'
  <2>1. call[who].timer \notin Timers /\ call'[who].timer = to
    BY <1>0, <1>c, <1>12 DEF NoCall
  <2>2. \A w \in Callers : w # who => call'[w] = call[w]
    BY <1>0, <1>c, <1>12
  <2>3. sync = "pend" /\ waiting \in Timers
    BY <1>0, <1>c, <1>12
  <2>4. CASE waiting = to
    BY <1>12, <2>1, <2>4 DEF Called
  <2>5. CASE waiting # to
    BY <1>0, <1>c, <1>12, <2>1, <2>2, <2>3, <2>5 DEF DropsOnly, Running, Expiring, Called
  <2> QED BY <2>4, <2>5
<1>13. ASSUME NEW c \in CPUs, NEW who \in Callers, NEW to \in Timers,
              StopAbort(c, who, to)
       PROVE  Running' \/ Expiring' \/ Called'
  <2>1. /\ DropsOnly(to) /\ call[who] = NoCall
        /\ call' = [call EXCEPT ![who] = [NoCall EXCEPT !.op = "stop", !.timer = to]]
        /\ UNCHANGED <<handler, waiting, sync>>
    BY <1>13, OwnMoves DEF StopAbort
  <2>2. [NoCall EXCEPT !.op = "stop", !.timer = to].timer = to
    BY DEF NoCall
  <2> QED BY <1>12, <2>1, <2>2
<1>14. ASSUME NEW c \in CPUs, NEW who \in Callers, NEW to \in Timers,
              NEW d \in Durations, NEW p \in Periods, StartAbort(c, who, to, d, p)
       PROVE  Running' \/ Expiring' \/ Called'
  <2> DEFINE new == [op |-> "start", timer |-> to, d |-> d, p |-> p]
  <2>1. /\ DropsOnly(to) /\ call[who] = NoCall
        /\ call' = [call EXCEPT ![who] = new]
        /\ UNCHANGED <<handler, waiting, sync>>
    BY <1>14, OwnMoves DEF StartAbort
  <2>2. new.timer = to
    OBVIOUS
  <2> HIDE DEF new
  <2> QED BY <1>12, <2>1, <2>2
<1>15. ASSUME NEW c \in CPUs, NEW who \in Callers, StartStore(c, who)
       PROVE  Running' \/ Expiring' \/ Called'
  <2>1. LeavesQueue
    BY <1>15, OwnMoves
  <2>2. /\ UNCHANGED <<handler, waiting, sync>>
        /\ \A w \in Callers : call'[w].timer = call[w].timer
    <3>1. call' = [call EXCEPT ![who] = [call[who] EXCEPT !.op = "add"]]
          /\ call[who].op = "start"
      BY <1>15 DEF StartStore
    <3>2. call[who] \in StartCall
      BY <1>0, <3>1 DEF NoCall, StopCall
    <3> QED BY <1>0, <1>15, <3>1, <3>2 DEF StartStore, StartCall
  <2> QED BY <1>0, <1>c, <2>1, <2>2 DEF LeavesQueue, Running, Expiring, Called
<1>16. ASSUME NEW c \in CPUs, AddFails(c) PROVE FALSE
  BY <1>16 DEF AddFails
<1> QED BY <1>1, <1>2, <1>3, <1>4, <1>5, <1>6, <1>7, <1>8, <1>9, <1>10, <1>11, <1>13, <1>14,
           <1>15, <1>16
        DEF TimerNext, TimerStep

\* No thread waits in k_timer_status_sync() for a timer that is idle: whatever
\* the expiry handler, the expiry function and any number of threads in
\* k_timer_start() and k_timer_stop() do between their critical sections, on any
\* number of CPUs, until the assertion of a double start stops the system.
THEOREM WaitersNotStranded == TimerSpec => []NoWaiterStranded
<1>1. TimerInit => NoWaiterStranded
  BY DEF TimerInit, NoWaiterStranded
<1>2. Inv /\ TimersBase /\ NoWaiterStranded /\ [TimerNext]_timerVars => NoWaiterStranded'
  BY StrandedNext
<1> QED BY TimerInvAlways, <1>1, <1>2, PTL DEF TimerSpec

\* On one CPU a thread runs only outside every callback.
LEMMA ThreadAlone ==
    ASSUME OneCPU, NEW c \in CPUs, pc[c] = "thread"
    PROVE  \A k \in CPUs : pc[k] # "callback"
BY DEF OneCPU

\* Every step keeps what k_timer_status_sync() relies on.
LEMMA SyncNext ==
    ASSUME OneCPU, Inv, TimersBase, SyncInv, [TimerNext]_timerVars
    PROVE  SyncInv'
<1>0. /\ HandlerInv /\ call \in [Callers -> {NoCall} \union StartCall \union StopCall]
      /\ handler \in [CPUs -> {"enter", "fn", "wake", "done"}]
      /\ status \in [Timers -> Nat]
      /\ sync # "out" => waiting \in Timers
      /\ sync \in {"out", "pend", "woken"} /\ touched \in BOOLEAN
      /\ NULL \notin Timers /\ Timers \subseteq Timeouts
      /\ NoCall.op = "none" /\ NoCall.timer = NULL
  BY KTimerAssumption, TimeoutQAssumption DEF TimersBase, TimersType, NoCall
<1>a. StopTouches /\ ExpiryCounts /\ WokenFinds
  BY DEF SyncInv
<1>1. CASE UNCHANGED timerVars
  <2>1. UNCHANGED timerOnly /\ LeavesQueue
    BY <1>1, QueueMoves DEF timerVars
  <2>2. UNCHANGED <<status, handler, call, waiting, sync, touched>> /\ UNCHANGED <<pc, cb>>
        /\ Linked' = Linked
    BY <2>1 DEF timerOnly, LeavesQueue
  <2>3. StopTouches'
    BY <1>a, <2>2 DEF StopTouches
  <2>4. ExpiryCounts' /\ WokenFinds'
    BY <1>a, <2>2 DEF ExpiryCounts, WokenFinds
  <2> QED BY <2>3, <2>4 DEF SyncInv
<1>2. CASE Rest
  <2>1. Enters /\ UNCHANGED <<status, handler, call, waiting, sync, touched>>
    BY <1>2, RestEnters DEF timerOnly
  <2>4. StopTouches' /\ WokenFinds'
    BY <1>a, <2>1 DEF StopTouches, WokenFinds
  <2>5. ExpiryCounts'
    BY <1>0, <1>a, <2>1 DEF ExpiryCounts, Enters, HandlerInv
  <2> QED BY <2>4, <2>5 DEF SyncInv
<1>3. ASSUME NEW c \in CPUs, HandlerRestart(c) PROVE SyncInv'
  <2>1. LeavesQueue \/ AddsOnly(cb[c])
    BY <1>3, OwnMoves
  <2>2. pc' = pc /\ cb' = cb /\ Linked' \subseteq Linked \union {cb[c]}
    BY <2>1 DEF LeavesQueue, AddsOnly
  <2>3. /\ pc[c] = "callback" /\ cb[c] \in Timers /\ handler[c] = "enter"
        /\ handler' = [handler EXCEPT ![c] = "fn"]
        /\ status' = [status EXCEPT ![cb[c]] = @ + 1]
        /\ UNCHANGED <<call, waiting, sync, touched>>
    BY <1>3 DEF HandlerRestart
  <2>4. \A to \in Timers : status[to] # 0 => status'[to] # 0
    BY <1>0, <2>3
  <2>5. status'[cb[c]] # 0
    BY <1>0, <2>3
  <2>8. StopTouches'
    BY <1>a, <2>3 DEF StopTouches
  <2>9. WokenFinds'
    BY <1>0, <1>a, <2>3, <2>4 DEF WokenFinds
  <2>10. ExpiryCounts'
    BY <1>0, <1>a, <2>2, <2>3, <2>4, <2>5 DEF ExpiryCounts
  <2> QED BY <2>8, <2>9, <2>10 DEF SyncInv
<1>4. ASSUME NEW c \in CPUs, ExpiryFnReturn(c) PROVE SyncInv'
  <2>1. pc' = pc /\ cb' = cb /\ Linked' = Linked
    BY <1>4, OwnMoves DEF LeavesQueue
  <2>2. /\ handler[c] = "fn"
        /\ handler' = [handler EXCEPT ![c] = "wake"]
        /\ UNCHANGED <<status, call, waiting, sync, touched>>
    BY <1>4 DEF ExpiryFnReturn
  <2>4. StopTouches' /\ WokenFinds'
    BY <1>a, <2>2 DEF StopTouches, WokenFinds
  <2>5. ExpiryCounts'
    BY <1>0, <1>a, <2>1, <2>2 DEF ExpiryCounts
  <2> QED BY <2>4, <2>5 DEF SyncInv
<1>5. ASSUME NEW c \in CPUs, HandlerWake(c) PROVE SyncInv'
  <2>1. pc' = pc /\ cb' = cb /\ Linked' = Linked
    BY <1>5, OwnMoves DEF LeavesQueue
  <2>2. /\ handler[c] = "wake" /\ handler' = [handler EXCEPT ![c] = "done"]
        /\ sync' = IF waiting = cb[c] /\ sync = "pend" THEN "woken" ELSE sync
        /\ UNCHANGED <<status, call, waiting, touched>>
    BY <1>5 DEF HandlerWake, WakeOne
  <2>5. StopTouches'
    BY <1>a, <2>2 DEF StopTouches
  <2>6. ExpiryCounts'
    BY <1>0, <1>a, <2>1, <2>2 DEF ExpiryCounts
  <2>7. WokenFinds'
    BY <1>0, <1>a, <2>2 DEF ExpiryCounts, WokenFinds
  <2> QED BY <2>5, <2>6, <2>7 DEF SyncInv
<1>6. ASSUME NEW c \in CPUs, HandlerReturn(c) PROVE SyncInv'
  <2>1. Turns(c)
    BY <1>6, OwnMoves
  <2>2. /\ cb[c] \in Timers => handler[c] = "done" /\ pc[c] = "callback"
        /\ handler' = [handler EXCEPT ![c] = "enter"]
        /\ UNCHANGED <<status, call, waiting, sync, touched>>
    BY <1>6 DEF HandlerReturn, CallbackReturn
  <2>3. handler[c] # "fn"
    BY <1>0, <2>2 DEF HandlerInv
  <2>6. StopTouches' /\ WokenFinds'
    BY <1>a, <2>2 DEF StopTouches, WokenFinds
  <2>7. ExpiryCounts'
    BY <1>0, <1>a, <2>1, <2>2 DEF ExpiryCounts, Turns
  <2> QED BY <2>6, <2>7 DEF SyncInv
<1>7. ASSUME NEW c \in CPUs, SyncReturn(c) PROVE SyncInv'
  <2>1. pc' = pc /\ cb' = cb /\ Linked' = Linked
    BY <1>7, OwnMoves DEF LeavesQueue
  <2>2. sync' = "out" /\ UNCHANGED <<handler, call>>
    BY <1>7 DEF SyncReturn
  <2>4. StopTouches' /\ ExpiryCounts' /\ WokenFinds'
    BY <2>2 DEF StopTouches, ExpiryCounts, WokenFinds
  <2> QED BY <2>4 DEF SyncInv
<1>8. ASSUME NEW c \in CPUs, NEW who \in Callers, StartStore(c, who) PROVE SyncInv'
  <2> DEFINE to == call[who].timer
  <2>1. pc' = pc /\ cb' = cb
    BY <1>8, OwnMoves DEF LeavesQueue
  <2>2. /\ call[who].op = "start"
        /\ status' = [status EXCEPT ![to] = 0]
        /\ call' = [call EXCEPT ![who] = [call[who] EXCEPT !.op = "add"]]
        /\ touched' = (touched \/ waiting = to)
        /\ UNCHANGED <<handler, waiting, sync>>
    BY <1>8 DEF StartStore
  <2>3. call'[who].op = "add" /\ \A w \in Callers : w # who => call'[w] = call[w]
    <3>1. call[who] \in StartCall
      BY <1>0, <2>2 DEF StopCall
    <3> QED BY <1>0, <2>2, <3>1 DEF StartCall
  <2> HIDE DEF to
  <2>4. \A u \in Timers : status'[u] = status[u] \/ u = to
    BY <1>0, <2>2
  <2>5. StopTouches'
    BY <1>a, <2>2, <2>3 DEF StopTouches
  <2>6. ExpiryCounts'
    BY <1>0, <1>a, <2>1, <2>2, <2>4 DEF ExpiryCounts
  <2>7. WokenFinds'
    BY <1>0, <1>a, <2>2, <2>4 DEF WokenFinds
  <2> QED BY <2>5, <2>6, <2>7 DEF SyncInv
<1>9. ASSUME NEW c \in CPUs, NEW who \in Callers, StopWake(c, who) PROVE SyncInv'
  <2>1. pc' = pc /\ cb' = cb /\ Linked' = Linked
    BY <1>9, OwnMoves DEF LeavesQueue
  <2>2. /\ call[who].op = "stop" /\ call' = [call EXCEPT ![who] = NoCall]
        /\ sync' = IF waiting = call[who].timer /\ sync = "pend" THEN "woken" ELSE sync
        /\ UNCHANGED <<status, handler, waiting, touched>>
    BY <1>9 DEF StopWake, WakeOne
  <2>3. \A w \in Callers : call'[w] = NoCall \/ (w # who /\ call'[w] = call[w])
    BY <1>0, <2>2
  <2>5. StopTouches'
    BY <1>0, <1>a, <2>2, <2>3 DEF StopTouches
  <2>6. ExpiryCounts'
    BY <1>a, <2>1, <2>2 DEF ExpiryCounts
  <2>7. WokenFinds'
    BY <1>a, <2>2 DEF WokenFinds, StopTouches
  <2> QED BY <2>5, <2>6, <2>7 DEF SyncInv
<1>10. ASSUME NEW c \in CPUs, NEW to \in Timers, SyncPend(c, to) PROVE SyncInv'
  <2>1. pc' = pc /\ cb' = cb /\ Linked' = Linked
    BY <1>10, OwnMoves DEF LeavesQueue
  <2>2. /\ pc[c] = "thread" /\ to \in Linked /\ sync' = "pend" /\ waiting' = to
        /\ touched' = (\E who \in Callers : call[who].op = "stop" /\ call[who].timer = to)
        /\ UNCHANGED <<status, handler, call>>
    BY <1>10 DEF SyncPend
  <2>3. \A k \in CPUs : pc[k] # "callback"
    BY <2>2, ThreadAlone
  <2>5. StopTouches'
    BY <2>2 DEF StopTouches
  <2>6. ExpiryCounts' /\ WokenFinds'
    BY <1>0, <2>2, <2>3 DEF ExpiryCounts, WokenFinds, HandlerInv
  <2> QED BY <2>5, <2>6 DEF SyncInv
<1>11. ASSUME NEW c \in CPUs, NEW to \in Timers, k_timer_status_get(c, to) PROVE SyncInv'
  <2>1. pc' = pc /\ cb' = cb /\ Linked' = Linked
    BY <1>11, OwnMoves DEF LeavesQueue
  <2>2. /\ waiting # to /\ status' = [status EXCEPT ![to] = 0]
        /\ UNCHANGED <<handler, call, waiting, sync, touched>>
    BY <1>11 DEF k_timer_status_get
  <2>3. StopTouches'
    BY <1>a, <2>1, <2>2 DEF StopTouches
  <2>4. sync # "out" => status'[waiting] = status[waiting]
    BY <1>0, <2>2
  <2>5. ExpiryCounts' /\ WokenFinds'
    BY <1>a, <2>1, <2>2, <2>4 DEF ExpiryCounts, WokenFinds
  <2> QED BY <2>3, <2>5 DEF SyncInv
<1>12. ASSUME NEW c \in CPUs, NEW who \in Callers, NEW to \in Timers, NEW new,
              MayCall(c, who, to), DropsOnly(to), call[who] = NoCall,
              call' = [call EXCEPT ![who] = new], new.timer = to,
              touched' = (touched \/ waiting = to), UNCHANGED <<status, handler, waiting, sync>>
       PROVE  SyncInv'
  <2>1. pc' = pc /\ cb' = cb /\ Linked' = Linked \ {to}
    BY <1>12 DEF DropsOnly
  <2>2. call'[who] = new /\ \A w \in Callers : w # who => call'[w] = call[w]
    BY <1>0, <1>12
  <2>5. StopTouches'
    BY <1>a, <1>12, <2>2 DEF StopTouches
  <2>6. ExpiryCounts' /\ WokenFinds'
    BY <1>a, <1>12, <2>1 DEF ExpiryCounts, WokenFinds
  <2> QED BY <2>5, <2>6 DEF SyncInv
<1>13. ASSUME NEW c \in CPUs, NEW who \in Callers, NEW to \in Timers,
              StopAbort(c, who, to)
       PROVE  SyncInv'
  <2>1. /\ MayCall(c, who, to) /\ DropsOnly(to) /\ call[who] = NoCall
        /\ call' = [call EXCEPT ![who] = [NoCall EXCEPT !.op = "stop", !.timer = to]]
        /\ touched' = (touched \/ waiting = to)
        /\ UNCHANGED <<status, handler, waiting, sync>>
    BY <1>13, OwnMoves DEF StopAbort
  <2>2. [NoCall EXCEPT !.op = "stop", !.timer = to].timer = to
    BY DEF NoCall
  <2> QED BY <1>12, <2>1, <2>2
<1>14. ASSUME NEW c \in CPUs, NEW who \in Callers, NEW to \in Timers,
              NEW d \in Durations, NEW p \in Periods, StartAbort(c, who, to, d, p)
       PROVE  SyncInv'
  <2> DEFINE new == [op |-> "start", timer |-> to, d |-> d, p |-> p]
  <2>1. /\ MayCall(c, who, to) /\ DropsOnly(to) /\ call[who] = NoCall
        /\ call' = [call EXCEPT ![who] = new]
        /\ touched' = (touched \/ waiting = to)
        /\ UNCHANGED <<status, handler, waiting, sync>>
    BY <1>14, OwnMoves DEF StartAbort
  <2>2. new.timer = to
    OBVIOUS
  <2> HIDE DEF new
  <2> QED BY <1>12, <2>1, <2>2
<1>15. ASSUME NEW c \in CPUs, NEW who \in Callers, StartAdd(c, who) PROVE SyncInv'
  <2>1. pc' = pc /\ cb' = cb
    BY <1>15, OwnMoves DEF AddsOnly
  <2>2. /\ call' = [call EXCEPT ![who] = NoCall]
        /\ UNCHANGED <<status, handler, waiting, sync, touched>>
    BY <1>15 DEF StartAdd
  <2>3. \A w \in Callers : call'[w] = NoCall \/ call'[w] = call[w]
    BY <1>0, <2>2
  <2>4. StopTouches'
    BY <1>0, <1>a, <2>2, <2>3 DEF StopTouches
  <2>5. ExpiryCounts' /\ WokenFinds'
    BY <1>a, <2>1, <2>2 DEF ExpiryCounts, WokenFinds
  <2> QED BY <2>4, <2>5 DEF SyncInv
<1>16. ASSUME NEW c \in CPUs, AddFails(c) PROVE SyncInv'
  <2>1. pc' = pc /\ cb' = cb
    BY <1>16, OwnMoves DEF LeavesQueue
  <2>2. UNCHANGED <<status, handler, call, waiting, sync, touched>>
    BY <1>16 DEF AddFails
  <2>3. StopTouches'
    BY <1>a, <2>2 DEF StopTouches
  <2>4. ExpiryCounts' /\ WokenFinds'
    BY <1>a, <2>1, <2>2 DEF ExpiryCounts, WokenFinds
  <2> QED BY <2>3, <2>4 DEF SyncInv
<1> QED BY <1>1, <1>2, <1>3, <1>4, <1>5, <1>6, <1>7, <1>8, <1>9, <1>10, <1>11, <1>13, <1>14,
           <1>15, <1>16
        DEF TimerNext, TimerStep

\* On one CPU k_timer_status_sync() returns only after an expiry that it
\* reports, or after its timer was started or stopped under it, although an
\* expiry, a start and a stop reach the waiting thread in sections of their own.
THEOREM SyncIsTruthful ==
    ASSUME OneCPU
    PROVE  TimerSpec => SyncTellsTruth
<1>1. TimerInit => SyncInv
  BY DEF TimerInit, SyncInv, StopTouches, ExpiryCounts, WokenFinds, NoCall
<1>2. Inv /\ TimersBase /\ SyncInv /\ [TimerNext]_timerVars => SyncInv'
  BY OneCPU, SyncNext
<1>3. SyncInv =>
        [sync = "woken" /\ sync' = "out" => status[waiting] # 0 \/ touched]_timerVars
  BY DEF SyncInv, WokenFinds
<1> QED BY TimerInvAlways, <1>1, <1>2, <1>3, PTL DEF TimerSpec, SyncTellsTruth

=============================================================================
