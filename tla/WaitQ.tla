------------------------------- MODULE WaitQ -------------------------------
(***************************************************************************)
(* Waiting for a kernel object on one CPU: kernel/sched.c as the objects   *)
(* of kernel/*.c use it.  Each object's module has this module's variables *)
(* as its state, so that one specification can be about any of them.       *)
(*                                                                         *)
(* One step is one section of an object's lock.  Interrupts are off in it, *)
(* and z_pend_curr() gives the CPU away before they are on again.  A call  *)
(* that waits is a second step from the moment the thread runs again to    *)
(* its return; other threads and interrupts may come before that.  Any     *)
(* thread that can run may run.  A call that does not wait may come from   *)
(* an interrupt handler, so these actions name no thread.                  *)
(***************************************************************************)
EXTENDS Integers, Sequences, SequencesExt, FiniteSets, FiniteSetsExt

CONSTANTS Threads,
          Prio,      \* the priority of each thread; lower is more urgent
          Items,     \* what the callers pass: messages, data, blocks
          NULL

ASSUME WaitQAssumption ==
    /\ Prio \in [Threads -> Int]
    /\ NULL \notin Items \union Threads
    /\ IsFiniteSet(Threads) /\ IsFiniteSet(Items)

VARIABLES
    th,        \* the threads
    wait_q,    \* the object's wait queue
    obj,       \* the object
    held       \* history: items that were accepted and not yet delivered

wqVars == <<th, wait_q, obj, held>>

\* A thread runs, pends, or was woken and has not returned.  data is its
\* base.swap_data, ret the return value set for z_pend_curr, armed its timeout.
Running == [st |-> "run", op |-> "none", data |-> NULL, ret |-> "0", armed |-> FALSE]

Runs(t) == th[t].st = "run"
Pends(t) == th[t].st = "pend"
Woken(t) == th[t].st = "woken"

\* z_priq_dumb_add: behind the threads of the same or a better priority.
InsertByPrio(s, t) ==
    LET worse == {i \in 1..Len(s) : Prio[t] < Prio[s[i]]}
    IN  InsertAt(s, IF worse = {} THEN Len(s) + 1 ELSE Min(worse), t)

\* sys_dlist_remove, for one that is in no list twice
Without(s, t) ==
    LET places == {i \in 1..Len(s) : s[i] = t}
    IN  IF places = {} THEN s ELSE RemoveAt(s, CHOOSE i \in places : TRUE)

\* z_pend_curr up to the switch, with -EAGAIN as the default result.
Pended(op, data, timed) ==
    [st |-> "pend", op |-> op, data |-> data, ret |-> "EAGAIN", armed |-> timed]

z_pend_curr(t, op, data, timed) ==
    /\ Runs(t)
    /\ th' = [th EXCEPT ![t] = Pended(op, data, timed)]
    /\ wait_q' = InsertByPrio(wait_q, t)

\* z_unpend_first_thread or z_unpend_thread, which cancel the timeout, then
\* z_thread_return_value_set_with_data and z_ready_thread.
WokenWith(t, ret, data) ==
    [th[t] EXCEPT !.st = "woken", !.ret = ret, !.data = data, !.armed = FALSE]

\* The same for a whole set of threads, whose data stays.
WokenAll(S, ret) ==
    [t \in Threads |-> IF t \in S THEN WokenWith(t, ret, th[t].data) ELSE th[t]]

\* z_thread_timeout
Timeout(t) ==
    /\ Pends(t) /\ th[t].armed
    /\ th' = [th EXCEPT ![t].st = "woken", ![t].armed = FALSE]
    /\ wait_q' = Without(wait_q, t)
    /\ UNCHANGED <<obj, held>>

WaitInit == th = [t \in Threads |-> Running] /\ wait_q = <<>>

\* The threads of the wait queue are those that pend.
Waiters == Range(wait_q)
=============================================================================
