-------------------------------- MODULE Poll --------------------------------
(***************************************************************************)
(* k_poll and poll signals, kernel/poll.c, on one CPU.  obj.met says which *)
(* of the objects have their condition met and obj.events lists the        *)
(* registered events, each a thread and its index in that thread's array.  *)
(* A thread in k_poll has as data its array, the next event to register,   *)
(* the number registered, the events whose state says ready and cancelled, *)
(* and poller->is_polling.  Its op is "wait" once it pended.  Registration *)
(* and its undoing release the lock after every event.  held has, for each *)
(* object, the threads that were told of it since its condition was last   *)
(* not met.                                                                *)
(*                                                                         *)
(* A wait with K_FOREVER is one whose timeout does not expire.  Triggered  *)
(* work (k_work_poll) and K_NO_WAIT, which only looks, are left out.       *)
(***************************************************************************)
EXTENDS WaitQ

CONSTANTS PollObjects,   \* the semaphores, queues and signals
          Pollers        \* the threads that poll

ASSUME PollAssumption == Pollers \subseteq Threads

Event(t, i) == [thread |-> t, index |-> i]

\* add_event: by priority, behind the events of the same priority.
InsertEvent(s, e) ==
    LET worse == {i \in 1..Len(s) : Prio[e.thread] < Prio[s[i].thread]}
    IN  InsertAt(s, IF worse = {} THEN Len(s) + 1 ELSE Min(worse), e)

k_poll(t, events) ==
    /\ Runs(t)
    /\ th' = [th EXCEPT ![t].st = "register", ![t].op = "poll",
                        ![t].data = [events |-> events, next |-> 1, registered |-> 0,
                                     ready |-> {}, cancelled |-> {}, is_polling |-> TRUE]]
    /\ UNCHANGED <<wait_q, obj, held>>

\* One turn of the loop of register_events.
RegisterEvent(t) ==
    LET d == th[t].data
        o == d.events[d.next]
    IN  /\ th[t].st = "register" /\ d.next <= Len(d.events)
        /\ IF obj.met[o]
           THEN /\ th' = [th EXCEPT ![t].data = [d EXCEPT !.ready = @ \union {d.next},
                                                          !.is_polling = FALSE, !.next = @ + 1]]
                /\ UNCHANGED obj
           ELSE IF d.is_polling
           THEN /\ obj' = [obj EXCEPT !.events[o] = InsertEvent(@, Event(t, d.next))]
                /\ th' = [th EXCEPT ![t].data = [d EXCEPT !.registered = @ + 1, !.next = @ + 1]]
           ELSE th' = [th EXCEPT ![t].data.next = @ + 1] /\ UNCHANGED obj
        /\ UNCHANGED <<wait_q, held>>

\* The section after the loop: something is ready already, or the thread waits.
PollWait(t) ==
    LET d == th[t].data
    IN  /\ th[t].st = "register" /\ d.next > Len(d.events)
        /\ IF ~d.is_polling
           THEN th' = [th EXCEPT ![t].st = "woken"] /\ UNCHANGED wait_q
           ELSE /\ th' = [th EXCEPT ![t] = Pended("wait", [d EXCEPT !.is_polling = FALSE], TRUE)]
                /\ wait_q' = InsertByPrio(wait_q, t)
        /\ UNCHANGED <<obj, held>>

\* One turn of the loop of clear_event_registrations.
ClearEvent(t) ==
    LET d == th[t].data
        o == d.events[d.registered]
    IN  /\ Woken(t) /\ d.registered > 0
        /\ obj' = [obj EXCEPT !.events[o] = Without(@, Event(t, d.registered))]
        /\ th' = [th EXCEPT ![t].data.registered = @ - 1]
        /\ UNCHANGED <<wait_q, held>>

PollReturn(t) ==
    /\ Woken(t) /\ th[t].data.registered = 0
    /\ th' = [th EXCEPT ![t] = Running]
    /\ UNCHANGED <<wait_q, obj, held>>

-----------------------------------------------------------------------------
\* signal_poll_event, signal_poller, set_event_ready: the threads afterwards.  A
\* cancelled event gives a thread that pends -EINTR; one that still registers
\* keeps the result 0.
Signalled(e, cancel) ==
    LET t == e.thread
        d == [th[t].data EXCEPT !.ready = IF cancel THEN @ ELSE @ \union {e.index},
                                !.cancelled = IF cancel THEN @ \union {e.index} ELSE @,
                                !.is_polling = FALSE]
    IN  IF Pends(t) THEN [th EXCEPT ![t] = WokenWith(t, IF cancel THEN "EINTR" ELSE "0", d)]
        ELSE [th EXCEPT ![t].data = d]

\* z_handle_obj_poll_events: the first registered event is taken and signalled.
HandlePollEvents(o, met, cancel) ==
    LET list == obj.events[o]
    IN  /\ obj' = [obj EXCEPT !.met[o] = met, !.events[o] = IF list = <<>> THEN @ ELSE Tail(@)]
        /\ IF list = <<>> THEN UNCHANGED <<th, wait_q, held>>
           ELSE /\ th' = Signalled(Head(list), cancel)
                /\ wait_q' = Without(wait_q, Head(list).thread)
                /\ held' = IF met THEN [held EXCEPT ![o] = @ \union {Head(list).thread}]
                           ELSE held

\* k_poll_signal_raise, and k_sem_give, queue_insert or k_msgq_put that find
\* nobody waiting for the object itself.
Raise(o) == HandlePollEvents(o, TRUE, FALSE)

\* k_queue_append_list whose items all went to waiting threads: it tells a poller
\* that there is data all the same.
AppendedAndTaken(o) == obj.events[o] # <<>> /\ HandlePollEvents(o, obj.met[o], FALSE)

\* k_queue_cancel_wait
CancelWait(o) == obj.events[o] # <<>> /\ HandlePollEvents(o, obj.met[o], TRUE)

\* k_poll_signal_reset; the last token or item is taken.
Consume(o) ==
    /\ obj.met[o]
    /\ obj' = [obj EXCEPT !.met[o] = FALSE]
    /\ held' = [held EXCEPT ![o] = {}]
    /\ UNCHANGED <<th, wait_q>>

PollInit ==
    /\ WaitInit
    /\ obj = [met |-> [o \in PollObjects |-> FALSE], events |-> [o \in PollObjects |-> <<>>]]
    /\ held = [o \in PollObjects |-> {}]

EventArrays == {s \in [1..2 -> PollObjects] : s[1] # s[2]}

PollNext ==
    \/ \E o \in PollObjects : Raise(o) \/ AppendedAndTaken(o) \/ CancelWait(o) \/ Consume(o)
    \/ \E t \in Pollers :
          \/ \E events \in EventArrays : k_poll(t, events)
          \/ RegisterEvent(t) \/ PollWait(t) \/ ClearEvent(t) \/ PollReturn(t) \/ Timeout(t)

-----------------------------------------------------------------------------
(* Properties. *)

\* A registered event belongs to a thread that is still in k_poll() and will
\* still clear it: none is left behind when the call returns, whether it found
\* something at once, was signalled while it registered, timed out or was told.
PollContents ==
    \A o \in PollObjects : \A i \in 1..Len(obj.events[o]) :
        LET e == obj.events[o][i]
        IN  /\ ~Runs(e.thread)
            /\ th[e.thread].data.events[e.index] = o
            /\ e.index <= th[e.thread].data.registered

\* A thread waits beside a condition that is met only if another poller was told.
PollNobodyStranded ==
    \A t \in Waiters : \A i \in 1..Len(th[t].data.events) :
        LET o == th[t].data.events[i]
        IN  obj.met[o] => held[o] \ {t} # {}

\* A thread that waited in k_poll() returns 0 only with an event that is ready and
\* -EINTR only with one that was cancelled.  One that did not wait returns 0, with
\* a ready event or one that was cancelled while it registered the others.
PollResults ==
    \A t \in Threads : Woken(t) =>
        LET d == th[t].data
        IN  /\ th[t].op = "wait" /\ th[t].ret = "0" => d.ready # {}
            /\ th[t].op = "wait" /\ th[t].ret = "EINTR" => d.cancelled # {}
            /\ th[t].op = "poll" => th[t].ret = "0" /\ d.ready \union d.cancelled # {}
=============================================================================
