------------------------------- MODULE KEvent -------------------------------
(***************************************************************************)
(* Event objects, kernel/events.c.  obj is the set of bits that are set.   *)
(* A waiting thread's op is its wait condition and its data the set it     *)
(* asked for (thread->events), which the posting thread overwrites with    *)
(* the events; held keeps what was asked.                                  *)
(***************************************************************************)
EXTENDS WaitQ

CONSTANT EventBits

are_wait_conditions_met(desired, current, condition) ==
    IF condition = "all" THEN desired \subseteq current
    ELSE desired \intersect current # {}

\* The threads that k_event_post_internal collects.
Matching(S, accumulate) ==
    {t \in Waiters :
        are_wait_conditions_met(th[t].data, IF accumulate THEN S \union obj ELSE S, th[t].op)}

\* The wait queue when those of S have been unpended.
Unpended(S) ==
    LET left[i \in 0..Len(wait_q)] ==
            IF i = 0 THEN <<>>
            ELSE IF wait_q[i] \in S THEN left[i - 1] ELSE Append(left[i - 1], wait_q[i])
    IN  left[Len(wait_q)]

\* k_event_post_internal: k_event_post accumulates, k_event_set does not.
Post(S, accumulate) ==
    LET events == IF accumulate THEN S \union obj ELSE S
        woken  == Matching(S, accumulate)
    IN  /\ obj' = events
        /\ th' = [t \in Threads |-> IF t \in woken THEN WokenWith(t, "0", events) ELSE th[t]]
        /\ wait_q' = Unpended(woken)
        /\ UNCHANGED held

\* k_event_wait and k_event_wait_all: with reset all events are cleared first.
\* If the condition is met the call returns and changes nothing else.
EventWait(t, S, condition, reset, timed) ==
    LET events == IF reset THEN {} ELSE obj
    IN  /\ ~are_wait_conditions_met(S, events, condition)
        /\ z_pend_curr(t, condition, S, timed)
        /\ obj' = events
        /\ held' = [held EXCEPT ![t] = S]

\* The same with K_NO_WAIT: only the reset is left.
EventReset == obj # {} /\ obj' = {} /\ UNCHANGED <<th, wait_q, held>>

EventReturn(t) ==
    /\ Woken(t)
    /\ th' = [th EXCEPT ![t] = Running]
    /\ held' = [held EXCEPT ![t] = {}]
    /\ UNCHANGED <<wait_q, obj>>

EventInit == WaitInit /\ obj = {} /\ held = [t \in Threads |-> {}]

EventSets == (SUBSET EventBits) \ {{}}

EventNext ==
    \/ EventReset
    \/ \E S \in EventSets, accumulate \in BOOLEAN : Post(S, accumulate)
    \/ \E t \in Threads :
          \/ EventReturn(t) \/ Timeout(t)
          \/ \E S \in EventSets, condition \in {"any", "all"}, reset, timed \in BOOLEAN :
                EventWait(t, S, condition, reset, timed)

-----------------------------------------------------------------------------
(* Properties. *)

\* Nobody waits for events that are set, however they came about.
EventNobodyStranded ==
    \A t \in Waiters : ~are_wait_conditions_met(held[t], obj, th[t].op)

\* A thread that was woken by a post got events that meet its condition, also
\* when they have been cleared since.
EventResults ==
    \A t \in Threads : Woken(t) /\ th[t].ret = "0" =>
        are_wait_conditions_met(held[t], th[t].data, th[t].op)
=============================================================================
