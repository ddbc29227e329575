------------------------------ MODULE SemProof ------------------------------
(***************************************************************************)
(* Theorems about Sem, for any number of threads, any priorities and       *)
(* limit: its types, NoWaitWithToken, NobodyForgotten and                  *)
(* FirstComeFirstServed for every configuration, and ResultMatchesWakeup   *)
(* for one CPU.                                                            *)
(***************************************************************************)
EXTENDS Sem, SeqLemmas

\* Which call a thread is in, by where it is, and who holds the spinlock.
CallInv ==
    \A t \in Threads :
        /\ pc[t] # "switch"
        /\ pc[t] \in {"unpend", "retval", "wake"} => op[t] \in {"give", "reset"}
        /\ pc[t] \in {"pend", "swap", "off"} => op[t] \in {"forever", "timed"}
        /\ pc[t] = "pend" => op[t] = "timed"
        /\ pc[t] = "ready" => op[t] = "none"
        /\ pc[t] \in {"pend", "swap", "unpend", "retval", "wake"} <=> lock = t

\* A thread in the wait queue is in k_sem_take() and nothing has ended its wait;
\* once it is switched out its return value is still the preset one.
PendedInv ==
    /\ IsInjective(wait_q)
    /\ \A t \in Threads :
        /\ pc[t] \in {"pend", "swap"} => Pended(t)
        /\ Pended(t) => /\ pc[t] \in {"pend", "swap", "off"}
                        /\ pc[t] = "off" => retval[t] = "-EAGAIN"

\* A timeout is in the timeout queue, or its handler under way, only while its
\* thread is in the wait queue with a timeout.
TimerInv ==
    \A t \in Threads :
        /\ t \in armed => Pended(t) /\ pc[t] \in {"swap", "off"} /\ op[t] = "timed"
        /\ firing[t] > 0 => /\ Pended(t) /\ pc[t] = "off" /\ op[t] = "timed"
                            /\ lock = NULL /\ t \notin armed

\* What retval[t] has to be for the cause of the wakeup.
Reported(t) ==
    \/ wokenBy[t] = "token" /\ retval[t] = "0"
    \/ wokenBy[t] = "reset" /\ retval[t] = "-EAGAIN"
    \/ wokenBy[t] = "timeout" /\ op[t] = "timed" /\ retval[t] = "-EAGAIN"

\* A thread in the run queue has its result; one that is being woken is nowhere.
WokenInv ==
    /\ \A t \in Threads : t \in queued => pc[t] = "off" /\ ~Pended(t) /\ Reported(t)
    /\ \A g \in Threads : pc[g] \in {"retval", "wake"} =>
        /\ serving[g] \in Threads
        /\ pc[serving[g]] = "off" /\ ~Pended(serving[g]) /\ serving[g] \notin queued
        /\ wokenBy[serving[g]] = IF op[g] = "give" THEN "token" ELSE "reset"
        /\ pc[g] = "wake" => Reported(serving[g])

UpInv == CallInv /\ PendedInv /\ TimerInv /\ WokenInv

-----------------------------------------------------------------------------
(* The wait queue. *)

\* InsertByPrio adds the thread to the wait queue, behind its equals and before
\* the less urgent.
LEMMA InsertByPrioRange ==
    ASSUME NEW s \in Seq(Threads), NEW t \in Threads
    PROVE  /\ InsertByPrio(s, t) \in Seq(Threads)
           /\ Range(InsertByPrio(s, t)) = Range(s) \union {t}
           /\ IsInjective(s) /\ t \notin Range(s) => IsInjective(InsertByPrio(s, t))
           /\ \A a, b : Precedes(s, a, b) => Precedes(InsertByPrio(s, t), a, b)
           /\ Ordered(s, Prio) =>
                 /\ Ordered(InsertByPrio(s, t), Prio)
                 /\ \A a \in Range(s) : Prio[a] <= Prio[t] => Precedes(InsertByPrio(s, t), a, t)
<1> DEFINE i == RankPlace(s, Prio, t)
<1>1. InsertByPrio(s, t) = InsertAt(s, i, t)
  BY DEF InsertByPrio, RankPlace
<1>2. Prio \in [Threads -> Int]
  BY SemAssumption
<1>3. i \in 1..(Len(s) + 1)
  BY <1>2, RankPlaceFacts
<1>4. Ordered(s, Prio) =>
         /\ Ordered(InsertAt(s, i, t), Prio)
         /\ \A a \in Range(s) : Prio[a] <= Prio[t] => Precedes(InsertAt(s, i, t), a, t)
  BY <1>2, RankInsert
<1> HIDE DEF i
<1>5. /\ InsertAt(s, i, t) \in Seq(Threads)
      /\ Range(InsertAt(s, i, t)) = Range(s) \union {t}
      /\ IsInjective(s) /\ t \notin Range(s) => IsInjective(InsertAt(s, i, t))
  BY <1>3, InsertAtElements, InsertAtRange
<1>6. \A a, b : Precedes(s, a, b) => Precedes(InsertAt(s, i, t), a, b)
  BY <1>3, InsertAtPrecedes
<1> QED
  BY <1>1, <1>4, <1>5, <1>6

\* Without takes a waiter out of the wait queue and leaves the order of the others.
LEMMA WithoutRange ==
    ASSUME NEW s \in Seq(Threads), NEW t \in Range(s)
    PROVE  /\ Without(s, t) \in Seq(Threads)
           /\ Range(Without(s, t)) \subseteq Range(s)
           /\ Range(s) \ {t} \subseteq Range(Without(s, t))
           /\ IsInjective(s) => /\ Range(Without(s, t)) = Range(s) \ {t}
                               /\ IsInjective(Without(s, t))
           /\ \A a, b : Precedes(s, a, b) /\ a # t /\ b # t => Precedes(Without(s, t), a, b)
           /\ Ordered(s, Prio) => Ordered(Without(s, t), Prio)
<1> DEFINE i == CHOOSE j \in 1..Len(s) : s[j] = t
<1>1. \E j \in 1..Len(s) : s[j] = t
  BY RangeMembers
<1>2. i \in 1..Len(s) /\ s[i] = t
  BY <1>1
<1>3. Without(s, t) = RemoveAt(s, i)
  BY DEF Without
<1> HIDE DEF i
<1>4. /\ RemoveAt(s, i) \in Seq(Threads)
      /\ Range(RemoveAt(s, i)) \subseteq Range(s)
      /\ IsInjective(s) => /\ Range(RemoveAt(s, i)) = Range(s) \ {t}
                          /\ IsInjective(RemoveAt(s, i))
  BY <1>2, RemoveAtElements, RemoveAtRange
<1>5. \A a, b : Precedes(s, a, b) /\ a # t /\ b # t => Precedes(RemoveAt(s, i), a, b)
  BY <1>2, RemoveAtPrecedes
<1>6. Ordered(s, Prio) => Ordered(RemoveAt(s, i), Prio)
  BY <1>2, SemAssumption, RankRemove
<1>7. Range(s) \ {t} \subseteq Range(RemoveAt(s, i))
  BY <1>2, RemoveAtOthers
<1> QED
  BY <1>3, <1>4, <1>5, <1>6, <1>7

-----------------------------------------------------------------------------
(* Types. *)

\* A give or reset that has unpended a thread knows which; without this the
\* types are not inductive, because z_ready_thread() queues that thread.
ServingKnown == \A g \in Threads : pc[g] \in {"retval", "wake"} => serving[g] \in Threads

TypeInv == TypeOK /\ ServingKnown

\* Every step preserves the types of the variables.
LEMMA TypeStep ==
    TypeInv /\ [Next]_vars => TypeInv'
<1> SUFFICES ASSUME TypeInv, [Next]_vars PROVE TypeInv'
  OBVIOUS
<1> USE SemAssumption DEF TypeInv, ServingKnown, TypeOK, Places
<1>1. CASE UNCHANGED vars
  BY <1>1 DEF vars
<1>2. CASE Next
  <2> SUFFICES ASSUME NEW t \in Threads,
                      Call(t) \/ Proceed(t) \/ Timer(t) \/ wait_for_switch(t)
               PROVE  TypeInv'
    BY <1>2 DEF Next
  <2>1. CASE TakeNow(t)
    BY <2>1 DEF TakeNow
  <2>2. ASSUME NEW timeout \in {"forever", "timed"}, TakePend(t, timeout) PROVE TypeInv'
    <3>1. InsertByPrio(wait_q, t) \in Seq(Threads)
      BY InsertByPrioRange
    <3> QED BY <2>2, <3>1 DEF TakePend
  <2>3. ASSUME NEW what \in {"give", "reset"}, GiveOrReset(t, what) PROVE TypeInv'
    BY <2>3 DEF GiveOrReset
  <2>4. CASE add_thread_timeout(t)
    BY <2>4 DEF add_thread_timeout
  <2>5. CASE do_swap(t)
    BY <2>5 DEF do_swap
  <2>6. CASE SwitchOut(t)
    BY <2>6 DEF SwitchOut
  <2>7. CASE TakeReturn(t)
    BY <2>7 DEF TakeReturn
  <2>8. CASE CountToken(t)
    BY <2>8 DEF CountToken
  <2>9. CASE z_unpend_first_thread(t)
    <3>1. wait_q # <<>>
      BY <2>9 DEF z_unpend_first_thread
    <3>2. Head(wait_q) \in Threads /\ Tail(wait_q) \in Seq(Threads)
      BY <3>1, HeadTailProperties
    <3> QED BY <2>9, <3>2 DEF z_unpend_first_thread
  <2>10. CASE arch_thread_return_value_set(t)
    BY <2>10 DEF arch_thread_return_value_set
  <2>11. CASE z_ready_thread(t)
    <3>1. serving[t] \in Threads
      BY <2>11 DEF z_ready_thread
    <3> QED BY <2>11, <3>1 DEF z_ready_thread
  <2>12. CASE Expire(t)
    BY <2>12 DEF Expire
  <2>13. CASE z_thread_timeout(t)
    <3>1. Pended(t) => Without(wait_q, t) \in Seq(Threads)
      BY WithoutRange DEF Pended
    <3> QED BY <2>13, <3>1 DEF z_thread_timeout
  <2>14. CASE wait_for_switch(t)
    BY <2>14 DEF wait_for_switch
  <2> QED
    BY <2>1, <2>2, <2>3, <2>4, <2>5, <2>6, <2>7, <2>8, <2>9, <2>10, <2>11, <2>12,
       <2>13, <2>14 DEF Call, Proceed, Timer, k_sem_give, k_sem_reset
<1> QED BY <1>1, <1>2

\* TypeOK is an invariant of the semaphore.
THEOREM TypeCorrect == Spec => []TypeOK
<1>1. Init => TypeInv
  BY SemAssumption DEF Init, TypeInv, ServingKnown, TypeOK, Places
<1>2. TypeInv => TypeOK
  BY DEF TypeInv
<1> QED BY <1>1, <1>2, TypeStep, PTL DEF Spec

-----------------------------------------------------------------------------
(* Nobody waits beside a token. *)

\* No step of any thread or timer leaves a waiter beside a token.
LEMMA NoWaitWithTokenStep ==
    TypeOK /\ NoWaitWithToken /\ [Next]_vars => NoWaitWithToken'
<1> SUFFICES ASSUME TypeOK, NoWaitWithToken, [Next]_vars PROVE NoWaitWithToken'
  OBVIOUS
<1> USE SemAssumption DEF TypeOK, NoWaitWithToken
<1>1. CASE UNCHANGED vars
  BY <1>1 DEF vars
<1>2. CASE Next
  <2> SUFFICES ASSUME NEW t \in Threads,
                      Call(t) \/ Proceed(t) \/ Timer(t) \/ wait_for_switch(t)
               PROVE  NoWaitWithToken'
    BY <1>2 DEF Next
  <2>1. CASE TakeNow(t)
    BY <2>1 DEF TakeNow
  <2>2. ASSUME NEW timeout \in {"forever", "timed"}, TakePend(t, timeout)
        PROVE  NoWaitWithToken'
    BY <2>2 DEF TakePend
  <2>3. CASE CountToken(t)
    BY <2>3 DEF CountToken
  <2>4. CASE z_unpend_first_thread(t)
    BY <2>4 DEF z_unpend_first_thread
  <2>5. CASE z_thread_timeout(t)
    <3>1. Pended(t) => wait_q # <<>>
      BY EmptySeq DEF Pended, Range
    <3> QED BY <2>5, <3>1 DEF z_thread_timeout
  <2>6. CASE UNCHANGED <<count, wait_q>>
    BY <2>6
  <2> QED
    BY <2>1, <2>2, <2>3, <2>4, <2>5, <2>6
       DEF Call, Proceed, Timer, k_sem_give, k_sem_reset, GiveOrReset,
           add_thread_timeout, do_swap, SwitchOut, TakeReturn,
           arch_thread_return_value_set, z_ready_thread, Expire, wait_for_switch
<1> QED BY <1>1, <1>2

\* k_sem_give() never counts a token while a thread waits, and k_sem_take() never
\* waits while there is one, on any number of CPUs.
THEOREM TokenNeverIdle == Spec => []NoWaitWithToken
<1>1. Init => NoWaitWithToken
  BY DEF Init, NoWaitWithToken
<1> QED BY <1>1, NoWaitWithTokenStep, TypeCorrect, PTL DEF Spec

-----------------------------------------------------------------------------
(* One CPU: the result of a take tells what ended the wait. *)

\* Every step of a semaphore on one CPU preserves UpInv.
LEMMA UpStep ==
    ASSUME ~CONFIG_SMP, TypeInv, UpInv, [Next]_vars
    PROVE  UpInv'
<1> USE SemAssumption DEF TypeInv, ServingKnown, TypeOK, Places, UpInv, CallInv,
        PendedInv, TimerInv, WokenInv, Reported, Pended
<1>0. CPUs = 1 /\ \A t \in Threads : firing[t] \in 0..1
  OBVIOUS
<1>1. CASE UNCHANGED vars
  BY <1>1 DEF vars
<1>2. CASE Next
  <2> SUFFICES ASSUME NEW t \in Threads,
                      Call(t) \/ Proceed(t) \/ Timer(t) \/ wait_for_switch(t)
               PROVE  UpInv'
    BY <1>2 DEF Next
  <2>1. CASE TakeNow(t)
    BY <2>1 DEF TakeNow
  <2>2. ASSUME NEW timeout \in {"forever", "timed"}, TakePend(t, timeout) PROVE UpInv'
    <3>1. pc[t] = "ready" /\ t \notin Range(wait_q)
      BY <2>2 DEF TakePend
    <3>2. /\ Range(wait_q') = Range(wait_q) \union {t}
          /\ IsInjective(wait_q')
      <4>1. /\ wait_q' = InsertByPrio(wait_q, t)
            /\ wait_q \in Seq(Threads) /\ IsInjective(wait_q)
        BY <2>2 DEF TakePend
      <4> HIDE DEF UpInv, TypeInv, Pended
      <4> QED BY <4>1, <3>1, InsertByPrioRange
    <3>3. /\ lock = NULL /\ \A u \in Threads : firing[u] = 0
      BY <2>2 DEF TakePend, RunsSched, Runs
    <3> QED BY <2>2, <3>1, <3>2, <3>3 DEF TakePend
  <2>3. ASSUME NEW what \in {"give", "reset"}, GiveOrReset(t, what) PROVE UpInv'
    BY <2>3 DEF GiveOrReset, Runs
  <2>4. CASE add_thread_timeout(t)
    BY <2>4 DEF add_thread_timeout, Runs
  <2>5. CASE do_swap(t)
    BY <2>5 DEF do_swap, Runs
  <2>6. CASE SwitchOut(t)
    BY <2>6 DEF SwitchOut
  <2>7. CASE TakeReturn(t)
    BY <2>7 DEF TakeReturn, RunsSched, Runs
  <2>8. CASE CountToken(t)
    BY <2>8 DEF CountToken, RunsSched, Runs
  <2>9. CASE z_unpend_first_thread(t)
    <3> DEFINE w == Head(wait_q)
    <3>1. /\ w \in Threads /\ w \in Range(wait_q)
          /\ Range(wait_q') = Range(wait_q) \ {w}
          /\ IsInjective(wait_q')
      BY <2>9, TailRange DEF z_unpend_first_thread
    <3>2. \A u \in Threads : firing[u] = 0
      BY <2>9 DEF z_unpend_first_thread, RunsSched, Runs
    <3>3. pc[w] = "off" /\ w # t
      <4>1. pc[t] = "unpend" /\ lock = t
        BY <2>9 DEF z_unpend_first_thread
      <4>2. Pended(w)
        BY <3>1
      <4> HIDE DEF w
      <4> QED BY <3>1, <4>1, <4>2
    <3>4. /\ serving' = [serving EXCEPT ![t] = w]
          /\ armed' = armed \ {w}
          /\ wokenBy' = [wokenBy EXCEPT ![w] = IF op[t] = "give" THEN "token" ELSE "reset"]
          /\ pc[t] = "unpend" /\ pc' = [pc EXCEPT ![t] = "retval"]
          /\ UNCHANGED <<lock, op, firing, queued, retval>>
      BY <2>9 DEF z_unpend_first_thread
    <3> HIDE DEF w
    <3> QED BY <3>1, <3>2, <3>3, <3>4
  <2>10. CASE arch_thread_return_value_set(t)
    BY <2>10 DEF arch_thread_return_value_set, Runs
  <2>11. CASE z_ready_thread(t)
    <3> DEFINE w == serving[t]
    <3>1. w \in Threads /\ ~Active(w) /\ IsReady(w)
      BY <2>11 DEF z_ready_thread, Active, IsReady
    <3>2. queued' = queued \union {w}
      BY <2>11, <3>1 DEF z_ready_thread
    <3> QED BY <2>11, <3>1, <3>2 DEF z_ready_thread, RunsSched, Runs
  <2>12. CASE Expire(t)
    BY <2>12 DEF Expire
  <2>13. CASE z_thread_timeout(t)
    <3>1. Pended(t) /\ t \notin armed
      BY <2>13, <1>0 DEF z_thread_timeout
    <3>2. Range(wait_q') = Range(wait_q) \ {t} /\ IsInjective(wait_q')
      BY <2>13, <3>1, WithoutRange DEF z_thread_timeout
    <3>3. /\ lock = NULL /\ pc[t] = "off" /\ op[t] = "timed" /\ retval[t] = "-EAGAIN"
          /\ firing' = [firing EXCEPT ![t] = 0]
          /\ wokenBy' = [wokenBy EXCEPT ![t] = "timeout"]
          /\ queued' = queued \union {t}
          /\ UNCHANGED <<lock, pc, op, serving, armed, retval>>
      <4>1. firing[t] = 1
        BY <2>13, <1>0 DEF z_thread_timeout
      <4>2. /\ lock = NULL /\ pc[t] = "off" /\ op[t] = "timed" /\ retval[t] = "-EAGAIN"
        BY <4>1, <3>1
      <4> HIDE DEF UpInv, TypeInv
      <4> QED BY <2>13, <3>1, <4>1, <4>2 DEF z_thread_timeout
    <3>4. CallInv'
      BY <3>3
    <3>5. PendedInv'
      BY <3>2, <3>3
    <3>6. TimerInv'
      BY <3>1, <3>2, <3>3
    <3>7. WokenInv'
      BY <3>1, <3>2, <3>3
    <3> QED BY <3>4, <3>5, <3>6, <3>7
  <2>14. CASE wait_for_switch(t)
    BY <2>14 DEF wait_for_switch
  <2> QED
    BY <2>1, <2>2, <2>3, <2>4, <2>5, <2>6, <2>7, <2>8, <2>9, <2>10, <2>11, <2>12,
       <2>13, <2>14 DEF Call, Proceed, Timer, k_sem_give, k_sem_reset
<1> QED BY <1>1, <1>2

\* A step that ends a wait is TakeReturn, and a thread in the run queue has the
\* result that belongs to what woke it.
LEMMA UpResult ==
    ASSUME ~CONFIG_SMP, TypeInv, UpInv, [Next]_vars
    PROVE  [ResultTold]_vars
<1> SUFFICES ASSUME Next, NEW u \in Threads, op[u] \in {"forever", "timed"},
                    pc'[u] = "ready"
             PROVE  Reported(u)
  BY DEF ResultTold, Reported, vars
<1> USE DEF TypeInv, TypeOK, Places, UpInv, CallInv, WokenInv
<1>1. pc[u] \in {"pend", "swap", "off"}
  OBVIOUS
<1>2. PICK t \in Threads : Call(t) \/ Proceed(t) \/ Timer(t) \/ wait_for_switch(t)
  BY DEF Next
<1>3. TakeReturn(t) /\ t = u
  <2>1. \/ UNCHANGED pc
        \/ \E p \in Places : pc' = [pc EXCEPT ![t] = p]
    <3>1. CASE Call(t) \/ Timer(t) \/ wait_for_switch(t)
      BY <3>1 DEF Call, Timer, TakeNow, TakePend, k_sem_give, k_sem_reset,
                  GiveOrReset, Expire, z_thread_timeout, wait_for_switch
    <3>2. CASE Proceed(t)
      BY <3>2 DEF Proceed, add_thread_timeout, do_swap, SwitchOut, TakeReturn,
                  CountToken, z_unpend_first_thread, arch_thread_return_value_set,
                  z_ready_thread
    <3> QED BY <1>2, <3>1, <3>2
  <2>2. t = u
    BY <1>1, <2>1
  <2>3. CASE Call(t) \/ Timer(t) \/ wait_for_switch(t)
    BY <1>1, <2>2, <2>3
       DEF Call, Timer, TakeNow, TakePend, k_sem_give, k_sem_reset, GiveOrReset,
           Expire, z_thread_timeout, wait_for_switch
  <2>4. CASE Proceed(t)
    BY <1>1, <2>2, <2>4
       DEF Proceed, add_thread_timeout, do_swap, SwitchOut, CountToken,
           z_unpend_first_thread, arch_thread_return_value_set, z_ready_thread
  <2> QED BY <1>2, <2>2, <2>3, <2>4
<1>4. u \in queued
  BY <1>1, <1>3 DEF TakeReturn
<1> QED BY <1>4

\* On one CPU k_sem_take() returns 0 exactly to a thread that was handed a token,
\* and -EAGAIN only after a reset or its own timeout, for any number of threads,
\* priorities and any limit.
THEOREM ResultCorrectOnOneCPU ==
    ASSUME ~CONFIG_SMP
    PROVE  Spec => ResultMatchesWakeup
<1>1. Init => TypeInv /\ UpInv
  <2>1. Init => TypeInv
    BY SemAssumption DEF Init, TypeInv, ServingKnown, TypeOK, Places
  <2>2. Init => UpInv
    <3> SUFFICES ASSUME Init PROVE UpInv
      OBVIOUS
    <3>1. Range(wait_q) = {} /\ IsInjective(wait_q)
      BY DEF Init, Range, IsInjective
    <3> QED BY <3>1, SemAssumption
            DEF Init, UpInv, CallInv, PendedInv, TimerInv, WokenInv, Pended
  <2> QED BY <2>1, <2>2
<1>2. TypeInv /\ UpInv /\ [Next]_vars => (TypeInv /\ UpInv)'
  BY TypeStep, UpStep
<1>3. TypeInv /\ UpInv /\ [Next]_vars => [ResultTold]_vars
  BY UpResult
<1> QED BY <1>1, <1>2, <1>3, PTL DEF Spec, ResultMatchesWakeup

-----------------------------------------------------------------------------
(* Nobody overtakes in the wait queue. *)

\* The wait queue is ordered by priority and nobody is in it twice: whoever is in
\* it is not in the run queue, and is in k_sem_take().  It holds on any number of
\* CPUs, where the parts of UpInv about timeouts and results do not.
QueueInv ==
    /\ IsInjective(wait_q) /\ Ordered(wait_q, Prio)
    /\ \A t \in Threads :
          Pended(t) => t \notin queued /\ pc[t] \in {"pend", "swap", "switch", "off"}

\* What the steps that change the wait queue do to it.
LEMMA QueueMoves ==
    ASSUME TypeInv, QueueInv, NEW t \in Threads,
           Call(t) \/ Proceed(t) \/ Timer(t) \/ wait_for_switch(t)
    PROVE  \/ UNCHANGED wait_q
           \/ /\ pc[t] = "ready" /\ ~Pended(t)
              /\ wait_q' = InsertByPrio(wait_q, t)
              /\ queued' = queued \ {t}
              /\ \E p \in {"swap", "pend"} : pc' = [pc EXCEPT ![t] = p]
           \/ /\ pc[t] = "unpend" /\ wait_q # <<>>
              /\ wait_q' = Tail(wait_q) /\ queued' = queued
              /\ pc' = [pc EXCEPT ![t] = "retval"]
           \/ /\ Pended(t) /\ wait_q' = Without(wait_q, t)
              /\ queued' \subseteq queued \union {t} /\ pc' = pc
<1> USE DEF QueueInv, TypeInv, TypeOK
<1>1. CASE Call(t)
  <2>1. CASE \E timeout \in {"forever", "timed"} : TakePend(t, timeout)
    <3>1. PICK timeout \in {"forever", "timed"} : TakePend(t, timeout)
      BY <2>1
    <3>2. /\ pc[t] = "ready" /\ wait_q' = InsertByPrio(wait_q, t) /\ queued' = queued \ {t}
          /\ \E p \in {"swap", "pend"} : pc' = [pc EXCEPT ![t] = p]
      BY <3>1 DEF TakePend
    <3>3. ~Pended(t)
      BY <3>2
    <3> QED BY <3>2, <3>3
  <2>2. CASE TakeNow(t) \/ k_sem_give(t) \/ k_sem_reset(t)
    BY <2>2 DEF TakeNow, k_sem_give, k_sem_reset, GiveOrReset
  <2> QED BY <1>1, <2>1, <2>2 DEF Call
<1>2. CASE Proceed(t)
  <2>1. CASE z_unpend_first_thread(t)
    BY <2>1 DEF z_unpend_first_thread
  <2>2. CASE ~z_unpend_first_thread(t)
    BY <1>2, <2>2 DEF Proceed, add_thread_timeout, do_swap, SwitchOut, TakeReturn,
       CountToken, arch_thread_return_value_set, z_ready_thread
  <2> QED BY <2>1, <2>2
<1>3. CASE Timer(t)
  BY <1>3 DEF Timer, Expire, z_thread_timeout
<1>4. CASE wait_for_switch(t)
  BY <1>4 DEF wait_for_switch
<1> QED BY <1>1, <1>2, <1>3, <1>4

\* Every step preserves QueueInv.
LEMMA QueueStep ==
    ASSUME TypeInv, QueueInv, [Next]_vars
    PROVE  QueueInv'
<1>1. CASE UNCHANGED vars
  BY <1>1 DEF vars, QueueInv, Pended
<1>2. CASE Next
  <2>1. PICK t \in Threads : Call(t) \/ Proceed(t) \/ Timer(t) \/ wait_for_switch(t)
    BY <1>2 DEF Next
  <2>2. /\ wait_q \in Seq(Threads) /\ IsInjective(wait_q) /\ Ordered(wait_q, Prio)
        /\ pc \in [Threads -> Places]
        /\ Prio \in [Threads -> Int]
        /\ \A u \in Threads : u \in Range(wait_q) =>
              u \notin queued /\ pc[u] \in {"pend", "swap", "switch", "off"}
    BY SemAssumption DEF TypeInv, TypeOK, QueueInv, Pended
  <2>3. CASE /\ pc[t] = "ready" /\ ~Pended(t)
             /\ wait_q' = InsertByPrio(wait_q, t)
             /\ queued' = queued \ {t}
             /\ \E p \in {"swap", "pend"} : pc' = [pc EXCEPT ![t] = p]
    <3>1. /\ Range(wait_q') = Range(wait_q) \union {t}
          /\ IsInjective(wait_q') /\ Ordered(wait_q', Prio)
      BY <2>2, <2>3, InsertByPrioRange DEF Pended
    <3> QED BY <2>2, <2>3, <3>1 DEF QueueInv, Pended
  <2>4. CASE /\ pc[t] = "unpend" /\ wait_q # <<>>
             /\ wait_q' = Tail(wait_q) /\ queued' = queued
             /\ pc' = [pc EXCEPT ![t] = "retval"]
    <3>1. /\ Range(wait_q') \subseteq Range(wait_q)
          /\ IsInjective(wait_q') /\ Ordered(wait_q', Prio)
      BY <2>2, <2>4, TailRange, RankHead
    <3> QED BY <2>2, <2>4, <3>1 DEF QueueInv, Pended
  <2>5. CASE /\ Pended(t) /\ wait_q' = Without(wait_q, t)
             /\ queued' \subseteq queued \union {t} /\ pc' = pc
    <3>1. /\ Range(wait_q') = Range(wait_q) \ {t}
          /\ IsInjective(wait_q') /\ Ordered(wait_q', Prio)
      BY <2>2, <2>5, WithoutRange DEF Pended
    <3> QED BY <2>2, <2>5, <3>1 DEF QueueInv, Pended
  <2>6. CASE UNCHANGED wait_q
    <3>1. ASSUME NEW u \in Threads, u \in Range(wait_q)
          PROVE  u \notin queued' /\ pc'[u] \in {"pend", "swap", "switch", "off"}
      <4>1. u \notin queued /\ pc[u] \in {"pend", "swap", "switch", "off"}
        BY <2>2, <3>1
      <4>2. CASE Call(t)
        BY <2>2, <2>6, <4>1, <4>2, <3>1
           DEF Call, TakeNow, TakePend, k_sem_give, k_sem_reset, GiveOrReset
      <4>3. CASE Proceed(t)
        <5>1. CASE SwitchOut(t)
          BY <2>2, <3>1, <4>1, <5>1 DEF SwitchOut, Pended
        <5>2. CASE TakeReturn(t)
          BY <2>2, <3>1, <4>1, <5>2 DEF TakeReturn, Pended
        <5>3. CASE z_ready_thread(t)
          BY <2>2, <3>1, <4>1, <5>3 DEF z_ready_thread, IsReady, Pended
        <5>4. CASE z_unpend_first_thread(t)
          BY <2>2, <3>1, <4>1, <5>4 DEF z_unpend_first_thread
        <5>5. CASE add_thread_timeout(t) \/ do_swap(t) \/ CountToken(t)
                   \/ arch_thread_return_value_set(t)
          BY <2>2, <3>1, <4>1, <5>5
             DEF add_thread_timeout, do_swap, CountToken, arch_thread_return_value_set
        <5> QED BY <4>3, <5>1, <5>2, <5>3, <5>4, <5>5 DEF Proceed
      <4>4. CASE Expire(t) \/ wait_for_switch(t)
        BY <4>1, <4>4 DEF Expire, wait_for_switch
      <4>5. CASE z_thread_timeout(t)
        <5>1. ~Pended(t)
          <6> SUFFICES ASSUME Pended(t) PROVE FALSE
            OBVIOUS
          <6>1. wait_q' = Without(wait_q, t)
            BY <4>5 DEF z_thread_timeout
          <6>2. t \notin Range(Without(wait_q, t))
            BY <2>2, WithoutRange DEF Pended
          <6> QED BY <2>6, <6>1, <6>2 DEF Pended
        <5> QED BY <3>1, <4>1, <4>5, <5>1 DEF z_thread_timeout, Pended
      <4> QED BY <2>1, <4>2, <4>3, <4>4, <4>5 DEF Timer
    <3> QED BY <2>2, <2>6, <3>1 DEF QueueInv, Pended
  <2> QED BY <2>1, <2>3, <2>4, <2>5, <2>6, QueueMoves
<1> QED BY <1>1, <1>2

\* No step lets a waiter overtake.
LEMMA OvertakeStep ==
    ASSUME TypeInv, QueueInv, QueueInv', TypeInv', [Next]_vars
    PROVE  [NobodyOvertakes]_vars
<1> SUFFICES ASSUME Next, NEW a \in Range(wait_q'), NEW b \in Range(wait_q'),
                    \/ Prio[a] < Prio[b]
                    \/ Prio[a] = Prio[b] /\ Pended(a) /\ a # b /\ (Pended(b) => Ahead(wait_q, a, b))
             PROVE  Ahead(wait_q', a, b)
  BY DEF NobodyOvertakes
<1>1. PICK t \in Threads : Call(t) \/ Proceed(t) \/ Timer(t) \/ wait_for_switch(t)
  BY DEF Next
<1>2. /\ wait_q \in Seq(Threads) /\ IsInjective(wait_q) /\ Ordered(wait_q, Prio)
      /\ wait_q' \in Seq(Threads) /\ Ordered(wait_q', Prio)
      /\ Prio \in [Threads -> Int]
  BY SemAssumption DEF TypeInv, TypeOK, QueueInv
<1>3. \A s, x, y : Ahead(s, x, y) <=> Precedes(s, x, y)
  BY DEF Ahead, Precedes
<1>4. CASE Prio[a] < Prio[b]
  BY <1>2, <1>3, <1>4, RankPrecedes
<1>5. CASE Prio[a] = Prio[b] /\ Pended(a) /\ a # b /\ (Pended(b) => Ahead(wait_q, a, b))
  <2>1. a \in Range(wait_q) /\ a \in Threads /\ b \in Threads /\ Prio[a] <= Prio[b]
    BY <1>2, <1>5, RangeMembers DEF Pended
  <2>2. b \in Range(wait_q) => Precedes(wait_q, a, b)
    BY <1>3, <1>5 DEF Pended
  <2>3. CASE wait_q' = InsertByPrio(wait_q, t)
    <3>1. /\ Range(wait_q') = Range(wait_q) \union {t}
          /\ \A x, y : Precedes(wait_q, x, y) => Precedes(wait_q', x, y)
          /\ \A x \in Range(wait_q) : Prio[x] <= Prio[t] => Precedes(wait_q', x, t)
      BY <1>2, <2>3, InsertByPrioRange
    <3> QED BY <1>3, <2>1, <2>2, <3>1
  <2>4. CASE wait_q # <<>> /\ wait_q' = Tail(wait_q)
    <3>1. Range(wait_q') = Range(wait_q) \ {Head(wait_q)}
      BY <1>2, <2>4, TailRange
    <3>2. Precedes(wait_q, a, b) /\ a # Head(wait_q)
      BY <2>2, <3>1
    <3> QED BY <1>2, <1>3, <2>4, <3>2, TailPrecedes
  <2>5. CASE Pended(t) /\ wait_q' = Without(wait_q, t)
    <3>1. /\ Range(wait_q') = Range(wait_q) \ {t}
          /\ \A x, y : Precedes(wait_q, x, y) /\ x # t /\ y # t => Precedes(wait_q', x, y)
      BY <1>2, <2>5, WithoutRange DEF Pended
    <3> QED BY <1>3, <2>2, <3>1
  <2>6. CASE UNCHANGED wait_q
    BY <1>3, <2>2, <2>6
  <2> QED BY <1>1, <2>3, <2>4, <2>5, <2>6, QueueMoves
<1> QED BY <1>4, <1>5

\* Tokens go to the waiters by priority and, among equals, in the order they came,
\* for any threads and priorities and on any number of CPUs: neither a give, a
\* reset, a late timeout nor another take lets anybody overtake.
THEOREM NobodyOvertaken == Spec => FirstComeFirstServed
<1>1. Init => TypeInv /\ QueueInv
  <2>1. Init => TypeInv
    BY SemAssumption DEF Init, TypeInv, ServingKnown, TypeOK, Places
  <2>2. Init => QueueInv
    BY DEF Init, QueueInv, Ordered, IsInjective, Pended, Range
  <2> QED BY <2>1, <2>2
<1>2. TypeInv /\ QueueInv /\ [Next]_vars => (TypeInv /\ QueueInv)'
  BY TypeStep, QueueStep
<1>3. TypeInv /\ QueueInv /\ (TypeInv /\ QueueInv)' /\ [Next]_vars => [NobodyOvertakes]_vars
  BY OvertakeStep
<1> QED BY <1>1, <1>2, <1>3, PTL DEF Spec, FirstComeFirstServed

-----------------------------------------------------------------------------
(* Nobody is switched out and forgotten. *)

\* Only a give or reset that is about to wake a thread serves one, so that no
\* thread to be woken is lost to the next turn of the loop in k_sem_reset().
ServingInv == \A g \in Threads : pc[g] \notin {"retval", "wake"} => serving[g] = NULL

\* On one CPU the argument needs that a thread in do_swap() is in the wait queue;
\* on SMP that is not so, and next_up() looks again.
ForgottenInv == TypeInv /\ (~CONFIG_SMP => UpInv) /\ ServingInv /\ NobodyForgotten

\* Every step preserves ServingInv.
LEMMA ServingStep ==
    ASSUME TypeInv, ServingInv, [Next]_vars
    PROVE  ServingInv'
<1>1. CASE UNCHANGED vars
  BY <1>1 DEF vars, ServingInv
<1>2. CASE Next
  <2>1. PICK t \in Threads : Call(t) \/ Proceed(t) \/ Timer(t) \/ wait_for_switch(t)
    BY <1>2 DEF Next
  <2> USE DEF TypeInv, TypeOK, Places, ServingInv
  <2>2. CASE Call(t) \/ Timer(t) \/ wait_for_switch(t)
    BY <2>2 DEF Call, Timer, TakeNow, TakePend, k_sem_give, k_sem_reset, GiveOrReset,
                Expire, z_thread_timeout, wait_for_switch
  <2>3. CASE Proceed(t)
    BY <2>3 DEF Proceed, add_thread_timeout, do_swap, SwitchOut, TakeReturn, CountToken,
                z_unpend_first_thread, arch_thread_return_value_set, z_ready_thread
  <2> QED BY <2>1, <2>2, <2>3
<1> QED BY <1>1, <1>2

\* Whoever is switched out stays known to somebody.
LEMMA ForgottenStep ==
    ASSUME ForgottenInv, [Next]_vars
    PROVE  NobodyForgotten'
<1> DEFINE Known(u) == \/ Pended(u) \/ u \in queued \/ u \in armed \/ firing[u] > 0
                       \/ \E g \in Threads : serving[g] = u
<1>1. \A u \in Threads : pc[u] = "off" => Known(u)
  BY DEF ForgottenInv, NobodyForgotten
<1>2. CASE UNCHANGED vars
  BY <1>1, <1>2 DEF vars, NobodyForgotten, Pended
<1>3. CASE Next
  <2>1. PICK t \in Threads : Call(t) \/ Proceed(t) \/ Timer(t) \/ wait_for_switch(t)
    BY <1>3 DEF Next
  <2>2. /\ wait_q \in Seq(Threads) /\ pc \in [Threads -> Places]
        /\ serving \in [Threads -> Threads \union {NULL}] /\ armed \subseteq Threads
        /\ queued \subseteq Threads
        /\ \A u \in Threads : firing[u] \in Int
        /\ firing \in [Threads -> 0..CPUs]
    BY SemAssumption DEF ForgottenInv, TypeInv, TypeOK
  <2> SUFFICES ASSUME NEW u \in Threads, pc'[u] = "off"
               PROVE  Known(u)'
    BY DEF NobodyForgotten, Pended
  <2>3. CASE TakeNow(t) \/ k_sem_give(t) \/ k_sem_reset(t)
    BY <1>1, <2>2, <2>3 DEF TakeNow, k_sem_give, k_sem_reset, GiveOrReset, Pended
  <2>4. ASSUME NEW timeout \in {"forever", "timed"}, TakePend(t, timeout) PROVE Known(u)'
    <3>1. Range(wait_q') = Range(wait_q) \union {t}
      BY <2>2, <2>4, InsertByPrioRange DEF TakePend
    <3>2. u # t /\ pc[u] = "off"
      BY <2>2, <2>4 DEF TakePend
    <3> QED BY <1>1, <2>4, <3>1, <3>2 DEF TakePend, Pended
  <2>5. CASE add_thread_timeout(t)
    BY <1>1, <2>2, <2>5 DEF add_thread_timeout, Pended
  <2>6. CASE do_swap(t)
    <3>1. UNCHANGED <<wait_q, serving, armed, firing, queued>>
      BY <2>6 DEF do_swap
    <3>2. CASE pc[u] = "off"
      BY <1>1, <3>1, <3>2 DEF Pended
    <3>3. CASE pc[u] # "off"
      <4>1. u = t /\ ~CONFIG_SMP /\ pc[u] = "swap"
        BY <2>2, <2>6, <3>3, SemAssumption DEF do_swap
      <4>2. Pended(u)
        BY <4>1 DEF ForgottenInv, UpInv, PendedInv
      <4> QED BY <3>1, <4>2 DEF Pended
    <3> QED BY <3>2, <3>3
  <2>7. CASE SwitchOut(t)
    <3>1. UNCHANGED <<wait_q, serving, armed, firing>> /\ queued \subseteq queued'
      BY <2>7 DEF SwitchOut
    <3>2. CASE u = t
      BY <2>7, <3>2 DEF SwitchOut, Pended
    <3>3. CASE u # t
      BY <1>1, <2>2, <2>7, <3>1, <3>3 DEF SwitchOut, Pended
    <3> QED BY <3>2, <3>3
  <2>8. CASE TakeReturn(t)
    <3>1. u # t /\ pc[u] = "off"
      BY <2>2, <2>8 DEF TakeReturn
    <3> QED BY <1>1, <2>8, <3>1 DEF TakeReturn, Pended
  <2>9. CASE CountToken(t)
    BY <1>1, <2>2, <2>9 DEF CountToken, Pended
  <2>10. CASE z_unpend_first_thread(t)
    <3> DEFINE w == Head(wait_q)
    <3>1. /\ pc[t] = "unpend" /\ wait_q # <<>> /\ wait_q' = Tail(wait_q)
          /\ serving' = [serving EXCEPT ![t] = w] /\ armed' = armed \ {w}
          /\ UNCHANGED <<firing, queued>>
          /\ pc[u] = "off"
      BY <2>2, <2>10 DEF z_unpend_first_thread
    <3>2. serving'[t] = w
      BY <2>2, <3>1
    <3>3. serving[t] = NULL
      BY <3>1 DEF ForgottenInv, ServingInv
    <3>4. CASE u = w
      BY <3>2, <3>4
    <3>5. CASE u # w
      <4>1. Pended(u) => Pended(u)'
        <5> SUFFICES ASSUME u \in Range(wait_q) PROVE u \in Range(Tail(wait_q))
          BY <3>1 DEF Pended
        <5>1. PICK j \in 1..Len(wait_q) : wait_q[j] = u
          BY <2>2, RangeMembers
        <5>2. /\ Tail(wait_q) \in Seq(Threads) /\ Len(Tail(wait_q)) = Len(wait_q) - 1
              /\ Len(wait_q) \in Nat /\ w = wait_q[1]
              /\ \A k \in 1..Len(Tail(wait_q)) : Tail(wait_q)[k] = wait_q[k + 1]
          BY <2>2, <3>1, HeadTailProperties, LenProperties
        <5>3. j - 1 \in 1..Len(Tail(wait_q)) /\ (j - 1) + 1 = j
          BY <3>5, <5>1, <5>2
        <5>4. Tail(wait_q)[j - 1] = u
          BY <5>1, <5>2, <5>3
        <5> QED BY <5>2, <5>3, <5>4, RangeMembers
      <4>2. \A g \in Threads : serving[g] = u => serving'[g] = u
        BY <2>2, <3>1, <3>3, SemAssumption
      <4> QED BY <1>1, <3>1, <3>5, <4>1, <4>2
    <3> QED BY <3>4, <3>5
  <2>11. CASE arch_thread_return_value_set(t)
    BY <1>1, <2>2, <2>11 DEF arch_thread_return_value_set, Pended
  <2>12. CASE z_ready_thread(t)
    <3>1. /\ UNCHANGED <<wait_q, armed, firing>> /\ queued \subseteq queued'
          /\ serving' = [serving EXCEPT ![t] = NULL]
          /\ pc[u] = "off"
      BY <2>2, <2>12 DEF z_ready_thread
    <3>2. CASE serving[t] = u
      <4>1. ~Active(u)
        BY <3>1 DEF Active
      <4>2. Pended(u) \/ u \in armed \/ IsReady(u)
        BY DEF IsReady
      <4>3. IsReady(u) => u \in queued'
        BY <2>12, <3>2, <4>1 DEF z_ready_thread
      <4> QED BY <3>1, <4>2, <4>3 DEF Pended
    <3>3. CASE serving[t] # u
      <4>1. \A g \in Threads : serving[g] = u => serving'[g] = u
        BY <2>2, <3>1, <3>3
      <4> QED BY <1>1, <3>1, <4>1 DEF Pended
    <3> QED BY <3>2, <3>3
  <2>13. CASE Expire(t)
    <3>1. /\ UNCHANGED <<wait_q, serving, queued, pc>> /\ armed' = armed \ {t}
          /\ firing' = [firing EXCEPT ![t] = @ + 1]
      BY <2>13 DEF Expire
    <3>2. \A v \in Threads : firing[v] > 0 => firing'[v] > 0
      BY <2>2, <3>1, SemAssumption
    <3>3. firing'[t] > 0
      BY <2>2, <3>1, SemAssumption
    <3> QED BY <1>1, <3>1, <3>2, <3>3 DEF Pended
  <2>14. CASE z_thread_timeout(t)
    <3>1. /\ UNCHANGED <<serving, armed, pc>> /\ queued \subseteq queued'
          /\ t \in armed' \/ t \in queued'
          /\ firing' = [firing EXCEPT ![t] = @ - 1]
          /\ wait_q' = IF Pended(t) THEN Without(wait_q, t) ELSE wait_q
      BY <2>14 DEF z_thread_timeout
    <3>2. CASE u = t
      BY <3>1, <3>2
    <3>3. CASE u # t
      <4>1. firing'[u] = firing[u]
        BY <2>2, <3>1, <3>3
      <4>2. Pended(u) => Pended(u)'
        <5> SUFFICES ASSUME u \in Range(wait_q), t \in Range(wait_q)
                     PROVE  u \in Range(Without(wait_q, t))
          BY <3>1 DEF Pended
        <5> QED BY <2>2, <3>3, WithoutRange
      <4> QED BY <1>1, <3>1, <4>1, <4>2
    <3> QED BY <3>2, <3>3
  <2>15. CASE wait_for_switch(t)
    <3>1. UNCHANGED <<wait_q, serving, armed, firing, pc>> /\ queued' = queued \ {t}
          /\ pc[t] # "off"
      BY <2>15 DEF wait_for_switch, Active
    <3> QED BY <1>1, <3>1 DEF Pended
  <2> HIDE DEF Known
  <2> QED
    BY <2>1, <2>3, <2>4, <2>5, <2>6, <2>7, <2>8, <2>9, <2>10, <2>11, <2>12, <2>13,
       <2>14, <2>15 DEF Call, Proceed, Timer
<1> QED BY <1>2, <1>3

\* A thread that k_sem_take() has switched out is in the wait queue or somebody is
\* still to run it, whatever gives, resets, timeouts and next_up() on other CPUs
\* do, for any threads and on any number of CPUs.
THEOREM NobodyIsForgotten == Spec => []NobodyForgotten
<1>1. Init => ForgottenInv
  <2> SUFFICES ASSUME Init PROVE ForgottenInv
    OBVIOUS
  <2>1. TypeInv
    BY SemAssumption DEF Init, TypeInv, ServingKnown, TypeOK, Places
  <2>2. UpInv
    <3>1. Range(wait_q) = {} /\ IsInjective(wait_q)
      BY DEF Init, Range, IsInjective
    <3> QED BY <3>1, SemAssumption
            DEF Init, UpInv, CallInv, PendedInv, TimerInv, WokenInv, Pended
  <2>3. ServingInv /\ NobodyForgotten
    BY DEF Init, ServingInv, NobodyForgotten
  <2> QED BY <2>1, <2>2, <2>3 DEF ForgottenInv
<1>2. ForgottenInv /\ [Next]_vars => ForgottenInv'
  <2> SUFFICES ASSUME ForgottenInv, [Next]_vars PROVE ForgottenInv'
    OBVIOUS
  <2>1. TypeInv'
    BY TypeStep DEF ForgottenInv
  <2>2. ~CONFIG_SMP => UpInv'
    BY UpStep DEF ForgottenInv
  <2>3. ServingInv'
    BY ServingStep DEF ForgottenInv
  <2>4. NobodyForgotten'
    BY ForgottenStep
  <2> QED BY <2>1, <2>2, <2>3, <2>4 DEF ForgottenInv
<1>3. ForgottenInv => NobodyForgotten
  BY DEF ForgottenInv
<1> QED BY <1>1, <1>2, <1>3, PTL DEF Spec
=============================================================================
