------------------------------ MODULE Condvar ------------------------------
(***************************************************************************)
(* Condition variables, kernel/condvar.c, on top of Mutex.                 *)
(*                                                                         *)
(* k_condvar_wait() is taken apart into the section of the mutex's lock    *)
(* and that of the scheduler's lock, with the condition variable's         *)
(* spinlock held over both: what another CPU does in between is explored.  *)
(*                                                                         *)
(* The users follow the pattern of the documentation: the mutex guards a   *)
(* number of items, a consumer waits in a loop until there is one, and a   *)
(* producer signals or broadcasts, with or without the mutex.              *)
(***************************************************************************)
EXTENDS Mutex

CONSTANTS CvMutex,     \* the mutex the users pass to k_condvar_wait
          MaxItems     \* bound: items at a time

ASSUME CondvarAssumption ==
    CvMutex \in Mutexes /\ MaxItems \in Nat /\ IsFiniteSet(Threads)

VARIABLES
    cv_lock,    \* the spinlock of condvar.c: NULL or the thread that holds it
    cv_q,       \* condvar->wait_q
    cv_armed,   \* threads that wait with a timeout
    cpc,        \* where each thread is in k_condvar_wait, "out" if not in it
    wanted,     \* history: depth of the mutex when k_condvar_wait was called
    items,      \* what the mutex guards
    owes        \* producers that have still to signal

cvOnly == <<cv_lock, cv_q, cv_armed, cpc, wanted, items, owes>>
cvVars == <<vars, cvOnly>>

Outside(t) == cpc[t] = "out" /\ CanRun(t)

\* The user's call: it owns the mutex and there is nothing to take.
k_condvar_wait(t) ==
    /\ cpc[t] \in {"out", "test"} /\ CanRun(t)
    /\ owner[CvMutex] = t /\ items = 0
    /\ cv_lock = NULL
    /\ cv_lock' = t
    /\ cpc' = [cpc EXCEPT ![t] = "unlock"]
    /\ wanted' = [wanted EXCEPT ![t] = depth[t][CvMutex]]
    /\ UNCHANGED <<vars, cv_q, cv_armed, items, owes>>

\* Variant: the spinlock is not held from the unlock to the wait.
WaitUnlock_open(t) ==
    /\ cpc[t] = "unlock" /\ CanRun(t)
    /\ UnlockNested(t, CvMutex) \/ UnlockFree(t, CvMutex) \/ UnlockHandOver(t, CvMutex)
    /\ cpc' = [cpc EXCEPT ![t] = "pend"]
    /\ cv_lock' = NULL
    /\ UNCHANGED <<cv_q, cv_armed, wanted, items, owes>>

\* k_mutex_unlock: one lock is undone, also when the caller locked it twice.
WaitUnlock(t) ==
    /\ cpc[t] = "unlock" /\ CanRun(t)
    /\ UnlockNested(t, CvMutex) \/ UnlockFree(t, CvMutex) \/ UnlockHandOver(t, CvMutex)
    /\ cpc' = [cpc EXCEPT ![t] = "pend"]
    /\ UNCHANGED <<cv_lock, cv_q, cv_armed, wanted, items, owes>>

\* z_pend_curr
WaitPend(t, timed) ==
    /\ cpc[t] = "pend" /\ ~faulted
    /\ cv_q' = InsertByPrio(cv_q, t)
    /\ cv_armed' = IF timed THEN cv_armed \union {t} ELSE cv_armed
    /\ cpc' = [cpc EXCEPT ![t] = "wait"]
    /\ cv_lock' = NULL
    /\ UNCHANGED <<vars, wanted, items, owes>>

\* z_thread_timeout of a thread in the wait queue.
WaitTimeout(t) ==
    /\ t \in cv_armed /\ ~faulted
    /\ cv_armed' = cv_armed \ {t}
    /\ cv_q' = Without(cv_q, t)
    /\ cpc' = [cpc EXCEPT ![t] = "late"]
    /\ UNCHANGED <<vars, cv_lock, wanted, items, owes>>

\* Where a thread goes on: a signalled one tests the condition again, one that
\* timed out returns.
AfterRelock(t) == IF cpc[t] \in {"woken", "woken-pend"} THEN "test" ELSE "out"

\* Variant: the mutex is taken again only after a signal.
Relock_signalled(t) ==
    \/ /\ cpc[t] = "woken"
       /\ \/ /\ LockNow(t, CvMutex)
             /\ cpc' = [cpc EXCEPT ![t] = AfterRelock(t)]
             /\ wanted' = [wanted EXCEPT ![t] = 0]
          \/ /\ LockPend(t, CvMutex, FALSE)
             /\ cpc' = [cpc EXCEPT ![t] = IF @ = "woken" THEN "woken-pend" ELSE "late-pend"]
             /\ UNCHANGED wanted
       /\ UNCHANGED <<cv_lock, cv_q, cv_armed, items, owes>>
    \/ /\ cpc[t] = "late"
       /\ cpc' = [cpc EXCEPT ![t] = "out"]
       /\ UNCHANGED <<vars, cv_lock, cv_q, cv_armed, wanted, items, owes>>

\* k_mutex_lock(mutex, K_FOREVER) after the wait.
Relock(t) ==
    /\ cpc[t] \in {"woken", "late"}
    /\ \/ /\ LockNow(t, CvMutex)
          /\ cpc' = [cpc EXCEPT ![t] = AfterRelock(t)]
          /\ wanted' = [wanted EXCEPT ![t] = 0]
       \/ /\ LockPend(t, CvMutex, FALSE)
          /\ cpc' = [cpc EXCEPT ![t] = IF @ = "woken" THEN "woken-pend" ELSE "late-pend"]
          /\ UNCHANGED wanted
    /\ UNCHANGED <<cv_lock, cv_q, cv_armed, items, owes>>

\* The owner has handed the mutex over.
RelockReturn(t) ==
    /\ cpc[t] \in {"woken-pend", "late-pend"} /\ CanRun(t)
    /\ cpc' = [cpc EXCEPT ![t] = AfterRelock(t)]
    /\ wanted' = [wanted EXCEPT ![t] = 0]
    /\ UNCHANGED <<vars, cv_lock, cv_q, cv_armed, items, owes>>

-----------------------------------------------------------------------------
k_condvar_signal(t) ==
    /\ Outside(t) /\ cv_lock = NULL
    /\ t \in owes \/ cv_q # <<>>
    /\ owes' = owes \ {t}
    /\ IF cv_q = <<>> THEN UNCHANGED <<cv_q, cv_armed, cpc>>
       ELSE /\ cv_q' = Tail(cv_q)
            /\ cv_armed' = cv_armed \ {Head(cv_q)}
            /\ cpc' = [cpc EXCEPT ![Head(cv_q)] = "woken"]
    /\ UNCHANGED <<vars, cv_lock, wanted, items>>

\* The loop of k_condvar_broadcast, which holds the lock throughout.
k_condvar_broadcast(t) ==
    /\ Outside(t) /\ cv_lock = NULL
    /\ cv_q # <<>>
    /\ owes' = owes \ {t}
    /\ cv_q' = <<>>
    /\ cv_armed' = {}
    /\ cpc' = [u \in Threads |-> IF u \in Range(cv_q) THEN "woken" ELSE cpc[u]]
    /\ UNCHANGED <<vars, cv_lock, wanted, items>>

-----------------------------------------------------------------------------
(* The users. *)

Produce(t) ==
    /\ Outside(t) /\ owner[CvMutex] = t
    /\ items < MaxItems /\ t \notin owes
    /\ items' = items + 1
    /\ owes' = owes \union {t}
    /\ UNCHANGED <<vars, cv_lock, cv_q, cv_armed, cpc, wanted>>

Consume(t) ==
    /\ cpc[t] \in {"out", "test"} /\ CanRun(t)
    /\ owner[CvMutex] = t
    /\ items > 0
    /\ items' = items - 1
    /\ cpc' = [cpc EXCEPT ![t] = "out"]
    /\ UNCHANGED <<vars, cv_lock, cv_q, cv_armed, wanted, owes>>

\* The calls of Mutex by a thread that is not in k_condvar_wait, and the
\* timeouts of such calls.
MutexCall(t) ==
    /\ cpc[t] = "out"
    /\ \/ \E m \in Mutexes :
             \/ LockNow(t, m) \/ LockPend(t, m, FALSE) \/ LockPend(t, m, TRUE)
             \/ UnlockNested(t, m) \/ UnlockFree(t, m) \/ UnlockHandOver(t, m)
       \/ Timeout(t) \/ LockTimedOut(t) \/ LockTimedOutUnowned(t)
    /\ UNCHANGED cvOnly

CvInit ==
    /\ Init
    /\ cv_lock = NULL
    /\ cv_q = <<>>
    /\ cv_armed = {}
    /\ cpc = [t \in Threads |-> "out"]
    /\ wanted = [t \in Threads |-> 0]
    /\ items = 0
    /\ owes = {}

CvNext ==
    \E t \in Threads :
        \/ MutexCall(t)
        \/ k_condvar_wait(t) \/ WaitUnlock(t)
        \/ WaitPend(t, FALSE) \/ WaitPend(t, TRUE) \/ WaitTimeout(t)
        \/ Relock(t) \/ RelockReturn(t)
        \/ k_condvar_signal(t) \/ k_condvar_broadcast(t)
        \/ Produce(t) \/ Consume(t)

CvSpec == CvInit /\ [][CvNext]_cvVars

-----------------------------------------------------------------------------
(* Properties. *)

\* No signal falls between the release of the mutex and the wait: while a
\* thread waits, every item there is has a producer that is still to signal,
\* or a thread that was woken and is still to test the condition.
NoLostSignal ==
    cv_q # <<>> =>
        items <= Cardinality(owes)
                 + Cardinality({t \in Threads : cpc[t] \in {"woken", "woken-pend", "test"}})

\* k_condvar_wait() returns with the mutex locked as often as before, to the
\* signalled and to the late, handed over or taken; a caller that had locked it
\* twice owns it meanwhile.
WaitKeepsDepth ==
    [][\A t \in Threads :
          cpc[t] \in {"woken", "woken-pend", "late", "late-pend"}
              /\ cpc'[t] \in {"test", "out"}
          => owner'[CvMutex] = t /\ lock_count'[CvMutex] = wanted[t]]_cvVars
=============================================================================
