------------------------------- MODULE Mutex -------------------------------
(***************************************************************************)
(* Mutexes with priority inheritance, kernel/mutex.c, on one CPU.          *)
(*                                                                         *)
(* One step is one section of the global spinlock of mutex.c.  A lock that *)
(* has to wait is two sections with the wait between them, and a wait that *)
(* timed out leaves a gap between the expiry, which takes the thread out   *)
(* of the wait queue, and the second section, in which the thread looks at *)
(* the mutex again.  Any runnable thread may run: a more urgent one may be *)
(* waiting for something else.  k_thread_priority_set() is not called on   *)
(* the users of a mutex.                                                   *)
(***************************************************************************)
EXTENDS Integers, Sequences, SequencesExt, FiniteSets

CONSTANTS Threads, Mutexes,
          BasePrio,     \* the priority of each thread; lower is more urgent
          CONFIG_PRIORITY_CEILING,
          Nested,       \* may a thread wait for a mutex while it owns another
          MaxDepth,     \* bound: locks of one mutex by its owner
          NULL

ASSUME MutexAssumption ==
    /\ BasePrio \in [Threads -> Int]
    /\ CONFIG_PRIORITY_CEILING \in Int
    /\ Nested \in BOOLEAN
    /\ MaxDepth \in Nat \ {0}
    /\ NULL \notin Threads \union Mutexes

VARIABLES
    owner,            \* mutex->owner
    lock_count,       \* mutex->lock_count
    owner_orig_prio,  \* mutex->owner_orig_prio
    wait_q,           \* mutex->wait_q
    prio,             \* thread->base.prio
    state,            \* "run", "pend", or "timedout": woken by its timeout
    waits,            \* the mutex that a "pend" or "timedout" thread called for
    armed,            \* threads with a timeout in the timeout queue
    depth,            \* history: locks each thread was granted and has not undone
    faulted           \* NULL was dereferenced; the system has stopped

vars == <<owner, lock_count, owner_orig_prio, wait_q, prio, state, waits, armed,
          depth, faulted>>

MoreUrgent(p, q) == IF p < q THEN p ELSE q

\* new_prio_for_inheritance, z_get_new_prio_with_ceiling
new_prio_for_inheritance(target, limit) ==
    LET p == MoreUrgent(target, limit)
    IN  IF p >= CONFIG_PRIORITY_CEILING THEN p ELSE CONFIG_PRIORITY_CEILING

\* Variant: new waiters at the end whatever their priority.
InsertByPrio_fifo(s, t) == Append(s, t)

\* z_priq_dumb_add: behind the threads of the same or a better priority.
InsertByPrio(s, t) ==
    LET worse == {i \in 1..Len(s) : prio[t] < prio[s[i]]}
        i     == IF worse = {} THEN Len(s) + 1
                 ELSE CHOOSE j \in worse : \A k \in worse : j <= k
    IN  InsertAt(s, i, t)

CanRun(t) == state[t] = "run" /\ ~faulted

-----------------------------------------------------------------------------
(* k_mutex_lock.  With K_NO_WAIT and a foreign owner it changes nothing. *)

LockNow(t, m) ==
    /\ CanRun(t)
    /\ lock_count[m] = 0 \/ owner[m] = t
    /\ lock_count[m] < MaxDepth
    /\ Nested \/ \A n \in Mutexes \ {m} : depth[t][n] = 0
    /\ owner_orig_prio' = IF lock_count[m] = 0
                          THEN [owner_orig_prio EXCEPT ![m] = prio[t]]
                          ELSE owner_orig_prio
    /\ lock_count' = [lock_count EXCEPT ![m] = @ + 1]
    /\ owner' = [owner EXCEPT ![m] = t]
    /\ depth' = [depth EXCEPT ![t][m] = @ + 1]
    /\ UNCHANGED <<wait_q, prio, state, waits, armed, faulted>>

\* adjust_owner_prio before the wait: raise the owner to the caller's priority.
RaisedPrio(t, m) ==
    LET o == owner[m]
        p == new_prio_for_inheritance(prio[t], prio[o])
    IN  IF p < prio[o] THEN [prio EXCEPT ![o] = p] ELSE prio

LockPend(t, m, timed) ==
    /\ CanRun(t)
    /\ lock_count[m] > 0 /\ owner[m] # t
    /\ Nested \/ \A n \in Mutexes : depth[t][n] = 0
    /\ prio' = RaisedPrio(t, m)
    /\ wait_q' = [wait_q EXCEPT ![m] = InsertByPrio(@, t)]
    /\ state' = [state EXCEPT ![t] = "pend"]
    /\ waits' = [waits EXCEPT ![t] = m]
    /\ armed' = IF timed THEN armed \union {t} ELSE armed
    /\ UNCHANGED <<owner, lock_count, owner_orig_prio, depth, faulted>>

\* unpend_thread_no_timeout: take t out of a wait queue.
Without(s, t) == RemoveAt(s, CHOOSE i \in 1..Len(s) : s[i] = t)

\* z_thread_timeout
Timeout(t) ==
    /\ t \in armed /\ ~faulted
    /\ armed' = armed \ {t}
    /\ wait_q' = [wait_q EXCEPT ![waits[t]] = Without(@, t)]
    /\ state' = [state EXCEPT ![t] = "timedout"]
    /\ UNCHANGED <<owner, lock_count, owner_orig_prio, prio, waits, depth, faulted>>

\* Variant: the remaining waiters are forgotten.
LoweredPrio_original(m) == owner_orig_prio[m]

\* The priority that a waiter's departure leaves the owner.
LoweredPrio(m) ==
    IF wait_q[m] = <<>> THEN owner_orig_prio[m]
    ELSE new_prio_for_inheritance(prio[Head(wait_q[m])], owner_orig_prio[m])

\* The second section after a timeout.
LockTimedOut(t) ==
    LET m == waits[t]
    IN  /\ state[t] = "timedout" /\ ~faulted
        /\ owner[m] # NULL
        /\ prio' = [prio EXCEPT ![owner[m]] = LoweredPrio(m)]
        /\ state' = [state EXCEPT ![t] = "run"]
        /\ waits' = [waits EXCEPT ![t] = NULL]
        /\ UNCHANGED <<owner, lock_count, owner_orig_prio, wait_q, armed, depth, faulted>>

\* adjust_owner_prio without an owner: mutex->owner->base.prio is read, and
\* written unless what is there equals the priority.
LockTimedOutUnowned(t) ==
    LET m == waits[t]
    IN  /\ state[t] = "timedout" /\ ~faulted
        /\ owner[m] = NULL
        /\ faulted' = TRUE
        /\ UNCHANGED <<owner, lock_count, owner_orig_prio, wait_q, prio, state,
                       waits, armed, depth>>

-----------------------------------------------------------------------------
(* k_mutex_unlock.  Called by another thread than the owner it changes nothing. *)

\* Variant: the test for -EPERM is missing.
UnlockNested_anyone(t, m) ==
    /\ CanRun(t)
    /\ lock_count[m] > 1
    /\ lock_count' = [lock_count EXCEPT ![m] = @ - 1]
    /\ depth' = [depth EXCEPT ![t][m] = @ - 1]
    /\ UNCHANGED <<owner, owner_orig_prio, wait_q, prio, state, waits, armed, faulted>>

UnlockNested(t, m) ==
    /\ CanRun(t)
    /\ owner[m] = t /\ lock_count[m] > 1
    /\ lock_count' = [lock_count EXCEPT ![m] = @ - 1]
    /\ depth' = [depth EXCEPT ![t][m] = @ - 1]
    /\ UNCHANGED <<owner, owner_orig_prio, wait_q, prio, state, waits, armed, faulted>>

UnlockFree(t, m) ==
    /\ CanRun(t)
    /\ owner[m] = t /\ lock_count[m] = 1
    /\ wait_q[m] = <<>>
    /\ prio' = [prio EXCEPT ![t] = owner_orig_prio[m]]
    /\ owner' = [owner EXCEPT ![m] = NULL]
    /\ lock_count' = [lock_count EXCEPT ![m] = 0]
    /\ depth' = [depth EXCEPT ![t][m] = @ - 1]
    /\ UNCHANGED <<owner_orig_prio, wait_q, state, waits, armed, faulted>>

\* Variant: the lock count is cleared although there is a new owner.
UnlockHandOver_cleared(t, m) ==
    /\ CanRun(t)
    /\ owner[m] = t /\ lock_count[m] = 1
    /\ wait_q[m] # <<>>
    /\ LET new_owner == Head(wait_q[m])
       IN  /\ prio' = [prio EXCEPT ![t] = owner_orig_prio[m]]
           /\ owner' = [owner EXCEPT ![m] = new_owner]
           /\ owner_orig_prio' = [owner_orig_prio EXCEPT ![m] = prio[new_owner]]
           /\ state' = [state EXCEPT ![new_owner] = "run"]
           /\ waits' = [waits EXCEPT ![new_owner] = NULL]
           /\ armed' = armed \ {new_owner}
           /\ depth' = [depth EXCEPT ![t][m] = @ - 1, ![new_owner][m] = @ + 1]
    /\ wait_q' = [wait_q EXCEPT ![m] = Tail(@)]
    /\ lock_count' = [lock_count EXCEPT ![m] = 0]
    /\ UNCHANGED faulted

\* The first waiter becomes the owner, with the lock count left at 1.
UnlockHandOver(t, m) ==
    /\ CanRun(t)
    /\ owner[m] = t /\ lock_count[m] = 1
    /\ wait_q[m] # <<>>
    /\ LET new_owner == Head(wait_q[m])
       IN  /\ prio' = [prio EXCEPT ![t] = owner_orig_prio[m]]
           /\ owner' = [owner EXCEPT ![m] = new_owner]
           /\ owner_orig_prio' = [owner_orig_prio EXCEPT ![m] = prio[new_owner]]
           /\ state' = [state EXCEPT ![new_owner] = "run"]
           /\ waits' = [waits EXCEPT ![new_owner] = NULL]
           /\ armed' = armed \ {new_owner}
           /\ depth' = [depth EXCEPT ![t][m] = @ - 1, ![new_owner][m] = @ + 1]
    /\ wait_q' = [wait_q EXCEPT ![m] = Tail(@)]
    /\ UNCHANGED <<lock_count, faulted>>

-----------------------------------------------------------------------------
Init ==
    /\ owner = [m \in Mutexes |-> NULL]
    /\ lock_count = [m \in Mutexes |-> 0]
    /\ owner_orig_prio = [m \in Mutexes |-> 0]
    /\ wait_q = [m \in Mutexes |-> <<>>]
    /\ prio = BasePrio
    /\ state = [t \in Threads |-> "run"]
    /\ waits = [t \in Threads |-> NULL]
    /\ armed = {}
    /\ depth = [t \in Threads |-> [m \in Mutexes |-> 0]]
    /\ faulted = FALSE

Next ==
    \/ \E t \in Threads, m \in Mutexes :
          \/ LockNow(t, m) \/ LockPend(t, m, FALSE) \/ LockPend(t, m, TRUE)
          \/ UnlockNested(t, m) \/ UnlockFree(t, m) \/ UnlockHandOver(t, m)
    \/ \E t \in Threads : Timeout(t) \/ LockTimedOut(t) \/ LockTimedOutUnowned(t)

Spec == Init /\ [][Next]_vars

-----------------------------------------------------------------------------
(* Properties. *)

\* The variables have their types.
TypeOK ==
    /\ owner \in [Mutexes -> Threads \union {NULL}]
    /\ lock_count \in [Mutexes -> 0..MaxDepth]
    /\ owner_orig_prio \in [Mutexes -> Int]
    /\ wait_q \in [Mutexes -> Seq(Threads)]
    /\ prio \in [Threads -> Int]
    /\ state \in [Threads -> {"run", "pend", "timedout"}]
    /\ waits \in [Threads -> Mutexes \union {NULL}]
    /\ armed \subseteq Threads
    /\ depth \in [Threads -> [Mutexes -> 0..MaxDepth]]
    /\ faulted \in BOOLEAN

\* A thread that was granted a mutex is its owner until it has unlocked it as
\* often as it locked it, and nobody else has been granted it; the hand-over in
\* k_mutex_unlock() included.
MutualExclusion ==
    \A t \in Threads, m \in Mutexes :
        depth[t][m] = IF owner[m] = t THEN lock_count[m] ELSE 0

\* An owner runs at the priority of its most urgent waiter or its own, and
\* every other thread at its own.  A waiter that gave up counts until it has run.
\* For ~Nested and a ceiling above all priorities.
InheritedPriority ==
    \A t \in Threads :
        LET after(m) == {u \in Threads : state[u] = "pend" /\ waits[u] = m}
            gone(m)  == {u \in Threads : state[u] = "timedout" /\ waits[u] = m}
            owned    == {m \in Mutexes : owner[m] = t}
            best(S)  == CHOOSE p \in {BasePrio[u] : u \in S} :
                            \A u \in S : p <= BasePrio[u]
        IN  /\ owned = {} => prio[t] = BasePrio[t]
            /\ \A m \in owned :
                  /\ prio[t] <= best({t} \union after(m))
                  /\ gone(m) = {} => prio[t] = best({t} \union after(m))

\* k_mutex_unlock() hands the mutex to the most urgent of its waiters.  Needs
\* ~Nested: a waiter that inherits a priority is not moved in the wait queue.
HandedToMostUrgent ==
    [][\A m \in Mutexes : \A t \in Range(wait_q[m]) :
          owner[m] # owner'[m] => prio[owner'[m]] <= prio[t]]_vars

\* A lock that timed out returns to its caller.
TimedOutLockReturns == ~faulted
=============================================================================
