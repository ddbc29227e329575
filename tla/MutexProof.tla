----------------------------- MODULE MutexProof -----------------------------
(***************************************************************************)
(* Theorems about Mutex: types and mutual exclusion, for any threads,      *)
(* mutexes, priorities and ceiling, nested or not, and priority            *)
(* inheritance for users that do not nest; and about Condvar, which        *)
(* implements Mutex: no signal is lost and the wait keeps the mutex.       *)
(***************************************************************************)
EXTENDS Condvar, SeqLemmas

\* A locked mutex has an owner.
OwnerInv == \A m \in Mutexes : lock_count[m] > 0 => owner[m] \in Threads

\* A thread is in the wait queue of the mutex it waits for and in no other, and
\* one with a timeout is in a wait queue.
WaitInv ==
    /\ \A m \in Mutexes : IsInjective(wait_q[m])
    /\ \A m \in Mutexes, t \in Threads :
          t \in Range(wait_q[m]) <=> state[t] = "pend" /\ waits[t] = m
    /\ \A t \in Threads : t \in armed => state[t] = "pend"
    /\ \A t \in Threads : state[t] # "run" => waits[t] \in Mutexes

Inv == TypeOK /\ OwnerInv /\ MutualExclusion /\ WaitInv

-----------------------------------------------------------------------------
(* The wait queue. *)

\* InsertByPrio adds the thread to the wait queue, behind its equals.
LEMMA InsertByPrioRange ==
    ASSUME prio \in [Threads -> Int], NEW s \in Seq(Threads), NEW t \in Threads
    PROVE  /\ InsertByPrio(s, t) \in Seq(Threads)
           /\ Range(InsertByPrio(s, t)) = Range(s) \union {t}
           /\ IsInjective(s) /\ t \notin Range(s) => IsInjective(InsertByPrio(s, t))
           /\ Ordered(s, prio) => Ordered(InsertByPrio(s, t), prio)
<1> DEFINE i == RankPlace(s, prio, t)
<1>1. InsertByPrio(s, t) = InsertAt(s, i, t)
  BY DEF InsertByPrio, RankPlace
<1>2. i \in 1..(Len(s) + 1)
  BY RankPlaceFacts
<1>3. Ordered(s, prio) => Ordered(InsertAt(s, i, t), prio)
  BY RankInsert
<1> HIDE DEF i
<1> QED
  BY <1>1, <1>2, <1>3, InsertAtElements, InsertAtRange

\* Without takes a waiter out of the wait queue.
LEMMA WithoutRange ==
    ASSUME NEW s \in Seq(Threads), NEW t \in Range(s), IsInjective(s)
    PROVE  /\ Without(s, t) \in Seq(Threads)
           /\ Range(Without(s, t)) = Range(s) \ {t}
           /\ IsInjective(Without(s, t))
           /\ Ordered(s, BasePrio) => Ordered(Without(s, t), BasePrio)
<1> DEFINE i == CHOOSE j \in 1..Len(s) : s[j] = t
<1>1. \E j \in 1..Len(s) : s[j] = t
  BY RangeMembers
<1>2. i \in 1..Len(s) /\ s[i] = t
  BY <1>1
<1>3. Without(s, t) = RemoveAt(s, i)
  BY DEF Without
<1> HIDE DEF i
<1>4. Ordered(s, BasePrio) => Ordered(RemoveAt(s, i), BasePrio)
  BY <1>2, RankRemove, MutexAssumption
<1> QED
  BY <1>2, <1>3, <1>4, RemoveAtElements, RemoveAtRange

-----------------------------------------------------------------------------
(* The inductive step. *)

\* Priorities stay numbers.
LEMMA PrioType ==
    ASSUME NEW p \in Int, NEW q \in Int
    PROVE  new_prio_for_inheritance(p, q) \in Int
BY MutexAssumption DEF new_prio_for_inheritance, MoreUrgent

\* Every section of k_mutex_lock() and k_mutex_unlock() preserves Inv.
LEMMA InvStep ==
    ASSUME Inv, [Next]_vars
    PROVE  Inv'
<1> USE MutexAssumption DEF Inv, TypeOK, OwnerInv, MutualExclusion, WaitInv, CanRun
<1>1. CASE UNCHANGED vars
  BY <1>1 DEF vars
<1>2. ASSUME NEW t \in Threads, NEW m \in Mutexes, LockNow(t, m) PROVE Inv'
  <2>1. TypeOK' /\ OwnerInv'
    BY <1>2 DEF LockNow
  <2>2. MutualExclusion'
    BY <1>2 DEF LockNow
  <2>3. WaitInv'
    BY <1>2 DEF LockNow
  <2> QED BY <2>1, <2>2, <2>3
<1>3. ASSUME NEW t \in Threads, NEW m \in Mutexes, NEW timed \in BOOLEAN,
             LockPend(t, m, timed)
      PROVE  Inv'
  <2>1. RaisedPrio(t, m) \in [Threads -> Int]
    <3>1. owner[m] \in Threads
      BY <1>3 DEF LockPend
    <3>2. new_prio_for_inheritance(prio[t], prio[owner[m]]) \in Int
      BY <3>1, PrioType
    <3> QED BY <3>1, <3>2 DEF RaisedPrio
  <2>2. state[t] = "run" /\ t \notin Range(wait_q[m])
    BY <1>3 DEF LockPend
  <2>3. /\ wait_q[m] \in Seq(Threads) /\ IsInjective(wait_q[m])
    OBVIOUS
  <2>4. /\ InsertByPrio(wait_q[m], t) \in Seq(Threads)
        /\ Range(InsertByPrio(wait_q[m], t)) = Range(wait_q[m]) \union {t}
        /\ IsInjective(InsertByPrio(wait_q[m], t))
    <3>1. prio \in [Threads -> Int]
      OBVIOUS
    <3> HIDE DEF Inv
    <3> QED BY <2>2, <2>3, <3>1, InsertByPrioRange
  <2> DEFINE q == InsertByPrio(wait_q[m], t)
  <2>5. /\ prio' \in [Threads -> Int]
        /\ wait_q' = [wait_q EXCEPT ![m] = q]
        /\ state' = [state EXCEPT ![t] = "pend"]
        /\ waits' = [waits EXCEPT ![t] = m]
        /\ armed \subseteq armed' /\ armed' \subseteq armed \union {t}
        /\ UNCHANGED <<owner, lock_count, owner_orig_prio, depth, faulted>>
    BY <1>3, <2>1 DEF LockPend
  <2> HIDE DEF q
  <2>6. TypeOK' /\ OwnerInv' /\ MutualExclusion'
    BY <2>4, <2>5 DEF q
  <2>7. WaitInv'
    <3>1. \A n \in Mutexes : wait_q'[n] = IF n = m THEN q ELSE wait_q[n]
      BY <2>5
    <3>2. \A n \in Mutexes : IsInjective(wait_q'[n])
      <4>1. \A n \in Mutexes : IsInjective(wait_q[n])
        OBVIOUS
      <4> HIDE DEF Inv
      <4> QED BY <2>4, <3>1, <4>1 DEF q
    <3>3. \A n \in Mutexes, u \in Threads :
             u \in Range(wait_q'[n]) <=> u \in Range(wait_q[n]) \/ (n = m /\ u = t)
      <4> HIDE DEF Inv
      <4> QED BY <2>4, <3>1 DEF q
    <3>4. /\ state'[t] = "pend" /\ waits'[t] = m
          /\ \A u \in Threads \ {t} : state'[u] = state[u] /\ waits'[u] = waits[u]
      BY <2>5
    <3> QED BY <2>2, <2>5, <3>2, <3>3, <3>4
  <2> QED BY <2>6, <2>7
<1>4. ASSUME NEW t \in Threads, Timeout(t) PROVE Inv'
  <2> DEFINE m == waits[t]
  <2>1. /\ m \in Mutexes /\ state[t] = "pend" /\ t \in Range(wait_q[m])
        /\ wait_q[m] \in Seq(Threads) /\ IsInjective(wait_q[m])
    BY <1>4 DEF Timeout
  <2>2. /\ Without(wait_q[m], t) \in Seq(Threads)
        /\ Range(Without(wait_q[m], t)) = Range(wait_q[m]) \ {t}
        /\ IsInjective(Without(wait_q[m], t))
    <3> HIDE DEF Inv, m
    <3> QED BY <2>1, WithoutRange
  <2>3. TypeOK' /\ OwnerInv' /\ MutualExclusion'
    BY <1>4, <2>1, <2>2 DEF Timeout
  <2>4. WaitInv'
    BY <1>4, <2>1, <2>2 DEF Timeout
  <2> QED BY <2>3, <2>4
<1>5. ASSUME NEW t \in Threads, LockTimedOut(t) PROVE Inv'
  <2>1. waits[t] \in Mutexes
    BY <1>5 DEF LockTimedOut
  <2>2. LoweredPrio(waits[t]) \in Int
    <3>1. wait_q[waits[t]] # <<>> => Head(wait_q[waits[t]]) \in Threads
      BY <2>1, HeadTailProperties
    <3>2. owner_orig_prio[waits[t]] \in Int
      BY <2>1
    <3>3. wait_q[waits[t]] # <<>> => prio[Head(wait_q[waits[t]])] \in Int
      BY <3>1
    <3> HIDE DEF Inv
    <3> QED BY <3>2, <3>3, PrioType DEF LoweredPrio
  <2> QED BY <1>5, <2>1, <2>2 DEF LockTimedOut
<1>6. ASSUME NEW t \in Threads, LockTimedOutUnowned(t) PROVE Inv'
  BY <1>6 DEF LockTimedOutUnowned
<1>7. ASSUME NEW t \in Threads, NEW m \in Mutexes, UnlockNested(t, m) PROVE Inv'
  BY <1>7 DEF UnlockNested
<1>8. ASSUME NEW t \in Threads, NEW m \in Mutexes, UnlockFree(t, m) PROVE Inv'
  BY <1>8 DEF UnlockFree
<1>9. ASSUME NEW t \in Threads, NEW m \in Mutexes, UnlockHandOver(t, m) PROVE Inv'
  <2> DEFINE w == Head(wait_q[m])
  <2>1. wait_q[m] \in Seq(Threads) /\ wait_q[m] # <<>> /\ IsInjective(wait_q[m])
    BY <1>9 DEF UnlockHandOver
  <2>2. /\ w \in Threads /\ w \in Range(wait_q[m])
        /\ Tail(wait_q[m]) \in Seq(Threads)
        /\ Range(Tail(wait_q[m])) = Range(wait_q[m]) \ {w}
        /\ IsInjective(Tail(wait_q[m]))
    <3> HIDE DEF Inv
    <3> QED BY <2>1, TailRange
  <2>3. state[w] = "pend" /\ waits[w] = m /\ w # t
    BY <1>9, <2>2 DEF UnlockHandOver
  <2>4. /\ owner[m] = t /\ lock_count[m] = 1
        /\ prio' = [prio EXCEPT ![t] = owner_orig_prio[m]]
        /\ owner' = [owner EXCEPT ![m] = w]
        /\ owner_orig_prio' = [owner_orig_prio EXCEPT ![m] = prio[w]]
        /\ state' = [state EXCEPT ![w] = "run"]
        /\ waits' = [waits EXCEPT ![w] = NULL]
        /\ armed' = armed \ {w}
        /\ depth' = [depth EXCEPT ![t][m] = @ - 1, ![w][m] = @ + 1]
        /\ wait_q' = [wait_q EXCEPT ![m] = Tail(@)]
        /\ UNCHANGED <<lock_count, faulted>>
    BY <1>9 DEF UnlockHandOver
  <2> HIDE DEF w
  <2>5. depth[t][m] = 1 /\ depth[w][m] = 0
    BY <2>2, <2>3, <2>4
  <2>6. depth' = [depth EXCEPT ![t] = [depth[t] EXCEPT ![m] = 0],
                               ![w] = [depth[w] EXCEPT ![m] = 1]]
    BY <2>2, <2>3, <2>4, <2>5
  <2>7. depth' \in [Threads -> [Mutexes -> 0..MaxDepth]]
    <3>1. /\ depth \in [Threads -> [Mutexes -> 0..MaxDepth]]
          /\ [depth[t] EXCEPT ![m] = 0] \in [Mutexes -> 0..MaxDepth]
          /\ [depth[w] EXCEPT ![m] = 1] \in [Mutexes -> 0..MaxDepth]
      BY <2>2
    <3> HIDE DEF Inv
    <3> QED BY <2>2, <2>6, <3>1
  <2>8. /\ wait_q' \in [Mutexes -> Seq(Threads)]
        /\ \A n \in Mutexes : n # m => wait_q'[n] = wait_q[n]
        /\ wait_q'[m] = Tail(wait_q[m])
    <3>1. wait_q \in [Mutexes -> Seq(Threads)]
      OBVIOUS
    <3> HIDE DEF Inv
    <3> QED BY <2>2, <2>4, <3>1
  <2>9. TypeOK'
    <3>1. /\ prio' \in [Threads -> Int] /\ owner_orig_prio' \in [Mutexes -> Int]
          /\ owner' \in [Mutexes -> Threads \union {NULL}]
          /\ lock_count' \in [Mutexes -> 0..MaxDepth] /\ faulted' \in BOOLEAN
      BY <2>2, <2>4
    <3>2. /\ state' \in [Threads -> {"run", "pend", "timedout"}]
          /\ waits' \in [Threads -> Mutexes \union {NULL}]
          /\ armed' \subseteq Threads
      BY <2>2, <2>4
    <3> HIDE DEF Inv
    <3> QED BY <2>7, <2>8, <3>1, <3>2
  <2>10. OwnerInv'
    BY <2>2, <2>4
  <2>11. MutualExclusion'
    <3> SUFFICES ASSUME NEW u \in Threads, NEW n \in Mutexes
                 PROVE  depth'[u][n] = IF owner'[n] = u THEN lock_count'[n] ELSE 0
      OBVIOUS
    <3>1. depth[u][n] = IF owner[n] = u THEN lock_count[n] ELSE 0
      OBVIOUS
    <3>2. depth'[u][n] = IF n = m /\ u = t THEN 0
                         ELSE IF n = m /\ u = w THEN 1 ELSE depth[u][n]
      <4>1. depth \in [Threads -> [Mutexes -> 0..MaxDepth]]
        OBVIOUS
      <4> HIDE DEF Inv
      <4> QED BY <2>2, <2>3, <2>6, <4>1
    <3>3. owner'[n] = (IF n = m THEN w ELSE owner[n]) /\ lock_count' = lock_count
      BY <2>4
    <3> HIDE DEF Inv
    <3> QED BY <2>3, <2>4, <3>1, <3>2, <3>3
  <2>12. WaitInv'
    <3>1. \A n \in Mutexes : IsInjective(wait_q'[n])
      <4>1. \A n \in Mutexes : IsInjective(wait_q[n])
        OBVIOUS
      <4> HIDE DEF Inv
      <4> QED BY <2>2, <2>8, <4>1
    <3>2. \A n \in Mutexes, u \in Threads :
             u \in Range(wait_q'[n]) <=> u \in Range(wait_q[n]) /\ (n = m => u # w)
      <4> HIDE DEF Inv
      <4> QED BY <2>2, <2>8
    <3>3. /\ state'[w] = "run" /\ waits'[w] = NULL
          /\ \A u \in Threads \ {w} : state'[u] = state[u] /\ waits'[u] = waits[u]
      BY <2>2, <2>4
    <3>4. \A n \in Mutexes, u \in Threads :
             u \in Range(wait_q'[n]) <=> state'[u] = "pend" /\ waits'[u] = n
      <4>1. \A n \in Mutexes, u \in Threads :
               u \in Range(wait_q[n]) <=> state[u] = "pend" /\ waits[u] = n
        OBVIOUS
      <4> HIDE DEF Inv
      <4> QED BY <2>2, <2>3, <3>2, <3>3, <4>1
    <3>5. \A u \in Threads : /\ u \in armed' => state'[u] = "pend"
                             /\ state'[u] # "run" => waits'[u] \in Mutexes
      <4>1. \A u \in Threads : /\ u \in armed => state[u] = "pend"
                               /\ state[u] # "run" => waits[u] \in Mutexes
        OBVIOUS
      <4> HIDE DEF Inv
      <4> QED BY <2>2, <2>4, <3>3, <4>1
    <3> HIDE DEF Inv
    <3> QED BY <3>1, <3>4, <3>5
  <2> QED BY <2>9, <2>10, <2>11, <2>12
<1> QED
  BY <1>1, <1>2, <1>3, <1>4, <1>5, <1>6, <1>7, <1>8, <1>9 DEF Next

\* The initial state satisfies Inv.
LEMMA InvInit == Init => Inv
<1> SUFFICES ASSUME Init PROVE Inv
  OBVIOUS
<1>1. \A m \in Mutexes : Range(wait_q[m]) = {} /\ IsInjective(wait_q[m])
  BY DEF Init, Range, IsInjective
<1> USE MutexAssumption DEF Init
<1>2. TypeOK
  <2>1. <<>> \in Seq(Threads) /\ 0 \in 0..MaxDepth
    OBVIOUS
  <2>2. depth \in [Threads -> [Mutexes -> 0..MaxDepth]]
    BY <2>1
  <2>3. prio \in [Threads -> Int] /\ armed \subseteq Threads /\ faulted \in BOOLEAN
    OBVIOUS
  <2>4. /\ state \in [Threads -> {"run", "pend", "timedout"}]
        /\ waits \in [Threads -> Mutexes \union {NULL}]
    OBVIOUS
  <2>5. /\ owner \in [Mutexes -> Threads \union {NULL}]
        /\ lock_count \in [Mutexes -> 0..MaxDepth]
        /\ owner_orig_prio \in [Mutexes -> Int]
        /\ wait_q \in [Mutexes -> Seq(Threads)]
    BY <2>1
  <2> QED BY <2>2, <2>3, <2>4, <2>5 DEF TypeOK
<1>3. OwnerInv
  BY DEF OwnerInv
<1>4. MutualExclusion
  BY DEF MutualExclusion
<1>5. WaitInv
  BY <1>1 DEF WaitInv
<1> QED
  BY <1>2, <1>3, <1>4, <1>5 DEF Inv

\* A mutex is granted to one thread at a time, which keeps it until it has undone
\* every lock, through hand-overs, timeouts and nested use.
THEOREM MutexSafe == Spec => []MutualExclusion
<1>1. Inv => MutualExclusion
  BY DEF Inv
<1>2. Inv /\ [Next]_vars => Inv'
  BY InvStep
<1> QED BY <1>1, <1>2, InvInit, PTL DEF Spec

\* TypeOK is an invariant of the mutexes.
THEOREM TypeCorrect == Spec => []TypeOK
<1>1. Inv => TypeOK
  BY DEF Inv
<1>2. Inv /\ [Next]_vars => Inv'
  BY InvStep
<1> QED BY <1>1, <1>2, InvInit, PTL DEF Spec

-----------------------------------------------------------------------------
(* Priorities, for users that do not wait for a mutex while they own another. *)

\* An owner owns one mutex, which knows the priority to restore; a thread that
\* owns none, and so every waiter, runs at its own; a wait queue is ordered, and
\* somebody will serve it.
PrioInv ==
    /\ \A m \in Mutexes : owner[m] \in Threads =>
          lock_count[m] > 0 /\ owner_orig_prio[m] = BasePrio[owner[m]]
    /\ \A m \in Mutexes : wait_q[m] # <<>> => owner[m] \in Threads
    /\ \A m, n \in Mutexes : owner[m] = owner[n] /\ owner[m] \in Threads => m = n
    /\ \A t \in Threads : state[t] # "run" => \A m \in Mutexes : owner[m] # t
    /\ \A t \in Threads : (\A m \in Mutexes : owner[m] # t) => prio[t] = BasePrio[t]
    /\ \A m \in Mutexes : Ordered(wait_q[m], BasePrio)

\* The waiters of a mutex run at their own priorities.
LEMMA WaiterPrio ==
    ASSUME Inv, PrioInv, NEW m \in Mutexes, NEW u \in Range(wait_q[m])
    PROVE  u \in Threads /\ state[u] = "pend" /\ waits[u] = m /\ prio[u] = BasePrio[u]
<1>1. wait_q[m] \in Seq(Threads)
  BY DEF Inv, TypeOK
<1>2. u \in Threads
  BY <1>1, RangeMembers
<1>3. state[u] = "pend" /\ waits[u] = m
  BY <1>2 DEF Inv, WaitInv
<1>4. \A n \in Mutexes : owner[n] # u
  BY <1>2, <1>3 DEF PrioInv
<1> QED BY <1>2, <1>3, <1>4 DEF PrioInv

\* Who has locked nothing owns nothing.
LEMMA DepthOwns ==
    ASSUME Inv, PrioInv, NEW t \in Threads, NEW m \in Mutexes, depth[t][m] = 0
    PROVE  owner[m] # t
BY DEF Inv, MutualExclusion, PrioInv

\* Two ranks that agree on a sequence order it alike.
LEMMA OrderedAgree ==
    ASSUME NEW s \in Seq(Threads), NEW f, NEW g, \A u \in Range(s) : f[u] = g[u]
    PROVE  Ordered(s, f) <=> Ordered(s, g)
<1>1. \A i \in 1..Len(s) : f[s[i]] = g[s[i]]
  BY RangeMembers
<1> QED BY <1>1 DEF Ordered

\* Every step preserves PrioInv.
LEMMA PrioStep ==
    ASSUME ~Nested, Inv, PrioInv, [Next]_vars
    PROVE  PrioInv'
<1>0. /\ owner \in [Mutexes -> Threads \union {NULL}]
      /\ lock_count \in [Mutexes -> 0..MaxDepth]
      /\ owner_orig_prio \in [Mutexes -> Int]
      /\ wait_q \in [Mutexes -> Seq(Threads)]
      /\ prio \in [Threads -> Int]
      /\ state \in [Threads -> {"run", "pend", "timedout"}]
      /\ waits \in [Threads -> Mutexes \union {NULL}]
      /\ BasePrio \in [Threads -> Int] /\ NULL \notin Threads /\ MaxDepth \in Nat
  BY MutexAssumption DEF Inv, TypeOK
<1> USE DEF PrioInv
<1>1. CASE UNCHANGED vars
  BY <1>1 DEF vars
<1>2. ASSUME NEW t \in Threads, NEW m \in Mutexes, LockNow(t, m) PROVE PrioInv'
  <2>1. \A n \in Mutexes \ {m} : owner[n] # t
    BY <1>2, DepthOwns DEF LockNow
  <2>2. /\ lock_count' = [lock_count EXCEPT ![m] = @ + 1]
        /\ owner' = [owner EXCEPT ![m] = t]
        /\ state[t] = "run"
        /\ UNCHANGED <<wait_q, prio, state>>
    BY <1>2 DEF LockNow, CanRun
  <2>3. owner[m] = t \/ owner[m] = NULL
    BY <1>0, <1>2 DEF LockNow
  <2>4. owner_orig_prio'[m] = BasePrio[t] /\ \A n \in Mutexes \ {m} : owner_orig_prio'[n] = owner_orig_prio[n]
    <3>1. CASE lock_count[m] = 0
      <4>1. owner[m] # t
        BY <3>1
      <4>2. prio[t] = BasePrio[t]
        BY <2>1, <4>1
      <4> QED BY <1>0, <1>2, <3>1, <4>2 DEF LockNow
    <3>2. CASE lock_count[m] # 0
      BY <1>0, <1>2, <3>2 DEF LockNow
    <3> QED BY <3>1, <3>2
  <2>5. \A n \in Mutexes : owner'[n] = IF n = m THEN t ELSE owner[n]
    BY <1>0, <2>2
  <2>6. \A n \in Mutexes : lock_count'[n] >= lock_count[n] /\ lock_count'[m] > 0 /\ lock_count[n] \in Nat
                           /\ lock_count'[n] \in Nat
    BY <1>0, <2>2
  <2>7. \A n \in Mutexes : owner'[n] \in Threads =>
           lock_count'[n] > 0 /\ owner_orig_prio'[n] = BasePrio[owner'[n]]
    BY <2>4, <2>5, <2>6
  <2>8. \A n, k \in Mutexes : owner'[n] = owner'[k] /\ owner'[n] \in Threads => n = k
    BY <2>1, <2>5
  <2>9. \A u \in Threads : state'[u] # "run" => \A n \in Mutexes : owner'[n] # u
    BY <2>2, <2>5
  <2>10. \A u \in Threads : (\A n \in Mutexes : owner'[n] # u) => prio'[u] = BasePrio[u]
    BY <1>0, <2>2, <2>3, <2>5
  <2> QED BY <2>2, <2>5, <2>7, <2>8, <2>9, <2>10
<1>3. ASSUME NEW t \in Threads, NEW m \in Mutexes, NEW timed \in BOOLEAN, LockPend(t, m, timed)
      PROVE  PrioInv'
  <2> DEFINE q == InsertByPrio(wait_q[m], t)
  <2>1. \A n \in Mutexes : owner[n] # t
    BY <1>3, DepthOwns DEF LockPend
  <2>2. owner[m] \in Threads
    BY <1>3 DEF LockPend, Inv, OwnerInv
  <2>3. /\ wait_q' = [wait_q EXCEPT ![m] = q]
        /\ state' = [state EXCEPT ![t] = "pend"]
        /\ UNCHANGED <<owner, lock_count, owner_orig_prio>>
        /\ prio' = RaisedPrio(t, m)
    BY <1>3 DEF LockPend
  <2>4. \A u \in Threads : u # owner[m] => prio'[u] = prio[u]
    BY <1>0, <2>2, <2>3 DEF RaisedPrio
  <2>5. Ordered(q, BasePrio)
    <3>1. wait_q[m] \in Seq(Threads) /\ Ordered(wait_q[m], BasePrio)
      BY <1>0
    <3>2. \A u \in Range(wait_q[m]) : prio[u] = BasePrio[u]
      BY WaiterPrio
    <3>3. prio[t] = BasePrio[t]
      BY <2>1
    <3>4. Ordered(wait_q[m], prio)
      BY <3>1, <3>2, OrderedAgree
    <3>5. /\ q \in Seq(Threads) /\ Range(q) = Range(wait_q[m]) \union {t}
          /\ Ordered(q, prio)
      BY <1>0, <3>1, <3>4, InsertByPrioRange
    <3>6. \A u \in Range(q) : prio[u] = BasePrio[u]
      BY <3>2, <3>3, <3>5
    <3> HIDE DEF q
    <3> QED BY <3>5, <3>6, OrderedAgree
  <2> HIDE DEF q
  <2>6. \A n \in Mutexes : wait_q'[n] = IF n = m THEN q ELSE wait_q[n]
    BY <1>0, <2>3
  <2>7. \A n \in Mutexes : Ordered(wait_q'[n], BasePrio) /\ (wait_q'[n] # <<>> => owner'[n] \in Threads)
    BY <2>2, <2>3, <2>5, <2>6
  <2>8. \A u \in Threads : state'[u] # "run" => \A n \in Mutexes : owner'[n] # u
    BY <1>0, <2>1, <2>3
  <2> QED BY <2>2, <2>3, <2>4, <2>7, <2>8
<1>4. ASSUME NEW t \in Threads, Timeout(t) PROVE PrioInv'
  <2> DEFINE m == waits[t]
             q == Without(wait_q[m], t)
  <2>1. /\ m \in Mutexes /\ state[t] = "pend" /\ t \in Range(wait_q[m])
        /\ wait_q[m] \in Seq(Threads) /\ IsInjective(wait_q[m])
    BY <1>0, <1>4 DEF Timeout, Inv, WaitInv
  <2>2. Ordered(q, BasePrio)
    BY <2>1, WithoutRange
  <2>3. wait_q[m] # <<>>
    BY <2>1, EmptySeq DEF Range
  <2>4. /\ wait_q' = [wait_q EXCEPT ![m] = q]
        /\ state' = [state EXCEPT ![t] = "timedout"]
        /\ UNCHANGED <<owner, lock_count, owner_orig_prio, prio>>
    BY <1>4 DEF Timeout
  <2> HIDE DEF m, q
  <2>5. \A n \in Mutexes : wait_q'[n] = IF n = m THEN q ELSE wait_q[n]
    BY <1>0, <2>1, <2>4
  <2>6. \A n \in Mutexes : Ordered(wait_q'[n], BasePrio) /\ (wait_q'[n] # <<>> => owner'[n] \in Threads)
    BY <2>1, <2>2, <2>3, <2>4, <2>5
  <2>7. \A u \in Threads : state'[u] # "run" => state[u] # "run"
    BY <1>0, <2>1, <2>4
  <2> QED BY <2>4, <2>6, <2>7
<1>5. ASSUME NEW t \in Threads, LockTimedOut(t) PROVE PrioInv'
  <2> DEFINE o == owner[waits[t]]
  <2>1. waits[t] \in Mutexes /\ o \in Threads
    BY <1>0, <1>5 DEF LockTimedOut, Inv, WaitInv
  <2>2. /\ \A u \in Threads : u # o => prio'[u] = prio[u]
        /\ \A u \in Threads : state'[u] # "run" => state[u] # "run"
        /\ UNCHANGED <<owner, lock_count, owner_orig_prio, wait_q>>
    BY <1>0, <1>5, <2>1 DEF LockTimedOut
  <2> QED BY <2>1, <2>2
<1>6. ASSUME NEW t \in Threads, LockTimedOutUnowned(t) PROVE PrioInv'
  BY <1>6 DEF LockTimedOutUnowned
<1>7. ASSUME NEW t \in Threads, NEW m \in Mutexes, UnlockNested(t, m) PROVE PrioInv'
  <2>1. /\ \A n \in Mutexes : lock_count[n] > 0 => lock_count'[n] > 0
        /\ UNCHANGED <<owner, owner_orig_prio, wait_q, prio, state>>
    BY <1>0, <1>7 DEF UnlockNested
  <2> QED BY <2>1
<1>8. ASSUME NEW t \in Threads, NEW m \in Mutexes, UnlockFree(t, m) PROVE PrioInv'
  <2>1. /\ owner[m] = t /\ state[t] = "run" /\ wait_q[m] = <<>>
        /\ \A n \in Mutexes : owner'[n] = IF n = m THEN NULL ELSE owner[n]
        /\ \A n \in Mutexes \ {m} : lock_count'[n] = lock_count[n]
        /\ \A u \in Threads : prio'[u] = IF u = t THEN owner_orig_prio[m] ELSE prio[u]
        /\ UNCHANGED <<owner_orig_prio, wait_q, state>>
    BY <1>0, <1>8 DEF UnlockFree, CanRun
  <2>2. owner_orig_prio[m] = BasePrio[t]
    BY <2>1
  <2>3. \A u \in Threads : (\A n \in Mutexes : owner'[n] # u) => prio'[u] = BasePrio[u]
    BY <2>1, <2>2
  <2>4. \A n \in Mutexes : owner'[n] \in Threads =>
           lock_count'[n] > 0 /\ owner_orig_prio'[n] = BasePrio[owner'[n]]
    BY <1>0, <2>1
  <2>5. \A n \in Mutexes : wait_q'[n] # <<>> => owner'[n] \in Threads
    BY <2>1
  <2>6. ASSUME NEW n \in Mutexes, NEW k \in Mutexes, owner'[n] = owner'[k], owner'[n] \in Threads
        PROVE  n = k
    <3>1. n # m /\ k # m
      BY <1>0, <2>1, <2>6
    <3>2. owner[n] = owner[k] /\ owner[n] \in Threads
      BY <2>1, <2>6, <3>1
    <3> QED BY <3>2
  <2>7. \A u \in Threads : state'[u] # "run" => \A n \in Mutexes : owner'[n] # u
    BY <1>0, <2>1
  <2>8. \A n \in Mutexes : Ordered(wait_q'[n], BasePrio)
    BY <2>1
  <2> QED BY <2>3, <2>4, <2>5, <2>6, <2>7, <2>8
<1>9. ASSUME NEW t \in Threads, NEW m \in Mutexes, UnlockHandOver(t, m) PROVE PrioInv'
  <2> DEFINE w == Head(wait_q[m])
  <2>1. wait_q[m] \in Seq(Threads) /\ wait_q[m] # <<>> /\ Ordered(wait_q[m], BasePrio)
    BY <1>0, <1>9 DEF UnlockHandOver
  <2>2. w \in Range(wait_q[m]) /\ Ordered(Tail(wait_q[m]), BasePrio)
    BY <1>0, <2>1, TailRange, RankHead
  <2>3. w \in Threads /\ state[w] = "pend" /\ prio[w] = BasePrio[w]
    BY <2>2, WaiterPrio
  <2>4. \A n \in Mutexes : owner[n] # w
    BY <2>3
  <2>5. /\ owner[m] = t /\ state[t] = "run" /\ lock_count[m] = 1
        /\ prio' = [prio EXCEPT ![t] = owner_orig_prio[m]]
        /\ owner' = [owner EXCEPT ![m] = w]
        /\ owner_orig_prio' = [owner_orig_prio EXCEPT ![m] = prio[w]]
        /\ state' = [state EXCEPT ![w] = "run"]
        /\ wait_q' = [wait_q EXCEPT ![m] = Tail(@)]
        /\ UNCHANGED lock_count
    BY <1>9 DEF UnlockHandOver, CanRun
  <2> HIDE DEF w
  <2>6. /\ \A n \in Mutexes : owner'[n] = IF n = m THEN w ELSE owner[n]
        /\ \A n \in Mutexes : owner_orig_prio'[n] = IF n = m THEN BasePrio[w] ELSE owner_orig_prio[n]
        /\ \A n \in Mutexes : wait_q'[n] = IF n = m THEN Tail(wait_q[m]) ELSE wait_q[n]
        /\ \A u \in Threads : prio'[u] = IF u = t THEN BasePrio[t] ELSE prio[u]
        /\ \A u \in Threads : state'[u] = IF u = w THEN "run" ELSE state[u]
    BY <1>0, <2>3, <2>5
  <2>7. \A n \in Mutexes : owner'[n] \in Threads =>
           lock_count'[n] > 0 /\ owner_orig_prio'[n] = BasePrio[owner'[n]]
    BY <2>5, <2>6
  <2>8. /\ \A n \in Mutexes : wait_q'[n] # <<>> => owner'[n] \in Threads
        /\ \A n \in Mutexes : Ordered(wait_q'[n], BasePrio)
    BY <2>2, <2>3, <2>6
  <2>9. \A n, k \in Mutexes : owner'[n] = owner'[k] /\ owner'[n] \in Threads => n = k
    BY <2>4, <2>6
  <2>10. \A u \in Threads : state'[u] # "run" => \A n \in Mutexes : owner'[n] # u
    BY <2>6
  <2>11. ASSUME NEW u \in Threads, \A n \in Mutexes : owner'[n] # u
         PROVE  prio'[u] = BasePrio[u]
    <3>1. u # t => \A n \in Mutexes : owner[n] # u
      BY <2>5, <2>6, <2>11
    <3> QED BY <2>6, <3>1
  <2> QED BY <2>7, <2>8, <2>9, <2>10, <2>11
<1> HIDE DEF PrioInv
<1> QED
  BY <1>1, <1>2, <1>3, <1>4, <1>5, <1>6, <1>7, <1>8, <1>9 DEF Next

\* The initial state satisfies PrioInv.
LEMMA PrioInit == Init => PrioInv
<1> SUFFICES ASSUME Init PROVE PrioInv
  OBVIOUS
<1>1. \A m \in Mutexes : Ordered(wait_q[m], BasePrio)
  BY DEF Init, Ordered
<1> QED BY <1>1, MutexAssumption DEF Init, PrioInv

\* Only a hand-over changes the owner of a mutex that has waiters, and it takes
\* the head of an ordered wait queue.
LEMMA HandOverStep ==
    ASSUME ~Nested, Inv, PrioInv, [Next]_vars,
           NEW m \in Mutexes, NEW u \in Range(wait_q[m]), owner[m] # owner'[m]
    PROVE  prio[owner'[m]] <= prio[u]
<1>0. /\ owner \in [Mutexes -> Threads \union {NULL}] /\ wait_q[m] \in Seq(Threads)
      /\ BasePrio \in [Threads -> Int]
  BY MutexAssumption DEF Inv, TypeOK
<1>1. wait_q[m] # <<>>
  BY EmptySeq DEF Range
<1>2. owner[m] \in Threads /\ lock_count[m] > 0 /\ Ordered(wait_q[m], BasePrio)
  BY <1>1 DEF PrioInv
<1>3. \E t \in Threads : UnlockHandOver(t, m)
  <2>1. ASSUME NEW t \in Threads, NEW n \in Mutexes, LockNow(t, n) PROVE FALSE
    <3>1. owner' = [owner EXCEPT ![n] = t] /\ (lock_count[n] = 0 \/ owner[n] = t)
      BY <2>1 DEF LockNow
    <3> QED BY <1>0, <1>2, <3>1
  <2>2. ASSUME NEW t \in Threads, NEW n \in Mutexes, UnlockFree(t, n) PROVE FALSE
    BY <1>0, <1>1, <2>2 DEF UnlockFree
  <2>3. ASSUME NEW t \in Threads, NEW n \in Mutexes, UnlockHandOver(t, n) PROVE n = m
    BY <1>0, <2>3 DEF UnlockHandOver
  <2>4. CASE UNCHANGED owner
    BY <2>4
  <2> QED
    BY <2>1, <2>2, <2>3, <2>4
       DEF Next, vars, LockPend, UnlockNested, Timeout, LockTimedOut, LockTimedOutUnowned
<1>4. owner'[m] = Head(wait_q[m])
  BY <1>0, <1>3 DEF UnlockHandOver
<1>5. Head(wait_q[m]) \in Range(wait_q[m]) /\ BasePrio[Head(wait_q[m])] <= BasePrio[u]
  BY <1>0, <1>1, <1>2, TailRange, RankHead
<1> QED BY <1>4, <1>5, WaiterPrio

\* k_mutex_unlock() hands the mutex to the most urgent of its waiters, for any
\* threads, mutexes and priorities, whatever timeouts have taken out of the queue.
THEOREM MostUrgentServed ==
    ASSUME ~Nested
    PROVE  Spec => HandedToMostUrgent
<1>1. Init => Inv /\ PrioInv
  BY InvInit, PrioInit
<1>2. Inv /\ PrioInv /\ [Next]_vars => (Inv /\ PrioInv)'
  BY InvStep, PrioStep
<1>3. Inv /\ PrioInv /\ [Next]_vars =>
         [\A m \in Mutexes : \A t \in Range(wait_q[m]) :
             owner[m] # owner'[m] => prio[owner'[m]] <= prio[t]]_vars
  BY HandOverStep
<1> QED BY <1>1, <1>2, <1>3, PTL DEF Spec, HandedToMostUrgent

\* The ceiling does not cut inheritance short.
CeilingAbove == \A t \in Threads : CONFIG_PRIORITY_CEILING <= BasePrio[t]

\* A waiter of m has given up and not yet run.
GivenUp(m) == \E u \in Threads : state[u] = "timedout" /\ waits[u] = m

\* The priority of an owner is at least as urgent as its own and that of each
\* waiter, and it is one of these unless a waiter that gave up is still to run.
InheritInv ==
    \A m \in Mutexes : owner[m] \in Threads =>
        /\ CONFIG_PRIORITY_CEILING <= prio[owner[m]]
        /\ prio[owner[m]] <= BasePrio[owner[m]]
        /\ \A u \in Range(wait_q[m]) : prio[owner[m]] <= BasePrio[u]
        /\ \/ GivenUp(m)
           \/ prio[owner[m]] = BasePrio[owner[m]]
           \/ \E u \in Range(wait_q[m]) : prio[owner[m]] = BasePrio[u]

\* Below the ceiling the inherited priority is the more urgent of the two.
LEMMA Inherits ==
    ASSUME NEW p \in Int, NEW q \in Int,
           CONFIG_PRIORITY_CEILING <= p, CONFIG_PRIORITY_CEILING <= q
    PROVE  new_prio_for_inheritance(p, q) = IF p < q THEN p ELSE q
BY MutexAssumption DEF new_prio_for_inheritance, MoreUrgent

\* Every step preserves InheritInv.
LEMMA InheritStep ==
    ASSUME ~Nested, CeilingAbove, Inv, PrioInv, InheritInv, [Next]_vars
    PROVE  InheritInv'
<1>0. /\ owner \in [Mutexes -> Threads \union {NULL}]
      /\ lock_count \in [Mutexes -> 0..MaxDepth]
      /\ wait_q \in [Mutexes -> Seq(Threads)]
      /\ prio \in [Threads -> Int]
      /\ state \in [Threads -> {"run", "pend", "timedout"}]
      /\ waits \in [Threads -> Mutexes \union {NULL}]
      /\ BasePrio \in [Threads -> Int] /\ NULL \notin Threads
      /\ CONFIG_PRIORITY_CEILING \in Int
      /\ \A t \in Threads : CONFIG_PRIORITY_CEILING <= BasePrio[t]
      /\ \A m \in Mutexes : \A u \in Range(wait_q[m]) : u \in Threads
  BY MutexAssumption, RangeMembers DEF Inv, TypeOK, CeilingAbove
<1>1. CASE UNCHANGED vars
  BY <1>1 DEF vars, InheritInv, GivenUp
<1>2. ASSUME NEW t \in Threads, NEW m \in Mutexes, LockNow(t, m) PROVE InheritInv'
  <2>1. UNCHANGED <<wait_q, prio, state, waits>> /\ owner' = [owner EXCEPT ![m] = t]
    BY <1>2 DEF LockNow
  <2>2. CASE owner[m] = t
    <3>1. owner' = owner
      BY <1>0, <2>1, <2>2
    <3> QED BY <2>1, <3>1 DEF InheritInv, GivenUp
  <2>3. CASE owner[m] # t
    <3>1. lock_count[m] = 0 /\ owner[m] = NULL
      BY <1>0, <1>2, <2>3 DEF LockNow, PrioInv
    <3>2. wait_q[m] = <<>>
      BY <1>0, <3>1 DEF PrioInv
    <3>3. Range(wait_q[m]) = {}
      BY <3>2 DEF Range
    <3>4. \A n \in Mutexes : owner[n] # t
      BY <1>2, <2>3, DepthOwns DEF LockNow
    <3>5. prio[t] = BasePrio[t]
      BY <3>4 DEF PrioInv
    <3>6. \A n \in Mutexes : owner'[n] = IF n = m THEN t ELSE owner[n]
      BY <1>0, <2>1
    <3>7. CONFIG_PRIORITY_CEILING <= prio[t] /\ prio[t] <= BasePrio[t]
      BY <1>0, <3>5
    <3>8. \A n \in Mutexes : GivenUp(n)' <=> GivenUp(n)
      BY <2>1 DEF GivenUp
    <3> SUFFICES ASSUME NEW n \in Mutexes, owner'[n] \in Threads
                 PROVE  /\ CONFIG_PRIORITY_CEILING <= prio[owner'[n]]
                        /\ prio[owner'[n]] <= BasePrio[owner'[n]]
                        /\ \A u \in Range(wait_q[n]) : prio[owner'[n]] <= BasePrio[u]
                        /\ \/ GivenUp(n)'
                           \/ prio[owner'[n]] = BasePrio[owner'[n]]
                           \/ \E u \in Range(wait_q[n]) : prio[owner'[n]] = BasePrio[u]
      BY <2>1 DEF InheritInv
    <3>9. CASE n = m
      BY <3>3, <3>5, <3>6, <3>7, <3>9
    <3>10. CASE n # m
      BY <3>6, <3>8, <3>10 DEF InheritInv
    <3> QED BY <3>9, <3>10
  <2> QED BY <2>2, <2>3
<1>3. ASSUME NEW t \in Threads, NEW m \in Mutexes, NEW timed \in BOOLEAN, LockPend(t, m, timed)
      PROVE  InheritInv'
  <2> DEFINE q == InsertByPrio(wait_q[m], t)
             o == owner[m]
  <2>1. \A n \in Mutexes : owner[n] # t
    BY <1>3, DepthOwns DEF LockPend
  <2>2. prio[t] = BasePrio[t]
    BY <2>1 DEF PrioInv
  <2>3. o \in Threads
    BY <1>3 DEF LockPend, Inv, OwnerInv
  <2>4. Range(q) = Range(wait_q[m]) \union {t}
    BY <1>0, InsertByPrioRange
  <2>5. /\ wait_q' = [wait_q EXCEPT ![m] = q]
        /\ state' = [state EXCEPT ![t] = "pend"] /\ waits' = [waits EXCEPT ![t] = m]
        /\ state[t] = "run"
        /\ UNCHANGED owner
        /\ prio' = RaisedPrio(t, m)
    BY <1>3 DEF LockPend, CanRun
  <2> HIDE DEF q
  <2>6. /\ CONFIG_PRIORITY_CEILING <= prio[o] /\ prio[o] <= BasePrio[o]
        /\ \A u \in Range(wait_q[m]) : prio[o] <= BasePrio[u]
        /\ \/ GivenUp(m)
           \/ prio[o] = BasePrio[o]
           \/ \E u \in Range(wait_q[m]) : prio[o] = BasePrio[u]
    BY <2>3 DEF InheritInv
  <2>7. /\ prio[o] \in Int /\ prio[t] \in Int /\ BasePrio[o] \in Int /\ BasePrio[t] \in Int
        /\ \A u \in Range(wait_q[m]) : BasePrio[u] \in Int
    BY <1>0, <2>3
  <2>8. /\ prio'[o] = IF prio[t] < prio[o] THEN prio[t] ELSE prio[o]
        /\ \A u \in Threads \ {o} : prio'[u] = prio[u]
    <3>1. new_prio_for_inheritance(prio[t], prio[o]) = IF prio[t] < prio[o] THEN prio[t] ELSE prio[o]
      BY <1>0, <2>2, <2>6, <2>7, Inherits
    <3> QED BY <1>0, <2>3, <2>5, <2>7, <3>1 DEF RaisedPrio
  <2>9. \A n \in Mutexes : GivenUp(n) => GivenUp(n)'
    <3> SUFFICES ASSUME NEW n \in Mutexes, NEW u \in Threads, state[u] = "timedout", waits[u] = n
                 PROVE  state'[u] = "timedout" /\ waits'[u] = n
      BY DEF GivenUp
    <3> QED BY <1>0, <2>5
  <2> SUFFICES ASSUME NEW n \in Mutexes, owner'[n] \in Threads
               PROVE  /\ CONFIG_PRIORITY_CEILING <= prio'[owner'[n]]
                      /\ prio'[owner'[n]] <= BasePrio[owner'[n]]
                      /\ \A u \in Range(wait_q'[n]) : prio'[owner'[n]] <= BasePrio[u]
                      /\ \/ GivenUp(n)'
                         \/ prio'[owner'[n]] = BasePrio[owner'[n]]
                         \/ \E u \in Range(wait_q'[n]) : prio'[owner'[n]] = BasePrio[u]
    BY DEF InheritInv
  <2>10. CASE n # m
    <3>1. owner'[n] = owner[n] /\ owner[n] # o /\ wait_q'[n] = wait_q[n] /\ owner[n] \in Threads
      BY <1>0, <2>3, <2>5, <2>10 DEF PrioInv
    <3>2. prio'[owner[n]] = prio[owner[n]]
      BY <2>8, <3>1
    <3> QED BY <2>9, <3>1, <3>2 DEF InheritInv
  <2>11. CASE n = m
    <3>1. owner'[n] = o /\ Range(wait_q'[n]) = Range(wait_q[m]) \union {t}
      BY <1>0, <2>4, <2>5, <2>11
    <3> HIDE DEF o
    <3>2. CASE prio[t] < prio[o]
      <4>1. prio'[o] = BasePrio[t] /\ prio'[o] <= prio[o]
        BY <2>2, <2>7, <2>8, <3>2
      <4>2. CONFIG_PRIORITY_CEILING <= prio'[o] /\ prio'[o] <= BasePrio[o]
        BY <1>0, <2>6, <2>7, <4>1
      <4>3. \A u \in Range(wait_q'[n]) : prio'[o] <= BasePrio[u]
        BY <2>6, <2>7, <3>1, <4>1
      <4>4. \E u \in Range(wait_q'[n]) : prio'[o] = BasePrio[u]
        BY <3>1, <4>1
      <4> QED BY <3>1, <4>2, <4>3, <4>4
    <3>3. CASE ~(prio[t] < prio[o])
      <4>1. prio'[o] = prio[o] /\ prio[o] <= BasePrio[t]
        BY <2>2, <2>7, <2>8, <3>3
      <4>2. \A u \in Range(wait_q'[n]) : prio'[o] <= BasePrio[u]
        BY <2>6, <3>1, <4>1
      <4>3. \/ GivenUp(n)'
            \/ prio'[o] = BasePrio[o]
            \/ \E u \in Range(wait_q'[n]) : prio'[o] = BasePrio[u]
        BY <2>6, <2>9, <2>11, <3>1, <4>1
      <4> QED BY <2>6, <3>1, <4>1, <4>2, <4>3
    <3> QED BY <3>2, <3>3
  <2> QED BY <2>10, <2>11
<1>4. ASSUME NEW t \in Threads, Timeout(t) PROVE InheritInv'
  <2> DEFINE m == waits[t]
             q == Without(wait_q[m], t)
  <2>1. /\ m \in Mutexes /\ state[t] = "pend" /\ t \in Range(wait_q[m])
        /\ wait_q[m] \in Seq(Threads) /\ IsInjective(wait_q[m])
    BY <1>0, <1>4 DEF Timeout, Inv, WaitInv
  <2>2. Range(q) = Range(wait_q[m]) \ {t}
    BY <2>1, WithoutRange
  <2>3. /\ wait_q' = [wait_q EXCEPT ![m] = q]
        /\ state' = [state EXCEPT ![t] = "timedout"]
        /\ UNCHANGED <<owner, prio, waits>>
    BY <1>4 DEF Timeout
  <2>4. state'[t] = "timedout" /\ waits'[t] = m
    BY <1>0, <2>3
  <2> HIDE DEF m, q
  <2>5. \A n \in Mutexes : wait_q'[n] = IF n = m THEN q ELSE wait_q[n]
    BY <1>0, <2>1, <2>3
  <2>6. \A n \in Mutexes : n = m => GivenUp(n)'
    BY <2>4 DEF GivenUp
  <2>7. \A n \in Mutexes : GivenUp(n) => GivenUp(n)'
    <3> SUFFICES ASSUME NEW n \in Mutexes, NEW u \in Threads, state[u] = "timedout", waits[u] = n
                 PROVE  state'[u] = "timedout" /\ waits'[u] = n
      BY DEF GivenUp
    <3> QED BY <1>0, <2>3
  <2> SUFFICES ASSUME NEW n \in Mutexes, owner[n] \in Threads
               PROVE  /\ CONFIG_PRIORITY_CEILING <= prio[owner[n]]
                      /\ prio[owner[n]] <= BasePrio[owner[n]]
                      /\ \A u \in Range(wait_q'[n]) : prio[owner[n]] <= BasePrio[u]
                      /\ \/ GivenUp(n)'
                         \/ prio[owner[n]] = BasePrio[owner[n]]
                         \/ \E u \in Range(wait_q'[n]) : prio[owner[n]] = BasePrio[u]
    BY <2>3 DEF InheritInv
  <2>8. Range(wait_q'[n]) \subseteq Range(wait_q[n])
    BY <2>2, <2>5
  <2>9. n # m => wait_q'[n] = wait_q[n]
    BY <2>5
  <2> QED BY <2>6, <2>7, <2>8, <2>9 DEF InheritInv
<1>5. ASSUME NEW t \in Threads, LockTimedOut(t) PROVE InheritInv'
  <2> DEFINE m == waits[t]
             o == owner[m]
             h == Head(wait_q[m])
  <2>1. m \in Mutexes /\ o \in Threads
    BY <1>0, <1>5 DEF LockTimedOut, Inv, WaitInv
  <2>2. /\ prio' = [prio EXCEPT ![o] = LoweredPrio(m)]
        /\ state' = [state EXCEPT ![t] = "run"] /\ waits' = [waits EXCEPT ![t] = NULL]
        /\ UNCHANGED <<owner, wait_q>>
    BY <1>5 DEF LockTimedOut
  <2>3. owner_orig_prio[m] = BasePrio[o] /\ Ordered(wait_q[m], BasePrio)
    BY <2>1 DEF PrioInv
  <2>4. wait_q[m] # <<>> => /\ h \in Range(wait_q[m]) /\ h \in Threads /\ prio[h] = BasePrio[h]
                            /\ \A u \in Range(wait_q[m]) : BasePrio[h] <= BasePrio[u]
    <3> SUFFICES ASSUME wait_q[m] # <<>>
                 PROVE  /\ h \in Range(wait_q[m]) /\ h \in Threads /\ prio[h] = BasePrio[h]
                        /\ \A u \in Range(wait_q[m]) : BasePrio[h] <= BasePrio[u]
      OBVIOUS
    <3>1. h \in Range(wait_q[m]) /\ \A u \in Range(wait_q[m]) : BasePrio[h] <= BasePrio[u]
      BY <1>0, <2>1, <2>3, TailRange, RankHead
    <3> QED BY <2>1, <3>1, WaiterPrio
  <2>5. wait_q[m] = <<>> => Range(wait_q[m]) = {}
    BY DEF Range
  <2>6. wait_q[m] # <<>> => LoweredPrio(m) = IF BasePrio[h] < BasePrio[o] THEN BasePrio[h] ELSE BasePrio[o]
    <3> SUFFICES ASSUME wait_q[m] # <<>>
                 PROVE  LoweredPrio(m) = IF BasePrio[h] < BasePrio[o] THEN BasePrio[h] ELSE BasePrio[o]
      OBVIOUS
    <3>1. LoweredPrio(m) = new_prio_for_inheritance(BasePrio[h], BasePrio[o])
      BY <2>3, <2>4 DEF LoweredPrio
    <3> QED BY <1>0, <2>1, <2>4, <3>1, Inherits
  <2>7. wait_q[m] = <<>> => LoweredPrio(m) = BasePrio[o]
    BY <2>3 DEF LoweredPrio
  <2> DEFINE p == LoweredPrio(m)
  <2>8. /\ CONFIG_PRIORITY_CEILING <= p /\ p <= BasePrio[o]
        /\ \A u \in Range(wait_q[m]) : p <= BasePrio[u]
        /\ p = BasePrio[o] \/ \E u \in Range(wait_q[m]) : p = BasePrio[u]
    <3> HIDE DEF p, h, o, m
    <3>1. BasePrio[o] \in Int /\ \A u \in Range(wait_q[m]) : BasePrio[u] \in Int
      BY <1>0, <2>1
    <3>2. CASE wait_q[m] = <<>>
      BY <1>0, <2>1, <2>5, <2>7, <3>1, <3>2 DEF p
    <3>3. CASE wait_q[m] # <<>>
      <4>1. BasePrio[h] \in Int
        BY <1>0, <2>4, <3>3
      <4>2. CASE BasePrio[h] < BasePrio[o]
        <5>1. p = BasePrio[h]
          BY <2>6, <3>3, <4>2 DEF p
        <5> QED BY <1>0, <2>4, <3>1, <3>3, <4>1, <4>2, <5>1
      <4>3. CASE ~(BasePrio[h] < BasePrio[o])
        <5>1. p = BasePrio[o]
          BY <2>6, <3>3, <4>3 DEF p
        <5>2. \A u \in Range(wait_q[m]) : p <= BasePrio[u]
          BY <2>4, <3>1, <3>3, <4>1, <4>3, <5>1
        <5> QED BY <1>0, <2>1, <3>1, <5>1, <5>2
      <4> QED BY <4>2, <4>3
    <3> QED BY <3>2, <3>3
  <2>9. prio'[o] = p /\ \A u \in Threads \ {o} : prio'[u] = prio[u]
    BY <1>0, <2>1, <2>2
  <2> HIDE DEF p, h, o
  <2>10. ASSUME NEW n \in Mutexes, owner[n] \in Threads, n # m
         PROVE  /\ prio'[owner[n]] = prio[owner[n]] /\ owner[n] # o
                /\ GivenUp(n) => GivenUp(n)'
    <3>1. owner[n] # o
      BY <2>1, <2>10 DEF PrioInv, o
    <3>2. ASSUME NEW u \in Threads, state[u] = "timedout", waits[u] = n
          PROVE  state'[u] = "timedout" /\ waits'[u] = n
      BY <1>0, <2>2, <2>10, <3>2
    <3> QED BY <2>9, <2>10, <3>1, <3>2 DEF GivenUp
  <2> SUFFICES ASSUME NEW n \in Mutexes, owner[n] \in Threads
               PROVE  /\ CONFIG_PRIORITY_CEILING <= prio'[owner[n]]
                      /\ prio'[owner[n]] <= BasePrio[owner[n]]
                      /\ \A u \in Range(wait_q[n]) : prio'[owner[n]] <= BasePrio[u]
                      /\ \/ GivenUp(n)'
                         \/ prio'[owner[n]] = BasePrio[owner[n]]
                         \/ \E u \in Range(wait_q[n]) : prio'[owner[n]] = BasePrio[u]
    BY <2>2 DEF InheritInv
  <2>11. CASE n = m
    BY <2>8, <2>9, <2>11 DEF o
  <2>12. CASE n # m
    BY <2>10, <2>12 DEF InheritInv
  <2> QED BY <2>11, <2>12
<1>6. ASSUME NEW t \in Threads, LockTimedOutUnowned(t) PROVE InheritInv'
  BY <1>6 DEF LockTimedOutUnowned, InheritInv, GivenUp
<1>7. ASSUME NEW t \in Threads, NEW m \in Mutexes, UnlockNested(t, m) PROVE InheritInv'
  BY <1>7 DEF UnlockNested, InheritInv, GivenUp
<1>8. ASSUME NEW t \in Threads, NEW m \in Mutexes, UnlockFree(t, m) PROVE InheritInv'
  <2>1. /\ owner[m] = t
        /\ \A n \in Mutexes : owner'[n] = IF n = m THEN NULL ELSE owner[n]
        /\ \A u \in Threads \ {t} : prio'[u] = prio[u]
        /\ UNCHANGED <<wait_q, state, waits>>
    BY <1>0, <1>8 DEF UnlockFree
  <2>2. ASSUME NEW n \in Mutexes, owner'[n] \in Threads
        PROVE  owner'[n] = owner[n] /\ owner[n] # t /\ prio'[owner[n]] = prio[owner[n]]
    <3>1. n # m /\ owner'[n] = owner[n]
      BY <1>0, <2>1, <2>2
    <3>2. owner[n] # t
      BY <2>1, <2>2, <3>1 DEF PrioInv
    <3> QED BY <2>1, <2>2, <3>1, <3>2
  <2> QED BY <2>1, <2>2 DEF InheritInv, GivenUp
<1>9. ASSUME NEW t \in Threads, NEW m \in Mutexes, UnlockHandOver(t, m) PROVE InheritInv'
  <2> DEFINE w == Head(wait_q[m])
  <2>1. wait_q[m] \in Seq(Threads) /\ wait_q[m] # <<>> /\ Ordered(wait_q[m], BasePrio)
    BY <1>0, <1>9 DEF UnlockHandOver, PrioInv
  <2>2. /\ w \in Range(wait_q[m]) /\ Range(Tail(wait_q[m])) \subseteq Range(wait_q[m])
        /\ \A u \in Range(wait_q[m]) : BasePrio[w] <= BasePrio[u]
    BY <1>0, <2>1, TailRange, RankHead
  <2>3. w \in Threads /\ state[w] = "pend" /\ prio[w] = BasePrio[w]
    BY <2>2, WaiterPrio
  <2>4. /\ owner[m] = t /\ state[t] = "run"
        /\ prio' = [prio EXCEPT ![t] = owner_orig_prio[m]]
        /\ owner' = [owner EXCEPT ![m] = w]
        /\ state' = [state EXCEPT ![w] = "run"] /\ waits' = [waits EXCEPT ![w] = NULL]
        /\ wait_q' = [wait_q EXCEPT ![m] = Tail(@)]
    BY <1>9 DEF UnlockHandOver, CanRun
  <2> HIDE DEF w
  <2>5. \A n \in Mutexes : GivenUp(n) => GivenUp(n)'
    <3> SUFFICES ASSUME NEW n \in Mutexes, NEW u \in Threads, state[u] = "timedout", waits[u] = n
                 PROVE  state'[u] = "timedout" /\ waits'[u] = n
      BY DEF GivenUp
    <3> QED BY <1>0, <2>3, <2>4
  <2>6. /\ \A n \in Mutexes : owner'[n] = IF n = m THEN w ELSE owner[n]
        /\ \A n \in Mutexes : wait_q'[n] = IF n = m THEN Tail(wait_q[m]) ELSE wait_q[n]
        /\ \A u \in Threads \ {t} : prio'[u] = prio[u]
        /\ w # t
    BY <1>0, <2>3, <2>4
  <2> SUFFICES ASSUME NEW n \in Mutexes, owner'[n] \in Threads
               PROVE  /\ CONFIG_PRIORITY_CEILING <= prio'[owner'[n]]
                      /\ prio'[owner'[n]] <= BasePrio[owner'[n]]
                      /\ \A u \in Range(wait_q'[n]) : prio'[owner'[n]] <= BasePrio[u]
                      /\ \/ GivenUp(n)'
                         \/ prio'[owner'[n]] = BasePrio[owner'[n]]
                         \/ \E u \in Range(wait_q'[n]) : prio'[owner'[n]] = BasePrio[u]
    BY DEF InheritInv
  <2>7. CASE n = m
    <3>1. owner'[n] = w /\ prio'[w] = BasePrio[w] /\ BasePrio[w] \in Int
      BY <1>0, <2>3, <2>6, <2>7
    <3>2. Range(wait_q'[n]) \subseteq Range(wait_q[m])
      BY <2>2, <2>6, <2>7
    <3> QED BY <1>0, <2>2, <2>3, <3>1, <3>2
  <2>8. CASE n # m
    <3>1. owner'[n] = owner[n] /\ wait_q'[n] = wait_q[n] /\ owner[n] \in Threads
      BY <2>6, <2>8
    <3>2. owner[n] # t
      BY <2>4, <2>8, <3>1 DEF PrioInv
    <3>3. prio'[owner[n]] = prio[owner[n]]
      BY <2>6, <3>1, <3>2
    <3> QED BY <2>5, <3>1, <3>3 DEF InheritInv
  <2> QED BY <2>7, <2>8
<1> QED
  BY <1>1, <1>2, <1>3, <1>4, <1>5, <1>6, <1>7, <1>8, <1>9 DEF Next

\* What InheritInv says in the words of InheritedPriority.
LEMMA InheritedFollows ==
    ASSUME Inv, PrioInv, InheritInv
    PROVE  InheritedPriority
<1> DEFINE after(m) == {u \in Threads : state[u] = "pend" /\ waits[u] = m}
           gone(m)  == {u \in Threads : state[u] = "timedout" /\ waits[u] = m}
           best(S)  == CHOOSE p \in {BasePrio[u] : u \in S} : \A u \in S : p <= BasePrio[u]
<1>0. /\ wait_q \in [Mutexes -> Seq(Threads)] /\ prio \in [Threads -> Int]
      /\ BasePrio \in [Threads -> Int]
  BY MutexAssumption DEF Inv, TypeOK
<1>1. ASSUME NEW t \in Threads, \A m \in Mutexes : owner[m] # t PROVE prio[t] = BasePrio[t]
  BY <1>1 DEF PrioInv
<1>2. ASSUME NEW t \in Threads, NEW m \in Mutexes, owner[m] = t
      PROVE  /\ prio[t] <= best({t} \union after(m))
             /\ gone(m) = {} => prio[t] = best({t} \union after(m))
  <2> DEFINE S == {t} \union after(m)
             h == Head(wait_q[m])
  <2>1. after(m) = Range(wait_q[m])
    <3>1. \A u \in Threads : u \in Range(wait_q[m]) <=> u \in after(m)
      BY DEF Inv, WaitInv
    <3>2. Range(wait_q[m]) \subseteq Threads
      BY <1>0, RangeMembers
    <3> QED BY <3>1, <3>2
  <2>2. S \subseteq Threads /\ \A u \in S : BasePrio[u] \in Int /\ prio[t] \in Int
    BY <1>0
  <2>3. prio[t] <= BasePrio[t] /\ \A u \in Range(wait_q[m]) : prio[t] <= BasePrio[u]
    BY <1>2 DEF InheritInv
  <2>4. \A u \in S : prio[t] <= BasePrio[u]
    BY <2>1, <2>3
  <2>5. \E p \in {BasePrio[u] : u \in S} : \A u \in S : p <= BasePrio[u]
    <3>1. CASE wait_q[m] = <<>>
      <4>1. Range(wait_q[m]) = {}
        BY <3>1 DEF Range
      <4>2. S = {t}
        BY <2>1, <4>1
      <4> HIDE DEF S
      <4> QED BY <2>2, <4>2
    <3>2. CASE wait_q[m] # <<>>
      <4>1. h \in Range(wait_q[m]) /\ \A u \in Range(wait_q[m]) : BasePrio[h] <= BasePrio[u]
        BY <1>0, <3>2, TailRange, RankHead DEF PrioInv
      <4>2. S = {t} \union Range(wait_q[m])
        BY <2>1
      <4> HIDE DEF S, h
      <4>3. t \in S /\ h \in S /\ BasePrio[t] \in Int /\ BasePrio[h] \in Int
        BY <2>2, <4>1, <4>2
      <4>4. CASE BasePrio[h] <= BasePrio[t]
        BY <4>1, <4>2, <4>3, <4>4
      <4>5. CASE ~(BasePrio[h] <= BasePrio[t])
        <5>1. \A u \in S : BasePrio[t] <= BasePrio[u]
          BY <2>2, <4>1, <4>2, <4>3, <4>5
        <5> QED BY <4>3, <5>1
      <4> QED BY <4>4, <4>5
    <3> QED BY <3>1, <3>2
  <2>6. best(S) \in {BasePrio[u] : u \in S} /\ \A u \in S : best(S) <= BasePrio[u]
    <3> HIDE DEF S
    <3> QED BY <2>5
  <2>7. ASSUME gone(m) = {} PROVE \E u \in S : prio[t] = BasePrio[u]
    <3>1. ~GivenUp(m)
      BY <2>7 DEF GivenUp
    <3>2. prio[t] = BasePrio[t] \/ \E u \in Range(wait_q[m]) : prio[t] = BasePrio[u]
      BY <1>2, <3>1 DEF InheritInv
    <3> QED BY <2>1, <3>2
  <2> DEFINE b == best(S)
  <2>8. b \in {BasePrio[u] : u \in S} /\ \A u \in S : b <= BasePrio[u]
    BY <2>6
  <2> HIDE DEF b, S
  <2>9. prio[t] <= b
    BY <2>4, <2>8
  <2>10. gone(m) = {} => prio[t] = b
    <3> SUFFICES ASSUME gone(m) = {} PROVE prio[t] = b
      OBVIOUS
    <3>1. b <= prio[t]
      BY <2>7, <2>8
    <3>2. b \in Int /\ prio[t] \in Int
      BY <1>0, <2>2, <2>8
    <3> QED BY <2>9, <3>1, <3>2
  <2> QED BY <2>9, <2>10 DEF b, S
<1> QED BY <1>1, <1>2 DEF InheritedPriority

\* An owner runs at the priority of its most urgent waiter, or its own, and every
\* other thread at its own, through hand-overs, timeouts and waiters that come late.
THEOREM PriorityInherited ==
    ASSUME ~Nested, CeilingAbove
    PROVE  Spec => []InheritedPriority
<1>1. Init => Inv /\ PrioInv /\ InheritInv
  <2>1. Init => InheritInv
    BY MutexAssumption DEF Init, InheritInv
  <2> QED BY <2>1, InvInit, PrioInit
<1>2. Inv /\ PrioInv /\ InheritInv /\ [Next]_vars => (Inv /\ PrioInv /\ InheritInv)'
  BY InvStep, PrioStep, InheritStep
<1>3. Inv /\ PrioInv /\ InheritInv => InheritedPriority
  BY InheritedFollows
<1> QED BY <1>1, <1>2, <1>3, PTL DEF Spec

-----------------------------------------------------------------------------
(* Condition variables. *)

\* A section of k_mutex_lock() or k_mutex_unlock() that thread t runs.
MutexStep(t) ==
    \/ \E m \in Mutexes :
          \/ LockNow(t, m) \/ LockPend(t, m, FALSE) \/ LockPend(t, m, TRUE)
          \/ UnlockNested(t, m) \/ UnlockFree(t, m) \/ UnlockHandOver(t, m)
    \/ Timeout(t) \/ LockTimedOut(t) \/ LockTimedOutUnowned(t)

\* What each thread does to the mutexes in a step of the condition variable.
LEMMA CvMoves ==
    ASSUME NEW t \in Threads
    PROVE  /\ MutexCall(t) \/ WaitUnlock(t) \/ Relock(t) => MutexStep(t)
           /\ \/ k_condvar_wait(t) \/ WaitPend(t, FALSE) \/ WaitPend(t, TRUE)
              \/ WaitTimeout(t) \/ RelockReturn(t) \/ k_condvar_signal(t)
              \/ k_condvar_broadcast(t) \/ Produce(t) \/ Consume(t)
              => UNCHANGED vars
<1>1. MutexCall(t) => MutexStep(t)
  BY DEF MutexCall, MutexStep
<1>2. WaitUnlock(t) => MutexStep(t)
  BY CondvarAssumption DEF WaitUnlock, MutexStep
<1>3. Relock(t) => MutexStep(t)
  BY CondvarAssumption DEF Relock, MutexStep
<1>4. \/ k_condvar_wait(t) \/ WaitPend(t, FALSE) \/ WaitPend(t, TRUE)
      \/ WaitTimeout(t) \/ RelockReturn(t) \/ k_condvar_signal(t)
      \/ k_condvar_broadcast(t) \/ Produce(t) \/ Consume(t)
      => UNCHANGED vars
  BY DEF k_condvar_wait, WaitPend, WaitTimeout, RelockReturn, k_condvar_signal,
         k_condvar_broadcast, Produce, Consume
<1> QED BY <1>1, <1>2, <1>3, <1>4

\* Every step of the condition variable is one of the mutexes or leaves them alone.
LEMMA CvStep ==
    ASSUME [CvNext]_cvVars
    PROVE  [Next]_vars
<1>1. CASE UNCHANGED cvVars
  BY <1>1 DEF cvVars
<1>2. CASE CvNext
  <2>1. PICK t \in Threads :
           \/ MutexCall(t)
           \/ k_condvar_wait(t) \/ WaitUnlock(t)
           \/ WaitPend(t, FALSE) \/ WaitPend(t, TRUE) \/ WaitTimeout(t)
           \/ Relock(t) \/ RelockReturn(t)
           \/ k_condvar_signal(t) \/ k_condvar_broadcast(t)
           \/ Produce(t) \/ Consume(t)
    BY <1>2 DEF CvNext
  <2>2. MutexStep(t) \/ UNCHANGED vars
    BY <2>1, CvMoves
  <2>3. MutexStep(t) => Next
    BY DEF MutexStep, Next
  <2> QED BY <2>2, <2>3
<1> QED BY <1>1, <1>2

\* The users of a condition variable use its mutex as any user may:
\* k_condvar_wait() does nothing to a mutex that k_mutex_lock() and
\* k_mutex_unlock() do not, and so what holds of Spec holds of CvSpec.
THEOREM CvImplementsMutex == CvSpec => Spec
<1>1. CvInit => Init
  BY DEF CvInit
<1>2. [CvNext]_cvVars => [Next]_vars
  BY CvStep
<1> QED BY <1>1, <1>2, PTL DEF CvSpec, Spec

\* A step of one thread changes what another has locked only by handing it the
\* mutex it waits for.
LEMMA OthersMove ==
    ASSUME Inv, NEW t \in Threads, MutexStep(t), NEW u \in Threads, u # t
    PROVE  \/ depth'[u] = depth[u] /\ state'[u] = state[u] /\ waits'[u] = waits[u]
           \/ state[u] = "pend" /\ state'[u] = "run" /\ depth'[u][waits[u]] = 1
<1>0. /\ wait_q \in [Mutexes -> Seq(Threads)]
      /\ state \in [Threads -> {"run", "pend", "timedout"}]
      /\ waits \in [Threads -> Mutexes \union {NULL}]
      /\ depth \in [Threads -> [Mutexes -> 0..MaxDepth]]
  BY DEF Inv, TypeOK
<1>1. CASE \E m \in Mutexes : LockNow(t, m) \/ UnlockNested(t, m) \/ UnlockFree(t, m)
  BY <1>0, <1>1 DEF LockNow, UnlockNested, UnlockFree
<1>2. CASE \E m \in Mutexes : LockPend(t, m, FALSE) \/ LockPend(t, m, TRUE)
  BY <1>0, <1>2 DEF LockPend
<1>3. CASE Timeout(t) \/ LockTimedOut(t) \/ LockTimedOutUnowned(t)
  BY <1>0, <1>3 DEF Timeout, LockTimedOut, LockTimedOutUnowned
<1>4. ASSUME NEW m \in Mutexes, UnlockHandOver(t, m)
      PROVE  \/ depth'[u] = depth[u] /\ state'[u] = state[u] /\ waits'[u] = waits[u]
             \/ state[u] = "pend" /\ state'[u] = "run" /\ depth'[u][waits[u]] = 1
  <2> DEFINE w == Head(wait_q[m])
  <2>1. wait_q[m] # <<>> /\ wait_q[m] \in Seq(Threads) /\ owner[m] = t
    BY <1>0, <1>4 DEF UnlockHandOver
  <2>2. w \in Threads /\ w \in Range(wait_q[m])
    BY <2>1, TailRange
  <2>3. state[w] = "pend" /\ waits[w] = m
    BY <2>2 DEF Inv, WaitInv
  <2>4. /\ state' = [state EXCEPT ![w] = "run"]
        /\ waits' = [waits EXCEPT ![w] = NULL]
        /\ depth' = [depth EXCEPT ![t][m] = @ - 1, ![w][m] = @ + 1]
    BY <1>4 DEF UnlockHandOver
  <2> HIDE DEF w
  <2>5. CASE u # w
    BY <1>0, <2>2, <2>4, <2>5
  <2>6. CASE u = w
    <3>1. depth[w][m] = 0
      BY <2>1, <2>2, <2>6 DEF Inv, MutualExclusion
    <3>2. depth'[w][m] = 1
      BY <1>0, <2>2, <2>4, <2>6, <3>1
    <3> QED BY <1>0, <2>2, <2>3, <2>4, <2>6, <3>2
  <2> QED BY <2>5, <2>6
<1> QED BY <1>1, <1>2, <1>3, <1>4 DEF MutexStep

\* The wait queue holds the threads that wait, each once, and the spinlock is held
\* from the release of the mutex until the thread is in the wait queue.
CvShape ==
    /\ cv_q \in Seq(Threads) /\ IsInjective(cv_q)
    /\ cpc \in [Threads -> {"out", "unlock", "pend", "wait", "woken", "late",
                            "woken-pend", "late-pend", "test"}]
    /\ cv_lock \in Threads \union {NULL} /\ owes \subseteq Threads /\ items \in Nat
    /\ wanted \in [Threads -> Nat]
    /\ cv_armed \subseteq Range(cv_q)
    /\ \A t \in Threads : /\ t \in Range(cv_q) <=> cpc[t] = "wait"
                          /\ cpc[t] \in {"unlock", "pend"} <=> cv_lock = t

\* The threads that were woken and have still to test the condition.
Told == {t \in Threads : cpc[t] \in {"woken", "woken-pend", "test"}}

\* NoLostSignal, from the moment on at which k_condvar_wait() is entered.
SignalInv ==
    cv_q # <<>> \/ cv_lock # NULL => items <= Cardinality(owes) + Cardinality(Told)

\* How often a thread has the mutex locked, by where it is in k_condvar_wait():
\* c, its state s, the mutex w it waits for, its depth d and the depth n to return with.
DepthOf(c, s, w, d, n) ==
    /\ c = "unlock" => s = "run" /\ d = n
    /\ c \in {"pend", "wait", "woken", "late"} => s = "run" /\ d = n - 1
    /\ c \in {"woken-pend", "late-pend"} =>
          /\ n = 1
          /\ \/ s = "pend" /\ w = CvMutex
             \/ s = "run" /\ d = 1

DepthInv ==
    \A t \in Threads : DepthOf(cpc[t], state[t], waits[t], depth[t][CvMutex], wanted[t])

CvInv == Inv /\ CvShape /\ SignalInv /\ DepthInv

\* Every step preserves CvShape.
LEMMA ShapeStep ==
    ASSUME Inv, CvShape, [CvNext]_cvVars
    PROVE  CvShape'
<1>0. /\ NULL \notin Threads /\ CvMutex \in Mutexes /\ prio \in [Threads -> Int]
      /\ \A t \in Threads : depth[t][CvMutex] \in Nat
  BY MutexAssumption, CondvarAssumption DEF Inv, TypeOK
<1>1. CASE UNCHANGED cvVars
  BY <1>1 DEF cvVars, cvOnly, CvShape
<1>2. CASE CvNext
  <2> USE DEF CvShape
  <2>1. ASSUME NEW t \in Threads, MutexCall(t) PROVE CvShape'
    BY <2>1 DEF MutexCall, cvOnly
  <2>2. ASSUME NEW t \in Threads, k_condvar_wait(t) PROVE CvShape'
    BY <1>0, <2>2 DEF k_condvar_wait
  <2>3. ASSUME NEW t \in Threads, WaitUnlock(t) PROVE CvShape'
    BY <1>0, <2>3 DEF WaitUnlock
  <2>4. ASSUME NEW t \in Threads, NEW timed \in BOOLEAN, WaitPend(t, timed) PROVE CvShape'
    <3>1. cpc[t] = "pend" /\ cv_lock = t /\ t \notin Range(cv_q)
      BY <2>4 DEF WaitPend
    <3>2. /\ InsertByPrio(cv_q, t) \in Seq(Threads) /\ IsInjective(InsertByPrio(cv_q, t))
          /\ Range(InsertByPrio(cv_q, t)) = Range(cv_q) \union {t}
      BY <1>0, <3>1, InsertByPrioRange
    <3>3. /\ cv_q' = InsertByPrio(cv_q, t) /\ cv_armed' \subseteq cv_armed \union {t}
          /\ cpc' = [cpc EXCEPT ![t] = "wait"] /\ cv_lock' = NULL
          /\ UNCHANGED <<wanted, items, owes>>
      BY <2>4 DEF WaitPend
    <3> QED BY <1>0, <3>1, <3>2, <3>3
  <2>5. ASSUME NEW t \in Threads, WaitTimeout(t) PROVE CvShape'
    <3>1. t \in Range(cv_q) /\ cpc[t] = "wait"
      BY <2>5 DEF WaitTimeout
    <3>2. /\ Without(cv_q, t) \in Seq(Threads) /\ IsInjective(Without(cv_q, t))
          /\ Range(Without(cv_q, t)) = Range(cv_q) \ {t}
      BY <3>1, WithoutRange
    <3>3. /\ cv_q' = Without(cv_q, t) /\ cv_armed' = cv_armed \ {t}
          /\ cpc' = [cpc EXCEPT ![t] = "late"]
          /\ UNCHANGED <<cv_lock, wanted, items, owes>>
      BY <2>5 DEF WaitTimeout
    <3> QED BY <1>0, <3>1, <3>2, <3>3
  <2>6. ASSUME NEW t \in Threads, Relock(t) PROVE CvShape'
    <3>1. /\ cpc[t] \in {"woken", "late"}
          /\ UNCHANGED <<cv_lock, cv_q, cv_armed, items, owes>>
          /\ \/ cpc' = [cpc EXCEPT ![t] = AfterRelock(t)] /\ wanted' = [wanted EXCEPT ![t] = 0]
             \/ /\ cpc' = [cpc EXCEPT ![t] = IF @ = "woken" THEN "woken-pend" ELSE "late-pend"]
                /\ UNCHANGED wanted
      BY <2>6 DEF Relock
    <3>2. wanted' \in [Threads -> Nat]
      BY <3>1
    <3>3. \E c \in {"test", "out", "woken-pend", "late-pend"} : cpc' = [cpc EXCEPT ![t] = c]
      BY <3>1 DEF AfterRelock
    <3> QED BY <1>0, <3>1, <3>2, <3>3
  <2>7. ASSUME NEW t \in Threads, RelockReturn(t) PROVE CvShape'
    BY <1>0, <2>7 DEF RelockReturn, AfterRelock
  <2>8. ASSUME NEW t \in Threads, k_condvar_signal(t) PROVE CvShape'
    <3>1. owes' \subseteq Threads /\ UNCHANGED <<cv_lock, wanted, items>>
      BY <2>8 DEF k_condvar_signal
    <3>2. CASE cv_q = <<>>
      BY <2>8, <3>1, <3>2 DEF k_condvar_signal
    <3>3. CASE cv_q # <<>>
      <4> DEFINE w == Head(cv_q)
      <4>1. /\ w \in Threads /\ w \in Range(cv_q)
            /\ Tail(cv_q) \in Seq(Threads) /\ IsInjective(Tail(cv_q))
            /\ Range(Tail(cv_q)) = Range(cv_q) \ {w}
        BY <3>3, TailRange
      <4>2. /\ cv_q' = Tail(cv_q) /\ cv_armed' = cv_armed \ {w}
            /\ cpc' = [cpc EXCEPT ![w] = "woken"]
        BY <2>8, <3>3 DEF k_condvar_signal
      <4> HIDE DEF w
      <4> QED BY <3>1, <4>1, <4>2
    <3> QED BY <3>2, <3>3
  <2>9. ASSUME NEW t \in Threads, k_condvar_broadcast(t) PROVE CvShape'
    <3>1. /\ cv_q' = <<>> /\ cv_armed' = {} /\ owes' \subseteq Threads
          /\ cpc' = [u \in Threads |-> IF u \in Range(cv_q) THEN "woken" ELSE cpc[u]]
          /\ UNCHANGED <<cv_lock, wanted, items>>
      BY <2>9 DEF k_condvar_broadcast
    <3>2. Range(cv_q') = {} /\ IsInjective(cv_q') /\ cv_q' \in Seq(Threads)
      BY <3>1 DEF Range, IsInjective
    <3> QED BY <3>1, <3>2
  <2>10. ASSUME NEW t \in Threads, Produce(t) PROVE CvShape'
    BY <2>10 DEF Produce
  <2>11. ASSUME NEW t \in Threads, Consume(t) PROVE CvShape'
    BY <1>0, <2>11 DEF Consume
  <2> HIDE DEF CvShape
  <2> QED BY <1>2, <2>1, <2>2, <2>3, <2>4, <2>5, <2>6, <2>7, <2>8, <2>9, <2>10, <2>11
          DEF CvNext
<1> QED BY <1>1, <1>2

\* Every step preserves SignalInv.
LEMMA SignalStep ==
    ASSUME CvShape, SignalInv, [CvNext]_cvVars
    PROVE  SignalInv'
<1>0. /\ NULL \notin Threads
      /\ IsFiniteSet(Told) /\ Cardinality(Told) \in Nat
      /\ IsFiniteSet(owes) /\ Cardinality(owes) \in Nat
  <2>1. Told \subseteq Threads /\ owes \subseteq Threads
    BY DEF Told, CvShape
  <2> QED BY <2>1, MutexAssumption, CondvarAssumption, FS_Subset, FS_CardinalityType
<1>1. CASE UNCHANGED cvVars
  BY <1>1 DEF cvVars, cvOnly, SignalInv, Told
<1>2. CASE CvNext
  <2>0. /\ cpc \in [Threads -> {"out", "unlock", "pend", "wait", "woken", "late",
                                "woken-pend", "late-pend", "test"}]
        /\ cv_q \in Seq(Threads) /\ items \in Nat
        /\ \A t \in Threads : /\ t \in Range(cv_q) <=> cpc[t] = "wait"
                              /\ cpc[t] \in {"unlock", "pend"} <=> cv_lock = t
        /\ cv_lock \in Threads \union {NULL}
    BY DEF CvShape
  <2>1. ASSUME NEW t \in Threads, MutexCall(t) PROVE SignalInv'
    BY <2>1 DEF MutexCall, cvOnly, SignalInv, Told
  <2>2. ASSUME NEW t \in Threads, k_condvar_wait(t) PROVE SignalInv'
    <3>1. items' = 0 /\ owes' = owes
      BY <2>2 DEF k_condvar_wait
    <3>2. IsFiniteSet(Told')
      <4>1. Told' \subseteq Threads
        BY DEF Told
      <4> QED BY <4>1, CondvarAssumption, FS_Subset
    <3>3. Cardinality(Told') \in Nat
      BY <3>2, FS_CardinalityType
    <3> QED BY <1>0, <3>1, <3>3 DEF SignalInv
  <2>3. ASSUME NEW t \in Threads, WaitUnlock(t) PROVE SignalInv'
    <3>1. Told' = Told
      BY <2>0, <2>3 DEF WaitUnlock, Told
    <3> QED BY <2>3, <3>1 DEF WaitUnlock, SignalInv
  <2>4. ASSUME NEW t \in Threads, NEW timed \in BOOLEAN, WaitPend(t, timed) PROVE SignalInv'
    <3>1. Told' = Told
      BY <2>0, <2>4 DEF WaitPend, Told
    <3>2. cv_lock # NULL
      BY <1>0, <2>0, <2>4 DEF WaitPend
    <3> QED BY <2>4, <3>1, <3>2 DEF WaitPend, SignalInv
  <2>5. ASSUME NEW t \in Threads, WaitTimeout(t) PROVE SignalInv'
    <3>1. t \in Range(cv_q) /\ cpc[t] = "wait"
      BY <2>5 DEF WaitTimeout, CvShape
    <3>2. cv_q # <<>>
      BY <3>1 DEF Range
    <3>3. Told' = Told
      BY <2>0, <2>5, <3>1 DEF WaitTimeout, Told
    <3> QED BY <2>5, <3>2, <3>3 DEF WaitTimeout, SignalInv
  <2>6. ASSUME NEW t \in Threads, Relock(t) PROVE SignalInv'
    <3>1. /\ \/ cpc[t] = "woken" /\ \E c \in {"test", "woken-pend"} : cpc' = [cpc EXCEPT ![t] = c]
             \/ cpc[t] = "late" /\ \E c \in {"out", "late-pend"} : cpc' = [cpc EXCEPT ![t] = c]
          /\ UNCHANGED <<cv_lock, cv_q, items, owes>>
      BY <2>6 DEF Relock, AfterRelock
    <3>2. Told' = Told
      BY <2>0, <3>1 DEF Told
    <3> QED BY <3>1, <3>2 DEF SignalInv
  <2>7. ASSUME NEW t \in Threads, RelockReturn(t) PROVE SignalInv'
    <3>1. Told' = Told
      BY <2>0, <2>7 DEF RelockReturn, AfterRelock, Told
    <3> QED BY <2>7, <3>1 DEF RelockReturn, SignalInv
  <2>8. ASSUME NEW t \in Threads, k_condvar_signal(t) PROVE SignalInv'
    <3>1. cv_lock = NULL /\ cv_lock' = NULL /\ owes' = owes \ {t} /\ items' = items
      BY <2>8 DEF k_condvar_signal
    <3>2. CASE cv_q = <<>>
      BY <2>8, <3>1, <3>2 DEF k_condvar_signal, SignalInv
    <3>3. CASE cv_q # <<>>
      <4> DEFINE w == Head(cv_q)
      <4>1. w \in Threads /\ w \in Range(cv_q)
        BY <2>0, <3>3, TailRange
      <4>2. cpc' = [cpc EXCEPT ![w] = "woken"]
        BY <2>8, <3>3 DEF k_condvar_signal
      <4>3. cpc[w] = "wait"
        BY <2>0, <4>1
      <4> HIDE DEF w
      <4>4. Told' = Told \union {w} /\ w \notin Told
        BY <2>0, <4>1, <4>2, <4>3 DEF Told
      <4>5. Cardinality(Told') = Cardinality(Told) + 1
        BY <1>0, <4>4, FS_AddElement
      <4>6. Cardinality(owes') >= Cardinality(owes) - 1 /\ Cardinality(owes') \in Int
        BY <1>0, <3>1, FS_RemoveElement
      <4>7. items <= Cardinality(owes) + Cardinality(Told)
        BY <3>3 DEF SignalInv
      <4>8. items' <= Cardinality(owes') + Cardinality(Told')
        BY <1>0, <2>0, <3>1, <4>5, <4>6, <4>7
      <4> QED BY <4>8 DEF SignalInv
    <3> QED BY <3>2, <3>3
  <2>9. ASSUME NEW t \in Threads, k_condvar_broadcast(t) PROVE SignalInv'
    BY <2>9 DEF k_condvar_broadcast, SignalInv
  <2>10. ASSUME NEW t \in Threads, Produce(t) PROVE SignalInv'
    <3>1. /\ t \notin owes /\ owes' = owes \union {t} /\ items' = items + 1
          /\ UNCHANGED <<cv_q, cv_lock, cpc>>
      BY <2>10 DEF Produce
    <3>2. Cardinality(owes') = Cardinality(owes) + 1
      BY <1>0, <3>1, FS_AddElement
    <3>3. Told' = Told
      BY <3>1 DEF Told
    <3> QED BY <1>0, <2>0, <3>1, <3>2, <3>3 DEF SignalInv
  <2>11. ASSUME NEW t \in Threads, Consume(t) PROVE SignalInv'
    <3>1. /\ items > 0 /\ items' = items - 1 /\ cpc' = [cpc EXCEPT ![t] = "out"]
          /\ UNCHANGED <<cv_q, cv_lock, owes>>
      BY <2>11 DEF Consume
    <3>2. Told' = Told \ {t}
      BY <2>0, <3>1 DEF Told
    <3>3. Cardinality(Told') >= Cardinality(Told) - 1 /\ Cardinality(Told') \in Int
      <4>1. Cardinality(Told \ {t}) = IF t \in Told THEN Cardinality(Told) - 1 ELSE Cardinality(Told)
        BY <1>0, FS_RemoveElement
      <4>2. Cardinality(Told') = Cardinality(Told \ {t})
        BY <3>2
      <4> QED BY <1>0, <4>1, <4>2
    <3> QED BY <1>0, <2>0, <3>1, <3>3 DEF SignalInv
  <2> QED BY <1>2, <2>1, <2>2, <2>3, <2>4, <2>5, <2>6, <2>7, <2>8, <2>9, <2>10, <2>11
          DEF CvNext
<1> QED BY <1>1, <1>2

\* A step of another thread leaves a thread's part of DepthInv as it is.
LEMMA DepthOthers ==
    ASSUME Inv, NEW t \in Threads, MutexStep(t), NEW u \in Threads, u # t, NEW c, NEW n,
           DepthOf(c, state[u], waits[u], depth[u][CvMutex], n)
    PROVE  DepthOf(c, state'[u], waits'[u], depth'[u][CvMutex], n)
<1>1. CASE depth'[u] = depth[u] /\ state'[u] = state[u] /\ waits'[u] = waits[u]
  BY <1>1
<1>2. CASE state[u] = "pend" /\ state'[u] = "run" /\ depth'[u][waits[u]] = 1
  BY <1>2 DEF DepthOf
<1> QED BY <1>1, <1>2, OthersMove

\* Every step preserves DepthInv, and returns from k_condvar_wait() as promised.
LEMMA DepthStep ==
    ASSUME Inv, Inv', CvShape, DepthInv, [CvNext]_cvVars
    PROVE  /\ DepthInv'
           /\ \A t \in Threads :
                 cpc[t] \in {"woken", "woken-pend", "late", "late-pend"} /\ cpc'[t] \in {"test", "out"}
                    => owner'[CvMutex] = t /\ lock_count'[CvMutex] = wanted[t]
<1> DEFINE Kept(t) == cpc[t] \in {"woken", "woken-pend", "late", "late-pend"}
                         /\ cpc'[t] \in {"test", "out"}
                      => owner'[CvMutex] = t /\ lock_count'[CvMutex] = wanted[t]
           Part(t) == DepthOf(cpc[t], state[t], waits[t], depth[t][CvMutex], wanted[t])
<1>0. /\ CvMutex \in Mutexes
      /\ cpc \in [Threads -> {"out", "unlock", "pend", "wait", "woken", "late",
                              "woken-pend", "late-pend", "test"}]
      /\ wanted \in [Threads -> Nat]
      /\ \A t \in Threads : t \in Range(cv_q) <=> cpc[t] = "wait"
      /\ cv_q \in Seq(Threads)
      /\ state \in [Threads -> {"run", "pend", "timedout"}]
      /\ waits \in [Threads -> Mutexes \union {NULL}]
      /\ depth \in [Threads -> [Mutexes -> 0..MaxDepth]]
      /\ lock_count \in [Mutexes -> 0..MaxDepth]
      /\ owner \in [Mutexes -> Threads \union {NULL}]
      /\ MaxDepth \in Nat
  BY MutexAssumption, CondvarAssumption DEF CvShape, Inv, TypeOK
<1>1. \A t \in Threads : Part(t)
  BY DEF DepthInv
<1>2. ASSUME \A t \in Threads : Part(t)' PROVE DepthInv'
  <2>1. \A t \in Threads :
           DepthOf(cpc'[t], state'[t], waits'[t], depth'[t][CvMutex], wanted'[t])
    BY <1>2
  <2> QED BY <2>1 DEF DepthInv
<1>3. /\ \A t \in Threads : depth[t][CvMutex] =
            IF owner[CvMutex] = t THEN lock_count[CvMutex] ELSE 0
      /\ \A t \in Threads : depth'[t][CvMutex] =
            IF owner'[CvMutex] = t THEN lock_count'[CvMutex] ELSE 0
  BY <1>0 DEF Inv, MutualExclusion
<1> SUFFICES ASSUME NEW u \in Threads PROVE Part(u)' /\ Kept(u)
  BY <1>2
<1>4. CASE UNCHANGED cvVars
  BY <1>0, <1>1, <1>4 DEF cvVars, cvOnly, vars, DepthOf
<1>5. CASE CvNext
  <2>1. PICK t \in Threads :
           \/ MutexCall(t)
           \/ k_condvar_wait(t) \/ WaitUnlock(t)
           \/ WaitPend(t, FALSE) \/ WaitPend(t, TRUE) \/ WaitTimeout(t)
           \/ Relock(t) \/ RelockReturn(t)
           \/ k_condvar_signal(t) \/ k_condvar_broadcast(t)
           \/ Produce(t) \/ Consume(t)
    BY <1>5 DEF CvNext
  <2>2. CASE MutexCall(t)
    <3>1. cpc[t] = "out" /\ UNCHANGED <<cpc, wanted>> /\ MutexStep(t)
      BY <2>2, CvMoves DEF MutexCall, cvOnly
    <3>2. CASE u = t
      BY <3>1, <3>2 DEF DepthOf
    <3>3. CASE u # t
      <4>1. Part(u)'
        BY <1>1, <3>1, <3>3, DepthOthers
      <4> QED BY <3>1, <4>1
    <3> QED BY <3>2, <3>3
  <2>3. CASE WaitUnlock(t) \/ Relock(t)
    <3>1. MutexStep(t)
      BY <2>3, CvMoves
    <3>2. CASE u # t
      <4>1. cpc'[u] = cpc[u] /\ wanted'[u] = wanted[u]
        BY <1>0, <2>3, <3>2 DEF WaitUnlock, Relock
      <4>2. Part(u)'
        BY <1>1, <3>1, <3>2, <4>1, DepthOthers
      <4> QED BY <4>1, <4>2
    <3>3. CASE u = t /\ WaitUnlock(t)
      <4>1. cpc[t] = "unlock" /\ cpc'[t] = "pend" /\ wanted' = wanted /\ state[t] = "run"
        BY <1>0, <3>3 DEF WaitUnlock, CanRun
      <4>2. depth[t][CvMutex] = wanted[t]
        BY <1>1, <4>1 DEF DepthOf
      <4>3. state'[t] = "run" /\ depth'[t][CvMutex] = depth[t][CvMutex] - 1
        <5>1. CASE UnlockNested(t, CvMutex) \/ UnlockFree(t, CvMutex)
          BY <1>0, <4>1, <5>1 DEF UnlockNested, UnlockFree
        <5>2. CASE UnlockHandOver(t, CvMutex)
          <6> DEFINE w == Head(wait_q[CvMutex])
          <6>1. /\ owner[CvMutex] = t /\ lock_count[CvMutex] = 1
                /\ wait_q[CvMutex] # <<>>
                /\ owner' = [owner EXCEPT ![CvMutex] = w]
                /\ state' = [state EXCEPT ![w] = "run"]
            BY <5>2 DEF UnlockHandOver
          <6>2. wait_q[CvMutex] \in Seq(Threads)
            BY <1>0 DEF Inv, TypeOK
          <6>3. w \in Threads /\ w \in Range(wait_q[CvMutex])
            BY <6>1, <6>2, TailRange
          <6>4. state[w] = "pend"
            BY <1>0, <6>3 DEF Inv, WaitInv
          <6> HIDE DEF w
          <6>5. w # t /\ owner'[CvMutex] = w /\ state'[t] = "run"
            BY <1>0, <4>1, <6>1, <6>3, <6>4
          <6> QED BY <1>3, <6>1, <6>5
        <5> QED BY <3>3, <5>1, <5>2 DEF WaitUnlock
      <4> QED BY <3>3, <4>1, <4>2, <4>3 DEF DepthOf
    <3>4. CASE u = t /\ Relock(t)
      <4>1. cpc[t] \in {"woken", "late"}
        BY <3>4 DEF Relock
      <4>2. depth[t][CvMutex] = wanted[t] - 1 /\ wanted[t] \in Nat
        BY <1>0, <1>1, <4>1 DEF DepthOf
      <4>3. CASE LockNow(t, CvMutex) /\ cpc' = [cpc EXCEPT ![t] = AfterRelock(t)]
        <5>1. /\ owner'[CvMutex] = t /\ lock_count'[CvMutex] = lock_count[CvMutex] + 1
              /\ lock_count[CvMutex] = 0 \/ owner[CvMutex] = t
          BY <1>0, <4>3 DEF LockNow
        <5>2. depth[t][CvMutex] = lock_count[CvMutex]
          BY <1>3, <5>1
        <5>3. lock_count'[CvMutex] = wanted[t]
          BY <1>0, <4>2, <5>1, <5>2
        <5>4. cpc'[t] \in {"test", "out"}
          BY <1>0, <4>3 DEF AfterRelock
        <5> QED BY <3>4, <5>1, <5>3, <5>4 DEF DepthOf
      <4>4. CASE /\ LockPend(t, CvMutex, FALSE) /\ UNCHANGED wanted
                 /\ cpc' = [cpc EXCEPT ![t] = IF @ = "woken" THEN "woken-pend" ELSE "late-pend"]
        <5>1. /\ state'[t] = "pend" /\ waits'[t] = CvMutex /\ owner[CvMutex] # t
          BY <1>0, <4>4 DEF LockPend
        <5>2. wanted'[t] = 1
          BY <1>0, <1>3, <4>2, <4>4, <5>1
        <5>3. cpc'[t] \in {"woken-pend", "late-pend"}
          BY <1>0, <4>4
        <5> QED BY <3>4, <5>1, <5>2, <5>3 DEF DepthOf
      <4> QED BY <3>4, <4>3, <4>4 DEF Relock
    <3> QED BY <2>3, <3>2, <3>3, <3>4
  <2>4. ASSUME UNCHANGED vars,
               cpc'[u] = cpc[u] \/ (cpc[u] \in {"pend", "wait", "woken", "late"}
                                       /\ cpc'[u] \in {"pend", "wait", "woken", "late"}),
               wanted'[u] = wanted[u]
        PROVE  Part(u)' /\ Kept(u)
    BY <1>0, <1>1, <2>4 DEF vars, DepthOf
  <2>5. CASE WaitPend(t, FALSE) \/ WaitPend(t, TRUE)
    BY <1>0, <2>4, <2>5 DEF WaitPend
  <2>6. CASE WaitTimeout(t)
    <3>1. cpc[t] = "wait"
      BY <1>0, <2>6 DEF WaitTimeout, CvShape
    <3> QED BY <1>0, <2>4, <2>6, <3>1 DEF WaitTimeout
  <2>7. CASE k_condvar_signal(t)
    <3>1. CASE cv_q = <<>>
      BY <2>4, <2>7, <3>1 DEF k_condvar_signal
    <3>2. CASE cv_q # <<>>
      <4>1. Head(cv_q) \in Threads /\ Head(cv_q) \in Range(cv_q)
        BY <1>0, <3>2, TailRange
      <4>2. cpc[Head(cv_q)] = "wait"
        BY <1>0, <4>1
      <4>3. cpc' = [cpc EXCEPT ![Head(cv_q)] = "woken"] /\ UNCHANGED <<vars, wanted>>
        BY <2>7, <3>2 DEF k_condvar_signal
      <4> QED BY <1>0, <2>4, <4>1, <4>2, <4>3
    <3> QED BY <3>1, <3>2
  <2>8. CASE k_condvar_broadcast(t)
    <3>1. /\ cpc'[u] = IF u \in Range(cv_q) THEN "woken" ELSE cpc[u]
          /\ UNCHANGED <<vars, wanted>>
      BY <2>8 DEF k_condvar_broadcast
    <3> QED BY <1>0, <2>4, <3>1
  <2>9. CASE Produce(t)
    BY <2>4, <2>9 DEF Produce
  <2>10. CASE Consume(t)
    <3>1. /\ cpc' = [cpc EXCEPT ![t] = "out"] /\ UNCHANGED <<vars, wanted>>
          /\ cpc[t] \in {"out", "test"}
      BY <2>10 DEF Consume
    <3>2. CASE u = t
      BY <1>0, <3>1, <3>2 DEF DepthOf
    <3>3. CASE u # t
      BY <1>0, <2>4, <3>1, <3>3
    <3> QED BY <3>2, <3>3
  <2>11. CASE k_condvar_wait(t)
    <3>1. /\ cpc' = [cpc EXCEPT ![t] = "unlock"] /\ UNCHANGED vars
          /\ wanted' = [wanted EXCEPT ![t] = depth[t][CvMutex]]
          /\ cpc[t] \in {"out", "test"} /\ state[t] = "run"
      BY <2>11 DEF k_condvar_wait, CanRun
    <3>2. CASE u = t
      BY <1>0, <3>1, <3>2 DEF DepthOf, vars
    <3>3. CASE u # t
      BY <1>0, <2>4, <3>1, <3>3
    <3> QED BY <3>2, <3>3
  <2>12. CASE RelockReturn(t)
    <3>1. /\ cpc' = [cpc EXCEPT ![t] = AfterRelock(t)] /\ UNCHANGED vars
          /\ wanted' = [wanted EXCEPT ![t] = 0]
          /\ cpc[t] \in {"woken-pend", "late-pend"} /\ state[t] = "run"
      BY <2>12 DEF RelockReturn, CanRun
    <3>2. CASE u = t
      <4>1. wanted[t] = 1 /\ depth[t][CvMutex] = 1
        BY <1>1, <3>1 DEF DepthOf
      <4>2. owner[CvMutex] = t /\ lock_count[CvMutex] = 1
        BY <1>3, <4>1
      <4>3. cpc'[t] \in {"test", "out"}
        BY <1>0, <3>1 DEF AfterRelock
      <4> QED BY <3>1, <3>2, <4>1, <4>2, <4>3 DEF DepthOf, vars
    <3>3. CASE u # t
      BY <1>0, <2>4, <3>1, <3>3
    <3> QED BY <3>2, <3>3
  <2> QED
    BY <2>1, <2>2, <2>3, <2>5, <2>6, <2>7, <2>8, <2>9, <2>10, <2>11, <2>12
<1> QED BY <1>4, <1>5

\* The initial state satisfies CvInv.
LEMMA CvInvInit == CvInit => CvInv
<1> SUFFICES ASSUME CvInit PROVE CvInv
  OBVIOUS
<1>1. Inv
  BY InvInit DEF CvInit
<1>2. Range(cv_q) = {} /\ IsInjective(cv_q) /\ cv_q \in Seq(Threads)
  BY DEF CvInit, Range, IsInjective
<1>3. CvShape
  BY <1>2, MutexAssumption DEF CvInit, CvShape
<1>4. SignalInv /\ DepthInv
  BY DEF CvInit, SignalInv, DepthInv, DepthOf
<1> QED BY <1>1, <1>3, <1>4 DEF CvInv

\* Every step preserves CvInv.
LEMMA CvInvStep == CvInv /\ [CvNext]_cvVars => CvInv'
<1> SUFFICES ASSUME CvInv, [CvNext]_cvVars PROVE CvInv'
  OBVIOUS
<1>1. Inv'
  BY CvStep, InvStep DEF CvInv
<1>2. CvShape' /\ SignalInv'
  BY ShapeStep, SignalStep DEF CvInv
<1>3. DepthInv'
  BY <1>1, DepthStep DEF CvInv
<1> QED BY <1>1, <1>2, <1>3 DEF CvInv

\* No signal falls between the release of the mutex in k_condvar_wait() and the
\* wait: while a thread waits, every item is covered by a signal to come or by a
\* thread that was woken, for any number of producers and consumers, with
\* timeouts and broadcasts.
THEOREM SignalNeverLost == CvSpec => []NoLostSignal
<1>1. CvInv => NoLostSignal
  BY DEF CvInv, SignalInv, NoLostSignal, Told
<1> QED BY <1>1, CvInvInit, CvInvStep, PTL DEF CvSpec

\* k_condvar_wait() returns with the mutex locked as often as it was called with,
\* signalled or late, whether the mutex was free, handed over or still owned.
THEOREM WaitReturnsLocked == CvSpec => WaitKeepsDepth
<1>1. CvInv /\ CvInv' /\ [CvNext]_cvVars =>
         [\A t \in Threads :
             cpc[t] \in {"woken", "woken-pend", "late", "late-pend"}
                 /\ cpc'[t] \in {"test", "out"}
             => owner'[CvMutex] = t /\ lock_count'[CvMutex] = wanted[t]]_cvVars
  BY DepthStep DEF CvInv
<1> QED BY <1>1, CvInvInit, CvInvStep, PTL DEF CvSpec, WaitKeepsDepth
=============================================================================
