---------------------------- MODULE ObjectsProof ----------------------------
(***************************************************************************)
(* Proofs about the kernel objects: what ContentsKept, NobodyStranded and  *)
(* ResultsHold say holds for any number of threads, messages, blocks,      *)
(* events, bytes and polled objects, and for rings, stacks and heaps of    *)
(* any size.                                                               *)
(*                                                                         *)
(* Each kind of object has an invariant of its own, XInv, with the lemmas  *)
(* XStart (it holds at first), XStep (every operation keeps it) and XMeans *)
(* (it implies what the module of the object states).  They rest on one    *)
(* account of waiting, WaitOK: in a queue are the threads that pend in a   *)
(* call that waits there, each once.                                       *)
(***************************************************************************)
EXTENDS Objects, SeqLemmas

-----------------------------------------------------------------------------
(* Waiting and waking, and sequences. *)

\* What a thread may be, with data from D.
States == {"run", "pend", "woken", "lost", "tested", "sync", "register"}
Ops == {"none", "put", "get", "pop", "alloc", "any", "all", "timed", "forever", "sync", "wait",
        "write", "read", "poll"}
Rets == {"0", "EAGAIN", "ENOMSG", "EINTR", "NULL", "retry", "served"}
ThreadType(D) == [st : States, op : Ops, data : D, ret : Rets, armed : BOOLEAN]

\* The threads f and a wait queue q: in it are those that pend in a call of O.
Waits(r, O) == r.st = "pend" /\ r.op \in O
WaitOK(f, q, D, O) ==
    /\ f \in [Threads -> ThreadType(D)]
    /\ q \in Seq(Threads) /\ IsInjective(q)
    /\ \A t \in Threads : t \in Range(q) <=> Waits(f[t], O)

\* An element is inserted somewhere in the sequence.
LEMMA InsertFacts ==
    ASSUME NEW q \in Seq(Threads), NEW t \in Threads
    PROVE  /\ InsertByPrio(q, t) \in Seq(Threads) /\ InsertByPrio(q, t) # <<>>
           /\ Range(InsertByPrio(q, t)) = Range(q) \union {t}
           /\ IsInjective(q) /\ t \notin Range(q) => IsInjective(InsertByPrio(q, t))
<1> DEFINE worse == {i \in 1..Len(q) : Prio[t] < Prio[q[i]]}
           place == IF worse = {} THEN Len(q) + 1 ELSE Min(worse)
<1>1. place \in 1..(Len(q) + 1)
  <2>1. CASE worse = {}
    BY <2>1, LenProperties
  <2>2. CASE worse # {}
    <3>1. worse \in SUBSET Nat
      BY LenProperties
    <3>2. \E x \in worse : \A y \in worse : x <= y
      BY <2>2, <3>1, LeastNatural
    <3>3. Min(worse) \in worse
      BY <3>2 DEF Min
    <3> QED BY <2>2, <3>3, LenProperties
  <2> QED BY <2>1, <2>2
<1>2. InsertByPrio(q, t) = InsertAt(q, place, t)
  BY DEF InsertByPrio
<1> HIDE DEF place
<1>3. InsertAt(q, place, t) \in Seq(Threads) /\ Len(InsertAt(q, place, t)) = Len(q) + 1
  BY <1>1, InsertAtElements
<1>4. InsertAt(q, place, t) # <<>>
  BY <1>3, LenProperties
<1> QED BY <1>1, <1>2, <1>3, <1>4, InsertAtRange

\* The only occurrence of an element is removed, if there is one.
LEMMA WithoutFacts ==
    ASSUME NEW S, NEW s \in Seq(S), IsInjective(s), NEW x
    PROVE  /\ Without(s, x) \in Seq(S) /\ IsInjective(Without(s, x))
           /\ Range(Without(s, x)) = Range(s) \ {x}
<1> DEFINE places == {i \in 1..Len(s) : s[i] = x}
           i == CHOOSE j \in places : TRUE
<1>1. CASE places = {}
  <2>1. Without(s, x) = s
    BY <1>1 DEF Without
  <2>2. x \notin Range(s)
    BY <1>1, RangeMembers
  <2> QED BY <2>1, <2>2
<1>2. CASE places # {}
  <2>1. i \in places
    BY <1>2
  <2>2. Without(s, x) = RemoveAt(s, i)
    BY <1>2 DEF Without
  <2>3. i \in 1..Len(s) /\ s[i] = x
    BY <2>1
  <2> HIDE DEF i
  <2> QED BY <2>2, <2>3, RemoveAtElements, RemoveAtRange
<1> QED BY <1>1, <1>2

\* A thread comes to wait.
LEMMA PendOK ==
    ASSUME NEW f, NEW q, NEW D, NEW O, WaitOK(f, q, D, O),
           NEW t \in Threads, ~Waits(f[t], O), NEW r \in ThreadType(D), Waits(r, O)
    PROVE  /\ WaitOK([f EXCEPT ![t] = r], InsertByPrio(q, t), D, O)
           /\ Range(InsertByPrio(q, t)) = Range(q) \union {t}
<1>1. q \in Seq(Threads) /\ IsInjective(q) /\ t \notin Range(q)
  BY DEF WaitOK
<1>2. /\ InsertByPrio(q, t) \in Seq(Threads) /\ IsInjective(InsertByPrio(q, t))
      /\ Range(InsertByPrio(q, t)) = Range(q) \union {t}
  BY <1>1, InsertFacts
<1> QED BY <1>2 DEF WaitOK

\* One that waits or not does not wait afterwards, and leaves the queue.
LEMMA LeaveOK ==
    ASSUME NEW f, NEW q, NEW D, NEW O, WaitOK(f, q, D, O),
           NEW t \in Threads, NEW r \in ThreadType(D), ~Waits(r, O)
    PROVE  /\ WaitOK([f EXCEPT ![t] = r], Without(q, t), D, O)
           /\ Range(Without(q, t)) = Range(q) \ {t}
<1>1. q \in Seq(Threads) /\ IsInjective(q)
  BY DEF WaitOK
<1>2. /\ Without(q, t) \in Seq(Threads) /\ IsInjective(Without(q, t))
      /\ Range(Without(q, t)) = Range(q) \ {t}
  BY <1>1, WithoutFacts
<1> QED BY <1>2 DEF WaitOK

\* The first leaves the queue.
LEMMA HeadOK ==
    ASSUME NEW f, NEW q, NEW D, NEW O, WaitOK(f, q, D, O), q # <<>>,
           NEW r \in ThreadType(D), ~Waits(r, O)
    PROVE  /\ Head(q) \in Threads /\ Head(q) \in Range(q) /\ Waits(f[Head(q)], O)
           /\ WaitOK([f EXCEPT ![Head(q)] = r], Tail(q), D, O)
           /\ Range(Tail(q)) = Range(q) \ {Head(q)}
<1>1. q \in Seq(Threads) /\ IsInjective(q)
  BY DEF WaitOK
<1>2. /\ Head(q) \in Threads /\ Head(q) \in Range(q)
      /\ Tail(q) \in Seq(Threads) /\ IsInjective(Tail(q))
      /\ Range(Tail(q)) = Range(q) \ {Head(q)}
  BY <1>1, TailRange
<1>3. Waits(f[Head(q)], O)
  BY <1>2 DEF WaitOK
<1> QED BY <1>2, <1>3 DEF WaitOK

\* One that is not in the queue changes.
LEMMA StayOK ==
    ASSUME NEW f, NEW q, NEW D, NEW O, WaitOK(f, q, D, O),
           NEW t \in Threads, ~Waits(f[t], O), NEW r \in ThreadType(D), ~Waits(r, O)
    PROVE  WaitOK([f EXCEPT ![t] = r], q, D, O)
BY DEF WaitOK

\* Nothing is in the empty sequence.
LEMMA EmptyRange ==
    ASSUME NEW S
    PROVE  <<>> \in Seq(S) /\ IsInjective(<<>>) /\ Range(<<>>) = {}
BY EmptySeq DEF Range, IsInjective

\* Nobody waits.
LEMMA EmptyOK ==
    ASSUME NEW D, NEW O, NEW g \in [Threads -> ThreadType(D)],
           \A t \in Threads : ~Waits(g[t], O)
    PROVE  WaitOK(g, <<>>, D, O)
BY EmptyRange DEF WaitOK

\* A sequence is empty if nothing is in it.
LEMMA NoRange ==
    ASSUME NEW S, NEW q \in Seq(S)
    PROVE  q = <<>> <=> Range(q) = {}
<1>1. \A x : x \in Range(q) <=> \E j \in 1..Len(q) : q[j] = x
  BY RangeMembers
<1>2. Len(q) \in Nat /\ (q = <<>> <=> Len(q) = 0)
  BY LenProperties, EmptySeq
<1>3. Len(q) # 0 => q[1] \in Range(q)
  BY <1>1, <1>2
<1> QED BY <1>1, <1>2, <1>3

\* A sequence is the function that it agrees with.
LEMMA SeqIs ==
    ASSUME NEW S, NEW s \in Seq(S), NEW e, e = [i \in 1..Len(s) |-> e[i]],
           \A i \in 1..Len(s) : s[i] = e[i]
    PROVE  s = e
<1>1. s = [i \in 1..Len(s) |-> s[i]]
  BY LenProperties
<1> QED BY <1>1

\* A sequence without its last element.
LEMMA FrontFacts ==
    ASSUME NEW S, NEW s \in Seq(S), s # <<>>
    PROVE  /\ Front(s) \in Seq(S) /\ Len(Front(s)) = Len(s) - 1
           /\ \A i \in 1..Len(s) - 1 : Front(s)[i] = s[i]
<1>1. Len(s) \in Nat /\ Len(s) # 0 /\ \A i \in 1..Len(s) - 1 : s[i] \in S
  BY EmptySeq, LenProperties, ElementOfSeq
<1>2. Front(s) = SubSeq(s, 1, Len(s) - 1)
  BY DEF Front
<1>3. /\ SubSeq(s, 1, Len(s) - 1) \in Seq(S)
      /\ Len(SubSeq(s, 1, Len(s) - 1)) = IF 1 <= Len(s) - 1 THEN (Len(s) - 1) - 1 + 1 ELSE 0
      /\ \A i \in 1..((Len(s) - 1) - 1 + 1) : SubSeq(s, 1, Len(s) - 1)[i] = s[1 + i - 1]
  BY <1>1, SubSeqProperties
<1>4. \A n \in Nat : n # 0 => /\ (IF 1 <= n - 1 THEN (n - 1) - 1 + 1 ELSE 0) = n - 1
                               /\ (n - 1) - 1 + 1 = n - 1 /\ \A i \in 1..n - 1 : 1 + i - 1 = i
  OBVIOUS
<1> QED BY <1>1, <1>2, <1>3, <1>4

\* Everybody runs at first.
LEMMA RunningOK ==
    ASSUME NEW D, NULL \in D, NEW O
    PROVE  /\ Running \in ThreadType(D) /\ ~Waits(Running, O)
           /\ WaitInit => WaitOK(th, wait_q, D, O)
<1>1. Running \in ThreadType(D) /\ ~Waits(Running, O)
  BY DEF Running, ThreadType, States, Ops, Rets, Waits
<1>2. WaitInit => th \in [Threads -> ThreadType(D)] /\ \A t \in Threads : ~Waits(th[t], O)
  BY <1>1 DEF WaitInit
<1>3. WaitInit => wait_q = <<>>
  BY DEF WaitInit
<1> QED BY <1>1, <1>2, <1>3, EmptyOK

\* The timeout of a thread that waits.
LEMMA TimeoutOK ==
    ASSUME NEW D, NEW O, WaitOK(th, wait_q, D, O), NEW t \in Threads, Timeout(t), th[t].op \in O
    PROVE  /\ th'[t].st = "woken" /\ th'[t].op = th[t].op
           /\ th'[t].data = th[t].data /\ th'[t].ret = th[t].ret
           /\ \A u \in Threads \ {t} : th'[u] = th[u]
           /\ obj' = obj /\ held' = held
           /\ Pends(t) /\ t \in Range(wait_q)
           /\ WaitOK(th', wait_q', D, O) /\ Range(wait_q') = Range(wait_q) \ {t}
<1> DEFINE r == [th[t] EXCEPT !.st = "woken", !.armed = FALSE]
<1>1. th \in [Threads -> ThreadType(D)]
  BY DEF WaitOK
<1>2. r \in ThreadType(D) /\ ~Waits(r, O)
  BY <1>1 DEF ThreadType, States, Waits
<1>3. /\ th' = [th EXCEPT ![t] = r]
      /\ wait_q' = Without(wait_q, t) /\ obj' = obj /\ held' = held /\ Pends(t)
  BY <1>1 DEF Timeout
<1>4. t \in Range(wait_q)
  BY <1>3 DEF WaitOK, Waits, Pends
<1> HIDE DEF r
<1>5. /\ WaitOK([th EXCEPT ![t] = r], Without(wait_q, t), D, O)
      /\ Range(Without(wait_q, t)) = Range(wait_q) \ {t}
  BY <1>2, LeaveOK
<1>6. WaitOK(th', wait_q', D, O) /\ Range(wait_q') = Range(wait_q) \ {t}
  BY <1>3, <1>5
<1>7. r.st = "woken" /\ r.op = th[t].op /\ r.data = th[t].data /\ r.ret = th[t].ret
  BY <1>1 DEF r, ThreadType
<1> QED BY <1>1, <1>3, <1>4, <1>6, <1>7

\* Only t changes, into r.
OnlyChanged(t, r) == th'[t] = r /\ \A u \in Threads \ {t} : th'[u] = th[u]

\* The first in the queue is woken with a result and data.
WakesFirst(ret, x) ==
    /\ wait_q # <<>>
    /\ th' = [th EXCEPT ![Head(wait_q)] = WokenWith(Head(wait_q), ret, x)]
    /\ wait_q' = Tail(wait_q)

\* The thread that is woken is the first, which waits no longer.
LEMMA HandOK ==
    ASSUME NEW D, NEW O, WaitOK(th, wait_q, D, O), NEW x \in D, NEW ret \in Rets,
           WakesFirst(ret, x)
    PROVE  \E w \in Threads :
              /\ w = Head(wait_q) /\ w \in Range(wait_q) /\ Waits(th[w], O)
              /\ OnlyChanged(w, th'[w])
              /\ th'[w].st = "woken" /\ th'[w].op = th[w].op
              /\ th'[w].data = x /\ th'[w].ret = ret
              /\ WaitOK(th', wait_q', D, O) /\ Range(wait_q') = Range(wait_q) \ {w}
<1> DEFINE w == Head(wait_q)
           r == WokenWith(w, ret, x)
<1>1. th \in [Threads -> ThreadType(D)] /\ wait_q \in Seq(Threads)
  BY DEF WaitOK
<1>2. w \in Threads /\ wait_q # <<>> /\ wait_q' = Tail(wait_q)
  BY <1>1, TailRange DEF WakesFirst
<1> HIDE DEF w
<1>3. /\ r \in ThreadType(D) /\ ~Waits(r, O)
      /\ r.st = "woken" /\ r.op = th[w].op /\ r.data = x /\ r.ret = ret
  <2>1. th[w] \in ThreadType(D)
    BY <1>1, <1>2
  <2>2. r \in ThreadType(D)
    BY <2>1 DEF WokenWith, ThreadType, States
  <2>3. r.st = "woken" /\ r.op = th[w].op /\ r.data = x /\ r.ret = ret
    BY <2>1 DEF WokenWith, ThreadType
  <2> HIDE DEF r
  <2> QED BY <2>2, <2>3 DEF Waits
<1> HIDE DEF r
<1>4. /\ Waits(th[w], O) /\ w \in Range(wait_q)
      /\ WaitOK([th EXCEPT ![w] = r], Tail(wait_q), D, O)
      /\ Range(Tail(wait_q)) = Range(wait_q) \ {w}
  BY <1>2, <1>3, HeadOK DEF w
<1>5. th' = [th EXCEPT ![w] = r]
  BY DEF w, r, WakesFirst
<1>6. WaitOK(th', wait_q', D, O) /\ Range(wait_q') = Range(wait_q) \ {w}
  BY <1>2, <1>4, <1>5
<1>7. th'[w] = r /\ OnlyChanged(w, th'[w])
  BY <1>1, <1>2, <1>5 DEF OnlyChanged
<1>8. w = Head(wait_q)
  BY DEF w
<1> QED BY <1>2, <1>3, <1>4, <1>6, <1>7, <1>8

\* z_pend_curr.
LEMMA PendCurrOK ==
    ASSUME NEW D, NEW O, WaitOK(th, wait_q, D, O), NEW t \in Threads, NEW op \in Ops, op \in O,
           NEW x \in D, NEW timed \in BOOLEAN, z_pend_curr(t, op, x, timed)
    PROVE  /\ Runs(t) /\ OnlyChanged(t, Pended(op, x, timed))
           /\ WaitOK(th', wait_q', D, O) /\ Range(wait_q') = Range(wait_q) \union {t}
<1> DEFINE r == Pended(op, x, timed)
<1>1. th \in [Threads -> ThreadType(D)] /\ wait_q \in Seq(Threads)
  BY DEF WaitOK
<1>2. r \in ThreadType(D) /\ Waits(r, O)
  BY DEF Pended, ThreadType, States, Rets, Waits
<1>3. th' = [th EXCEPT ![t] = r] /\ wait_q' = InsertByPrio(wait_q, t) /\ Runs(t)
  BY DEF z_pend_curr
<1>4. ~Waits(th[t], O)
  BY <1>3 DEF Waits, Runs
<1> HIDE DEF r
<1>5. /\ WaitOK([th EXCEPT ![t] = r], InsertByPrio(wait_q, t), D, O)
      /\ Range(InsertByPrio(wait_q, t)) = Range(wait_q) \union {t}
  BY <1>2, <1>4, PendOK
<1>6. WaitOK(th', wait_q', D, O) /\ Range(wait_q') = Range(wait_q) \union {t}
  BY <1>3, <1>5
<1>7. OnlyChanged(t, r)
  BY <1>1, <1>3 DEF OnlyChanged
<1> QED BY <1>3, <1>6, <1>7 DEF r

\* A call returns.
LEMMA ReturnOK ==
    ASSUME NEW D, NULL \in D, NEW O, WaitOK(th, wait_q, D, O), NEW t \in Threads, ~Waits(th[t], O),
           th' = [th EXCEPT ![t] = Running], wait_q' = wait_q
    PROVE  OnlyChanged(t, Running) /\ WaitOK(th', wait_q', D, O)
<1>1. th \in [Threads -> ThreadType(D)]
  BY DEF WaitOK
<1>2. Running \in ThreadType(D) /\ ~Waits(Running, O)
  BY RunningOK
<1>3. WaitOK([th EXCEPT ![t] = Running], wait_q, D, O)
  BY <1>2, StayOK
<1>4. WaitOK(th', wait_q', D, O)
  BY <1>3
<1> QED BY <1>1, <1>4 DEF OnlyChanged

\* What becomes of a thread that is woken with its own data.
Wakes(t, ret) ==
    /\ th'[t].st = "woken" /\ th'[t].op = th[t].op
    /\ th'[t].data = th[t].data /\ th'[t].ret = ret

\* The threads of a set are woken.
LEMMA WokenAllIs ==
    ASSUME NEW D, th \in [Threads -> ThreadType(D)], NEW S, NEW ret \in Rets, th' = WokenAll(S, ret)
    PROVE  /\ th' \in [Threads -> ThreadType(D)]
           /\ \A t \in Threads : IF t \in S THEN Wakes(t, ret) ELSE th'[t] = th[t]
<1> SUFFICES ASSUME NEW t \in Threads
             PROVE  /\ th'[t] \in ThreadType(D)
                    /\ IF t \in S THEN Wakes(t, ret) ELSE th'[t] = th[t]
  BY DEF WokenAll
<1> DEFINE r == WokenWith(t, ret, th[t].data)
<1>1. th[t] \in ThreadType(D)
  OBVIOUS
<1>2. r.st = "woken" /\ r.op = th[t].op /\ r.data = th[t].data /\ r.ret = ret
  BY <1>1 DEF WokenWith, ThreadType
<1>3. th'[t] = IF t \in S THEN r ELSE th[t]
  BY DEF WokenAll
<1>4. r \in ThreadType(D)
  BY <1>1 DEF WokenWith, ThreadType, States
<1> HIDE DEF r
<1> QED BY <1>1, <1>2, <1>3, <1>4 DEF Wakes

\* All threads in the queue are woken.
LEMMA WakeAllOK ==
    ASSUME NEW D, NEW O, WaitOK(th, wait_q, D, O), NEW ret \in Rets,
           th' = WokenAll(Range(wait_q), ret), wait_q' = <<>>
    PROVE  /\ \A t \in Threads : IF t \in Range(wait_q) THEN Wakes(t, ret) ELSE th'[t] = th[t]
           /\ WaitOK(th', wait_q', D, O)
<1>1. /\ th' \in [Threads -> ThreadType(D)]
      /\ \A t \in Threads : IF t \in Range(wait_q) THEN Wakes(t, ret) ELSE th'[t] = th[t]
  BY WokenAllIs DEF WaitOK
<1>2. \A t \in Threads : ~Waits(th'[t], O)
  BY <1>1 DEF WaitOK, Waits, Wakes
<1>3. WaitOK(th', <<>>, D, O)
  BY <1>1, <1>2, EmptyOK
<1> QED BY <1>1, <1>3

\* What follows the first k elements of a sequence.
LEMMA SuffixFacts ==
    ASSUME NEW S, NEW s \in Seq(S), NEW k \in 0..Len(s)
    PROVE  /\ SubSeq(s, k + 1, Len(s)) \in Seq(S) /\ Len(SubSeq(s, k + 1, Len(s))) = Len(s) - k
           /\ \A i \in 1..Len(s) - k : SubSeq(s, k + 1, Len(s))[i] = s[k + i]
           /\ \A x : x \in Range(SubSeq(s, k + 1, Len(s))) <=> \E j \in k + 1..Len(s) : s[j] = x
           /\ IsInjective(s) => IsInjective(SubSeq(s, k + 1, Len(s)))
<1> DEFINE b == SubSeq(s, k + 1, Len(s))
           n == Len(s)
<1>0. n \in Nat /\ DOMAIN s = 1..n /\ \A j \in k + 1..n : s[j] \in S
  BY LenProperties, ElementOfSeq
<1>1. /\ b \in Seq(S)
      /\ Len(b) = IF k + 1 <= n THEN n - (k + 1) + 1 ELSE 0
      /\ \A j \in 1..(n - (k + 1) + 1) : b[j] = s[k + 1 + j - 1]
  BY <1>0, SubSeqProperties
<1> HIDE DEF b
<1>2. Len(b) = n - k /\ \A i \in 1..n - k : b[i] = s[k + i]
  <2>0. k \in Int /\ n \in Int /\ k <= n
    BY <1>0
  <2> HIDE DEF n
  <2>1. n - (k + 1) + 1 = n - k /\ (k + 1 <= n \/ n - k = 0)
    BY <2>0
  <2>2. \A i \in 1..n - k : k + 1 + i - 1 = k + i
    BY <2>0
  <2>3. Len(b) = n - k
    BY <1>1, <2>1
  <2> QED BY <1>1, <2>1, <2>2, <2>3
<1>3. \A x : x \in Range(b) <=> \E j \in 1..n - k : b[j] = x
  BY <1>1, <1>2, RangeMembers
<1>4. \A x : x \in Range(b) <=> \E j \in k + 1..n : s[j] = x
  <2>1. ASSUME NEW j \in k + 1..n PROVE j - k \in 1..n - k /\ k + (j - k) = j
    BY <1>0
  <2>2. ASSUME NEW j \in 1..n - k PROVE k + j \in k + 1..n
    BY <1>0
  <2>3. ASSUME NEW x, NEW j \in k + 1..n, s[j] = x PROVE x \in Range(b)
    <3>1. b[j - k] = s[j]
      BY <1>2, <2>1
    <3> QED BY <1>3, <2>1, <2>3, <3>1
  <2>4. ASSUME NEW x \in Range(b) PROVE \E j \in k + 1..n : s[j] = x
    <3>1. PICK j \in 1..n - k : b[j] = x
      BY <1>3
    <3> QED BY <1>2, <2>2, <3>1
  <2> QED BY <2>3, <2>4
<1>5. ASSUME IsInjective(s) PROVE IsInjective(b)
  <2>1. DOMAIN b = 1..n - k
    BY <1>1, <1>2, LenProperties
  <2>2. ASSUME NEW i \in 1..n - k, NEW j \in 1..n - k, b[i] = b[j] PROVE i = j
    <3>1. k + i \in 1..n /\ k + j \in 1..n /\ k \in Int /\ i \in Int /\ j \in Int
      BY <1>0
    <3>2. s[k + i] = s[k + j]
      BY <1>2, <2>2
    <3>3. k + i = k + j
      BY <1>0, <1>5, <3>1, <3>2 DEF IsInjective
    <3> QED BY <3>1, <3>3
  <2> QED BY <2>1, <2>2 DEF IsInjective
<1> QED BY <1>1, <1>2, <1>4, <1>5 DEF b

\* One sequence behind another.
LEMMA ConcatFacts ==
    ASSUME NEW S, NEW s \in Seq(S), NEW b \in Seq(S)
    PROVE  /\ s \o b \in Seq(S) /\ Len(s \o b) = Len(s) + Len(b)
           /\ \A i \in 1..Len(s) + Len(b) : (s \o b)[i] = IF i <= Len(s) THEN s[i] ELSE b[i - Len(s)]
           /\ Range(s \o b) = Range(s) \union Range(b)
           /\ IsInjective(s) /\ IsInjective(b) /\ Range(s) \intersect Range(b) = {} => IsInjective(s \o b)
<1> DEFINE c == s \o b
           m == Len(s)
           n == Len(b)
<1>1. /\ m \in Nat /\ n \in Nat /\ DOMAIN s = 1..m /\ DOMAIN b = 1..n
  BY LenProperties
<1>2. /\ c \in Seq(S) /\ Len(c) = m + n
      /\ \A i \in 1..m + n : c[i] = IF i <= m THEN s[i] ELSE b[i - m]
  BY ConcatProperties
<1> HIDE DEF c
<1>3. /\ \A x : x \in Range(s) <=> \E j \in 1..m : s[j] = x
      /\ \A x : x \in Range(b) <=> \E j \in 1..n : b[j] = x
      /\ \A x : x \in Range(c) <=> \E j \in 1..m + n : c[j] = x
  BY <1>2, RangeMembers
<1>4. /\ \A i \in 1..m : i \in 1..m + n /\ c[i] = s[i]
      /\ \A i \in 1..n : m + i \in 1..m + n /\ c[m + i] = b[i]
      /\ \A i \in 1..m + n : IF i <= m THEN i \in 1..m ELSE i - m \in 1..n
  <2>1. \A i \in 1..n : m + i \in 1..m + n /\ ~(m + i <= m) /\ m + i - m = i
    BY <1>1
  <2>2. \A i \in 1..m : i \in 1..m + n
    BY <1>1
  <2>3. \A i \in 1..m + n : IF i <= m THEN i \in 1..m ELSE i - m \in 1..n
    BY <1>1
  <2> HIDE DEF m, n
  <2>4. ASSUME NEW i \in 1..n PROVE c[m + i] = b[i]
    <3> DEFINE j == m + i
    <3>1. j \in 1..m + n /\ ~(j <= m) /\ j - m = i
      BY <1>1
    <3> HIDE DEF j
    <3>2. c[j] = b[j - m]
      BY <1>2, <3>1
    <3>3. c[j] = b[i]
      BY <3>1, <3>2
    <3> QED BY <3>3 DEF j
  <2>5. ASSUME NEW i \in 1..m PROVE c[i] = s[i]
    BY <1>1, <1>2, <2>2
  <2> QED BY <2>1, <2>2, <2>3, <2>4, <2>5
<1>5. ASSUME NEW x PROVE x \in Range(c) <=> x \in Range(s) \union Range(b)
  <2>1. ASSUME x \in Range(c) PROVE x \in Range(s) \union Range(b)
    <3>1. PICK j \in 1..m + n : c[j] = x
      BY <1>3, <2>1
    <3>2. CASE j <= m
      BY <1>2, <1>3, <1>4, <3>1, <3>2
    <3>3. CASE ~(j <= m)
      BY <1>2, <1>3, <1>4, <3>1, <3>3
    <3> QED BY <3>2, <3>3
  <2>2. ASSUME x \in Range(s) PROVE x \in Range(c)
    BY <1>3, <1>4, <2>2
  <2>3. ASSUME x \in Range(b) PROVE x \in Range(c)
    BY <1>3, <1>4, <2>3
  <2> QED BY <2>1, <2>2, <2>3
<1>6. ASSUME IsInjective(s), IsInjective(b), Range(s) \intersect Range(b) = {} PROVE IsInjective(c)
  <2>1. DOMAIN c = 1..m + n
    BY <1>2, LenProperties
  <2>2. ASSUME NEW i \in 1..m + n, NEW j \in 1..m + n, c[i] = c[j] PROVE i = j
    <3>1. CASE i <= m /\ j <= m
      BY <1>1, <1>2, <1>4, <1>6, <2>2, <3>1 DEF IsInjective
    <3>2. CASE i <= m /\ ~(j <= m)
      BY <1>2, <1>3, <1>4, <1>6, <2>2, <3>2
    <3>3. CASE ~(i <= m) /\ j <= m
      BY <1>2, <1>3, <1>4, <1>6, <2>2, <3>3
    <3>4. CASE ~(i <= m) /\ ~(j <= m)
      <4>1. i - m \in 1..n /\ j - m \in 1..n /\ b[i - m] = b[j - m]
        BY <1>2, <1>4, <2>2, <3>4
      <4>2. i - m = j - m
        BY <1>1, <1>6, <4>1 DEF IsInjective
      <4> QED BY <1>1, <4>2
    <3> QED BY <3>1, <3>2, <3>3, <3>4
  <2> QED BY <2>1, <2>2 DEF IsInjective
<1> QED BY <1>2, <1>5, <1>6 DEF c

\* The smaller and the larger of two numbers.
LEMMA OfTwo ==
    ASSUME NEW a \in Int, NEW b \in Int
    PROVE  /\ Min({a, b}) = IF a <= b THEN a ELSE b
           /\ Max({a, b}) = IF a >= b THEN a ELSE b
<1>1. \E x \in {a, b} : \A y \in {a, b} : x <= y
  BY DEF Min
<1>2. \E x \in {a, b} : \A y \in {a, b} : x >= y
  OBVIOUS
<1>3. Min({a, b}) \in {a, b} /\ \A y \in {a, b} : Min({a, b}) <= y
  BY <1>1 DEF Min
<1>4. Max({a, b}) \in {a, b} /\ \A y \in {a, b} : Max({a, b}) >= y
  BY <1>2 DEF Max
<1> QED BY <1>3, <1>4

\* A sequence in which nothing comes twice has as many members as it is long.
LEMMA RangeCount ==
    ASSUME NEW S, NEW s \in Seq(S), IsInjective(s)
    PROVE  IsFiniteSet(Range(s)) /\ Cardinality(Range(s)) = Len(s)
<1>1. Len(s) \in Nat /\ DOMAIN s = 1..Len(s)
  BY LenProperties
<1>2. s \in [1..Len(s) -> Range(s)]
  BY <1>1, LenProperties, RangeMembers DEF Range
<1>3. s \in Bijection(1..Len(s), Range(s))
  BY <1>1, <1>2 DEF Bijection, Injection, Surjection, IsInjective, Range
<1>4. ExistsBijection(1..Len(s), Range(s))
  BY <1>3 DEF ExistsBijection
<1>5. IsFiniteSet(1..Len(s)) /\ Cardinality(1..Len(s)) = Len(s)
  BY <1>1, FS_Interval
<1> QED BY <1>4, <1>5, FS_Bijection

\* A function on the first n numbers is a sequence.
LEMMA FunctionIsSeq ==
    ASSUME NEW S, NEW n \in Nat, NEW s \in [1..n -> S]
    PROVE  s \in Seq(S) /\ Len(s) = n
<1>1. s = [i \in 1..n |-> s[i]]
  OBVIOUS
<1>2. [i \in 1..n |-> s[i]] \in Seq(S)
  OBVIOUS
<1>3. Len([i \in 1..n |-> s[i]]) = n
  OBVIOUS
<1> QED BY <1>1, <1>2, <1>3

\* The least place of a set of places, or the one behind all.
LEMMA PlaceFacts ==
    ASSUME NEW n \in Nat, NEW W \in SUBSET (1..n)
    PROVE  /\ (IF W = {} THEN n + 1 ELSE Min(W)) \in 1..(n + 1)
           /\ IF W = {} THEN FirstOf(W) = 0 ELSE FirstOf(W) \in W /\ FirstOf(W) # 0
<1>1. CASE W = {}
  BY <1>1 DEF FirstOf
<1>2. CASE W # {}
  <2>1. W \in SUBSET Nat
    OBVIOUS
  <2>2. \E x \in W : \A y \in W : x <= y
    BY <1>2, <2>1, LeastNatural
  <2>3. Min(W) \in W
    BY <2>2 DEF Min
  <2>4. Min(W) \in 1..n
    BY <2>3
  <2> QED BY <1>2, <2>3, <2>4 DEF FirstOf
<1> QED BY <1>1, <1>2

-----------------------------------------------------------------------------
(* Stacks. *)

StackInv ==
    /\ WaitOK(th, wait_q, Items \union {NULL}, Ops)
    /\ obj \in [data : [0..MaxEntries - 1 -> Items \union {NULL}], next : 0..MaxEntries]
    /\ held \in Seq(Items) /\ Len(held) = obj.next
    /\ \A i \in 1..obj.next : held[i] = obj.data[i - 1]
    /\ \A t \in Threads : Pends(t) => th[t].data = NULL /\ th[t].ret = "EAGAIN"
    /\ StackNobodyStranded

\* The properties of a stack follow.
LEMMA StackMeans ==
    ASSUME StackInv
    PROVE  StackContents /\ StackNobodyStranded
<1> DEFINE e == [i \in 1..obj.next |-> obj.data[i - 1]]
<1>1. held \in Seq(Items) /\ Len(held) = obj.next /\ StackNobodyStranded
  BY DEF StackInv
<1>2. e = [i \in 1..Len(held) |-> e[i]] /\ \A i \in 1..Len(held) : held[i] = e[i]
  BY <1>1 DEF StackInv
<1> HIDE DEF e
<1>3. held = e
  BY <1>1, <1>2, SeqIs
<1> QED BY <1>1, <1>3 DEF StackContents, e

\* A stack starts empty.
LEMMA StackStart ==
    StackInit => StackInv
<1> SUFFICES ASSUME StackInit PROVE StackInv
  OBVIOUS
<1>1. WaitOK(th, wait_q, Items \union {NULL}, Ops)
  BY RunningOK DEF StackInit
<1>2. held \in Seq(Items) /\ Len(held) = 0
  BY EmptySeq DEF StackInit
<1>3. obj \in [data : [0..MaxEntries - 1 -> Items \union {NULL}], next : 0..MaxEntries] /\ obj.next = 0
  BY StackAssumption DEF StackInit
<1>4. wait_q = <<>> /\ \A t \in Threads : th[t].st = "run"
  BY DEF StackInit, WaitInit, Running
<1> QED BY <1>1, <1>2, <1>3, <1>4 DEF StackInv, StackNobodyStranded, Pends, Woken

\* Every operation keeps the invariant.
LEMMA StackStep ==
    ASSUME StackInv, StackNext
    PROVE  StackInv'
<1> DEFINE D == Items \union {NULL}
<1> USE DEF Pends, Woken, Runs
<1>1. /\ WaitOK(th, wait_q, D, Ops)
      /\ obj \in [data : [0..MaxEntries - 1 -> D], next : 0..MaxEntries]
      /\ held \in Seq(Items) /\ Len(held) = obj.next
      /\ \A i \in 1..obj.next : held[i] = obj.data[i - 1]
      /\ \A t \in Threads : Pends(t) => th[t].data = NULL /\ th[t].ret = "EAGAIN"
      /\ wait_q # <<>> => obj.next = 0
      /\ \A t \in Threads : Woken(t) => (th[t].data # NULL) = (th[t].ret = "0")
  BY DEF StackInv, StackNobodyStranded, D
<1>2. th \in [Threads -> ThreadType(D)] /\ wait_q \in Seq(Threads)
  BY <1>1 DEF WaitOK
<1>3. MaxEntries \in Nat /\ NULL \in D /\ Items \subseteq D /\ NULL \notin Items
  BY StackAssumption, WaitQAssumption
<1>10. \A t \in Threads : th[t].op \in Ops
  BY <1>2 DEF ThreadType
<1> HIDE DEF D
<1>4. CASE Pop
  <2> DEFINE h == Front(held)
  <2>1. held # <<>>
    BY <1>1, <1>4, EmptySeq DEF Pop
  <2>2. h \in Seq(Items) /\ Len(h) = Len(held) - 1 /\ \A i \in 1..Len(held) - 1 : h[i] = held[i]
    BY <1>1, <2>1, FrontFacts
  <2>3. /\ obj' = [obj EXCEPT !.next = @ - 1] /\ held' = h /\ th' = th /\ wait_q' = wait_q
        /\ obj.next > 0
    BY <1>4 DEF Pop
  <2> HIDE DEF h
  <2>4. /\ obj' \in [data : [0..MaxEntries - 1 -> D], next : 0..MaxEntries]
        /\ obj'.next = obj.next - 1 /\ obj'.data = obj.data
    BY <1>1, <1>3, <2>3
  <2>5. WaitOK(th', wait_q', D, Ops)
    BY <1>1, <2>3
  <2> QED BY <1>1, <2>2, <2>3, <2>4, <2>5 DEF StackInv, StackNobodyStranded, D
<1>5. ASSUME NEW x \in Items, PushStore(x) PROVE StackInv'
  <2> DEFINE h == Append(held, x)
  <2>1. /\ h \in Seq(Items) /\ Len(h) = Len(held) + 1 /\ \A i \in 1..Len(held) : h[i] = held[i]
        /\ h[Len(held) + 1] = x
    BY <1>1, AppendProperties
  <2>2. /\ obj' = [obj EXCEPT !.data[obj.next] = x, !.next = @ + 1]
        /\ held' = h /\ th' = th /\ wait_q' = wait_q /\ obj.next < MaxEntries /\ wait_q = <<>>
    BY <1>5 DEF PushStore
  <2> HIDE DEF h
  <2> DEFINE d == [obj.data EXCEPT ![obj.next] = x]
  <2>6. d \in [0..MaxEntries - 1 -> D] /\ d[obj.next] = x /\ \A i \in 0..obj.next - 1 : d[i] = obj.data[i]
    BY <1>1, <1>3, <2>2
  <2>7. obj' = [obj EXCEPT !.data = d, !.next = @ + 1] /\ obj.next < MaxEntries
    BY <2>2
  <2> HIDE DEF d
  <2>8. obj' = [data |-> d, next |-> obj.next + 1]
    BY <1>1, <2>7
  <2>9. obj.next + 1 \in 0..MaxEntries
    BY <1>1, <1>3, <2>7
  <2>3. /\ obj' \in [data : [0..MaxEntries - 1 -> D], next : 0..MaxEntries]
        /\ obj'.next = obj.next + 1 /\ obj'.data = d
    BY <2>6, <2>8, <2>9
  <2>4. \A i \in 1..obj'.next : held'[i] = obj'.data[i - 1]
    BY <1>1, <1>3, <2>1, <2>2, <2>3, <2>6
  <2>5. WaitOK(th', wait_q', D, Ops)
    BY <1>1, <2>2
  <2> QED BY <1>1, <2>1, <2>2, <2>3, <2>4, <2>5 DEF StackInv, StackNobodyStranded, D
<1>6. ASSUME NEW x \in Items, PushHand(x) PROVE StackInv'
  <2>1. WakesFirst("0", x) /\ obj' = obj /\ held' = held /\ wait_q # <<>>
    BY <1>6 DEF PushHand, WakesFirst
  <2>2. x \in D /\ "0" \in Rets /\ x # NULL
    BY <1>3 DEF Rets
  <2>3. PICK w \in Threads :
           /\ OnlyChanged(w, th'[w]) /\ th'[w].st = "woken"
           /\ th'[w].data = x /\ th'[w].ret = "0" /\ WaitOK(th', wait_q', D, Ops)
    BY <1>1, <2>1, <2>2, HandOK
  <2> QED BY <1>1, <2>1, <2>2, <2>3 DEF StackInv, StackNobodyStranded, OnlyChanged, D
<1>7. ASSUME NEW t \in Threads, PopReturn(t) PROVE StackInv'
  <2>1. th' = [th EXCEPT ![t] = Running] /\ wait_q' = wait_q /\ obj' = obj /\ held' = held /\ Woken(t)
    BY <1>7 DEF PopReturn
  <2>2. ~Waits(th[t], Ops)
    BY <2>1 DEF Waits
  <2>3. OnlyChanged(t, Running) /\ WaitOK(th', wait_q', D, Ops)
    BY <1>1, <1>3, <2>1, <2>2, ReturnOK
  <2> QED BY <1>1, <2>1, <2>3 DEF StackInv, StackNobodyStranded, Running, OnlyChanged, D
<1>8. ASSUME NEW t \in Threads, Timeout(t) PROVE StackInv'
  <2>1. /\ th'[t].st = "woken" /\ th'[t].data = th[t].data /\ th'[t].ret = th[t].ret
        /\ \A u \in Threads \ {t} : th'[u] = th[u]
        /\ obj' = obj /\ held' = held /\ Pends(t) /\ t \in Range(wait_q)
        /\ WaitOK(th', wait_q', D, Ops)
    BY <1>1, <1>8, <1>10, TimeoutOK
  <2>2. wait_q # <<>>
    BY <1>2, <2>1, NoRange
  <2> QED BY <1>1, <2>1, <2>2 DEF StackInv, StackNobodyStranded, D
<1>9. ASSUME NEW t \in Threads, NEW timed \in BOOLEAN, PopWait(t, timed) PROVE StackInv'
  <2>1. z_pend_curr(t, "pop", NULL, timed) /\ obj' = obj /\ held' = held /\ obj.next = 0
    BY <1>9 DEF PopWait
  <2>2. OnlyChanged(t, Pended("pop", NULL, timed)) /\ WaitOK(th', wait_q', D, Ops)
    <3>1. "pop" \in Ops
      BY DEF Ops
    <3> QED BY <1>1, <1>3, <2>1, <3>1, PendCurrOK
  <2> QED BY <1>1, <2>1, <2>2 DEF StackInv, StackNobodyStranded, Pended, OnlyChanged, D
<1> QED BY <1>4, <1>5, <1>6, <1>7, <1>8, <1>9 DEF StackNext

-----------------------------------------------------------------------------
(* Message queues. *)

\* The place of a ring that is u places behind r.
Place(r, u) == (r + u) % MaxMsgs

\* The ring o holds the messages h in order, and the pointers agree.
RingType ==
    [buffer : [0..MaxMsgs - 1 -> Items \union {NULL}], read_ptr : 0..MaxMsgs - 1,
     write_ptr : 0..MaxMsgs - 1, used : 0..MaxMsgs]
HoldsInOrder(o, h) ==
    /\ o \in RingType
    /\ o.write_ptr = Place(o.read_ptr, o.used)
    /\ h \in Seq(Items) /\ Len(h) = o.used
    /\ \A i \in 1..o.used : h[i] = o.buffer[Place(o.read_ptr, i - 1)]

\* Places of a ring are told apart, and going on from one leads to the next.
LEMMA RingPlaces ==
    ASSUME NEW r \in 0..MaxMsgs - 1
    PROVE  /\ \A u \in 0..MaxMsgs : Place(r, u) \in 0..MaxMsgs - 1
           /\ \A u, v \in 0..MaxMsgs - 1 : u # v => Place(r, u) # Place(r, v)
           /\ Place(r, 0) = r /\ Place(r, MaxMsgs) = r /\ Advance(r) \in 0..MaxMsgs - 1
           /\ \A u \in 0..MaxMsgs - 1 : /\ Advance(Place(r, u)) = Place(r, u + 1)
                                        /\ Place(Advance(r), u) = Place(r, u + 1)
<1> DEFINE n == MaxMsgs
<1>0. n \in Nat /\ n # 0
  BY MsgQAssumption
<1>1. ASSUME NEW q \in 0..n - 1, NEW u \in 0..n
      PROVE  Place(q, u) = IF q + u < n THEN q + u ELSE q + u - n
  <2> DEFINE x == q + u
  <2>1. x \in 0..2 * n - 1 /\ Place(q, u) = x % n
    BY <1>0 DEF Place
  <2> HIDE DEF x, n
  <2>2. CASE x < n
    BY <1>0, <2>1, <2>2 DEF x
  <2>3. CASE x >= n
    BY <1>0, <2>1, <2>3 DEF x
  <2> QED BY <1>0, <2>1, <2>2, <2>3
<1>2. Advance(r) = IF r + 1 = n THEN 0 ELSE r + 1
  BY DEF Advance
<1>3. Advance(r) \in 0..n - 1 /\ 0 \in 0..n /\ n \in 0..n
  BY <1>0, <1>2
<1>4. ASSUME NEW u \in 0..n - 1
      PROVE  Advance(Place(r, u)) = Place(r, u + 1) /\ Place(Advance(r), u) = Place(r, u + 1)
  <2>1. u \in 0..n /\ u + 1 \in 0..n
    BY <1>0
  <2>2. /\ Place(r, u) = IF r + u < n THEN r + u ELSE r + u - n
        /\ Place(r, u + 1) = IF r + (u + 1) < n THEN r + (u + 1) ELSE r + (u + 1) - n
        /\ Place(Advance(r), u) = IF Advance(r) + u < n THEN Advance(r) + u ELSE Advance(r) + u - n
    BY <1>1, <1>3, <2>1
  <2>3. Advance(Place(r, u)) = IF Place(r, u) + 1 = n THEN 0 ELSE Place(r, u) + 1
    BY DEF Advance
  <2> QED BY <1>0, <1>2, <2>2, <2>3
<1>5. \A u \in 0..n : Place(r, u) = IF r + u < n THEN r + u ELSE r + u - n
  BY <1>1
<1>6. \A u \in 0..n : Place(r, u) \in 0..n - 1
  BY <1>0, <1>5
<1>7. \A u, v \in 0..n - 1 : u # v => Place(r, u) # Place(r, v)
  BY <1>0, <1>5
<1>8. Place(r, 0) = r /\ Place(r, n) = r
  BY <1>0, <1>3, <1>5
<1> QED BY <1>3, <1>4, <1>6, <1>7, <1>8

\* A message is stored behind the last.
LEMMA StoreInOrder ==
    ASSUME NEW o, NEW h, HoldsInOrder(o, h), o.used < MaxMsgs, NEW msg \in Items
    PROVE  HoldsInOrder(Store(o, msg), Append(h, msg)) /\ Store(o, msg).used = o.used + 1
<1> DEFINE b == [o.buffer EXCEPT ![o.write_ptr] = msg]
           w == Advance(o.write_ptr)
           s == Store(o, msg)
           g == Append(h, msg)
           M == MaxMsgs
<1>1. M \in Nat \ {0}
  BY MsgQAssumption
<1>2. /\ o \in RingType /\ o.write_ptr = Place(o.read_ptr, o.used)
      /\ h \in Seq(Items) /\ Len(h) = o.used
      /\ \A i \in 1..o.used : h[i] = o.buffer[Place(o.read_ptr, i - 1)]
  BY DEF HoldsInOrder
<1>3. /\ o.read_ptr \in 0..M - 1 /\ o.write_ptr \in 0..M - 1 /\ o.used \in 0..M - 1
      /\ o.used + 1 \in 0..M /\ o.used \in 0..M
      /\ o.buffer \in [0..M - 1 -> Items \union {NULL}]
  BY <1>1, <1>2 DEF RingType
<1>4. /\ g \in Seq(Items) /\ Len(g) = o.used + 1 /\ g[o.used + 1] = msg
      /\ \A i \in 1..o.used : g[i] = h[i]
  BY <1>2, AppendProperties
<1>5. b \in [0..M - 1 -> Items \union {NULL}] /\ b[o.write_ptr] = msg
      /\ \A j \in 0..M - 1 : j # o.write_ptr => b[j] = o.buffer[j]
  BY <1>3
<1>6. s.buffer = b /\ s.write_ptr = w /\ s.used = o.used + 1 /\ s.read_ptr = o.read_ptr
  BY <1>2 DEF Store, RingType
<1>7. w = Place(o.read_ptr, o.used + 1)
  <2>1. \A u \in 0..MaxMsgs - 1 : Advance(Place(o.read_ptr, u)) = Place(o.read_ptr, u + 1)
    BY <1>3, RingPlaces
  <2>2. Advance(Place(o.read_ptr, o.used)) = Place(o.read_ptr, o.used + 1)
    BY <1>3, <2>1
  <2> QED BY <1>2, <2>2
<1>10. w \in 0..M - 1
  BY <1>3, <1>7, RingPlaces
<1>8. s \in RingType
  <2>1. s = [o EXCEPT !.buffer = b, !.write_ptr = w, !.used = @ + 1]
    BY DEF Store
  <2> HIDE DEF s, b, w
  <2> QED BY <1>2, <1>3, <1>5, <1>10, <2>1 DEF RingType
<1> HIDE DEF b, w, s, g
<1>9. ASSUME NEW i \in 1..o.used + 1 PROVE g[i] = b[Place(o.read_ptr, i - 1)]
  <2>1. CASE i = o.used + 1
    <3>1. i - 1 = o.used
      BY <1>3, <2>1
    <3> QED BY <1>2, <1>4, <1>5, <2>1, <3>1
  <2>2. CASE i # o.used + 1
    <3>1. i \in 1..o.used /\ i - 1 \in 0..M - 1 /\ i - 1 \in 0..M /\ i - 1 # o.used
      BY <1>1, <1>3, <2>2
    <3>2. Place(o.read_ptr, i - 1) # Place(o.read_ptr, o.used) /\ Place(o.read_ptr, i - 1) \in 0..M - 1
      <4>1. /\ \A u \in 0..M : Place(o.read_ptr, u) \in 0..M - 1
            /\ \A u, v \in 0..M - 1 : u # v => Place(o.read_ptr, u) # Place(o.read_ptr, v)
        BY <1>3, RingPlaces
      <4> QED BY <1>3, <3>1, <4>1
    <3> QED BY <1>2, <1>4, <1>5, <3>1, <3>2
  <2> QED BY <2>1, <2>2
<1> QED BY <1>4, <1>6, <1>7, <1>8, <1>9 DEF HoldsInOrder, g, s

\* The ring without its first message.
Taken(o) == [o EXCEPT !.read_ptr = Advance(@), !.used = @ - 1]

\* The first message is taken.
LEMMA TakeInOrder ==
    ASSUME NEW o, NEW h, HoldsInOrder(o, h), o.used > 0
    PROVE  HoldsInOrder(Taken(o), Tail(h)) /\ Taken(o).used = o.used - 1 /\ h # <<>>
<1> DEFINE s == Taken(o)
           g == Tail(h)
           M == MaxMsgs
<1>1. M \in Nat \ {0}
  BY MsgQAssumption
<1>2. /\ o \in RingType /\ o.write_ptr = Place(o.read_ptr, o.used)
      /\ h \in Seq(Items) /\ Len(h) = o.used
      /\ \A i \in 1..o.used : h[i] = o.buffer[Place(o.read_ptr, i - 1)]
  BY DEF HoldsInOrder
<1>3. /\ o.read_ptr \in 0..M - 1 /\ o.write_ptr \in 0..M - 1 /\ o.used \in 1..M
      /\ o.used - 1 \in 0..M /\ o.used - 1 \in 0..M - 1
  BY <1>1, <1>2 DEF RingType
<1>4. h # <<>>
  BY <1>2, <1>3, EmptySeq
<1>5. /\ g \in Seq(Items) /\ Len(g) = o.used - 1
      /\ \A i \in 1..o.used - 1 : g[i] = h[i + 1]
  BY <1>2, <1>4, HeadTailProperties
<1>6. Advance(o.read_ptr) \in 0..M - 1
  BY <1>3, RingPlaces
<1>7. /\ s.buffer = o.buffer /\ s.write_ptr = o.write_ptr /\ s.used = o.used - 1
      /\ s.read_ptr = Advance(o.read_ptr) /\ s \in RingType
  BY <1>2, <1>3, <1>6 DEF Taken, RingType
<1> HIDE DEF s, g
<1>8. Place(Advance(o.read_ptr), o.used - 1) = o.write_ptr
  <2>1. o.used - 1 + 1 = o.used
    BY <1>3
  <2>2. Place(Advance(o.read_ptr), o.used - 1) = Place(o.read_ptr, o.used - 1 + 1)
    BY <1>3, RingPlaces
  <2> QED BY <1>2, <2>1, <2>2
<1>9. ASSUME NEW i \in 1..o.used - 1 PROVE g[i] = s.buffer[Place(s.read_ptr, i - 1)]
  <2>1. i - 1 \in 0..M - 1 /\ i - 1 + 1 = i /\ i + 1 \in 1..o.used /\ i + 1 - 1 = i
    BY <1>1, <1>3
  <2>2. Place(Advance(o.read_ptr), i - 1) = Place(o.read_ptr, i - 1 + 1)
    BY <1>3, <2>1, RingPlaces
  <2>3. h[i + 1] = o.buffer[Place(o.read_ptr, i + 1 - 1)]
    BY <1>2, <2>1
  <2>4. i - 1 + 1 = i + 1 - 1
    BY <2>1
  <2> QED BY <1>5, <1>7, <2>2, <2>3, <2>4
<1>10. s.write_ptr = Place(s.read_ptr, s.used)
  BY <1>7, <1>8
<1> QED BY <1>4, <1>5, <1>7, <1>9, <1>10 DEF HoldsInOrder, g, s

\* A message is in the ring or with one thread.
MsgQOwners ==
    \A t \in Threads : th[t].data # NULL =>
        /\ th[t].data \notin Range(held)
        /\ \A u \in Threads \ {t} : th[u].data # th[t].data

\* What a call has from its start to its return.
MsgQCalls ==
    \A t \in Threads :
        /\ Pends(t) => /\ th[t].op \in {"get", "put"} /\ th[t].ret = "EAGAIN"
                       /\ (th[t].op = "get") = (th[t].data = NULL)
        /\ Woken(t) => (th[t].data # NULL) = ((th[t].op = "get") = (th[t].ret = "0"))

MsgQInv ==
    /\ WaitOK(th, wait_q, Items \union {NULL}, Ops)
    /\ HoldsInOrder(obj, held) /\ IsInjective(held)
    /\ MsgQOwners /\ MsgQCalls /\ MsgQNobodyStranded

\* The properties of a message queue follow.
LEMMA MsgQMeans ==
    ASSUME MsgQInv
    PROVE  MsgQContents /\ MsgQNobodyStranded /\ MsgQResults
<1> DEFINE e == [i \in 1..obj.used |-> obj.buffer[(obj.read_ptr + i - 1) % MaxMsgs]]
<1>1. HoldsInOrder(obj, held) /\ MsgQOwners /\ MsgQCalls /\ MsgQNobodyStranded
  BY DEF MsgQInv
<1>2. held \in Seq(Items) /\ Len(held) = obj.used /\ obj.used \in Nat /\ obj.read_ptr \in Nat
  BY <1>1, MsgQAssumption DEF HoldsInOrder, RingType
<1>3. \A i \in 1..Len(held) : held[i] = e[i]
  <2> SUFFICES ASSUME NEW i \in 1..Len(held) PROVE held[i] = e[i]
    OBVIOUS
  <2>1. held[i] = obj.buffer[Place(obj.read_ptr, i - 1)]
    BY <1>1, <1>2 DEF HoldsInOrder
  <2>2. obj.read_ptr + (i - 1) = obj.read_ptr + i - 1
    BY <1>2
  <2> QED BY <1>2, <2>1, <2>2 DEF Place
<1>4. e = [i \in 1..Len(held) |-> e[i]]
  BY <1>2
<1> HIDE DEF e
<1>5. held = e
  BY <1>2, <1>3, <1>4, SeqIs
<1> QED BY <1>1, <1>5 DEF MsgQContents, MsgQResults, MsgQOwners, MsgQCalls, e

\* An empty ring holds nothing in order.
LEMMA EmptyInOrder ==
    ASSUME NEW o \in RingType, o.used = 0, o.write_ptr = o.read_ptr
    PROVE  HoldsInOrder(o, <<>>) /\ IsInjective(<<>>) /\ Range(<<>>) = {}
<1>1. o.read_ptr \in 0..MaxMsgs - 1
  BY DEF RingType
<1>2. Place(o.read_ptr, 0) = o.read_ptr
  BY <1>1, RingPlaces
<1> QED BY <1>2, EmptySeq, EmptyRange DEF HoldsInOrder

\* A message queue starts empty.
LEMMA MsgQStart ==
    MsgQInit => MsgQInv
<1> SUFFICES ASSUME MsgQInit PROVE MsgQInv
  OBVIOUS
<1>1. WaitOK(th, wait_q, Items \union {NULL}, Ops)
  BY RunningOK DEF MsgQInit
<1>2. obj \in RingType /\ obj.used = 0 /\ obj.write_ptr = obj.read_ptr /\ held = <<>>
  BY MsgQAssumption DEF MsgQInit, RingType
<1>3. HoldsInOrder(obj, held) /\ IsInjective(held)
  BY <1>2, EmptyInOrder
<1>4. wait_q = <<>> /\ \A t \in Threads : th[t].st = "run" /\ th[t].data = NULL
  BY DEF MsgQInit, WaitInit, Running
<1>5. Range(wait_q) = {}
  BY <1>4, EmptyRange
<1> QED BY <1>1, <1>3, <1>4, <1>5
        DEF MsgQInv, MsgQNobodyStranded, MsgQOwners, MsgQCalls, Pends, Woken, Waiters

\* Every operation keeps the invariant.
LEMMA MsgQStep ==
    ASSUME MsgQInv, MsgQNext
    PROVE  MsgQInv'
<1> DEFINE D == Items \union {NULL}
<1> USE DEF Pends, Woken, Runs, Waiters
<1>1. /\ WaitOK(th, wait_q, D, Ops) /\ HoldsInOrder(obj, held) /\ IsInjective(held)
      /\ MsgQOwners /\ MsgQCalls /\ MsgQNobodyStranded
  BY DEF MsgQInv
<1>2. /\ th \in [Threads -> ThreadType(D)] /\ wait_q \in Seq(Threads)
      /\ \A t \in Threads : t \in Range(wait_q) => Pends(t)
      /\ Range(wait_q) \subseteq Threads
  BY <1>1, RangeMembers DEF WaitOK, Waits
<1>3. NULL \in D /\ Items \subseteq D /\ NULL \notin Items /\ \A x \in D : x # NULL => x \in Items
  BY WaitQAssumption
<1>4. \A t \in Threads : th[t].op \in Ops /\ th[t].data \in D
  BY <1>2 DEF ThreadType
<1>5. held \in Seq(Items) /\ Len(held) = obj.used /\ obj.used \in 0..MaxMsgs /\ MaxMsgs \in Nat \ {0}
  BY <1>1, MsgQAssumption DEF HoldsInOrder, RingType
<1>6. WaitOK(th', wait_q', D, Ops) /\ HoldsInOrder(obj', held') /\ IsInjective(held')
      /\ MsgQOwners' /\ MsgQCalls' /\ MsgQNobodyStranded' => MsgQInv'
  BY DEF MsgQInv
<1>7. \A msg : Free(msg) => msg \notin Range(held) /\ \A t \in Threads : th[t].data # msg
  BY <1>5, RangeMembers DEF Free
<1> HIDE DEF D
<1>8. CASE Get
  <2>1. Take = Taken(obj) /\ obj.used > 0
    BY <1>8 DEF Take, Taken, Get
  <2>2. HoldsInOrder(Taken(obj), Tail(held)) /\ Taken(obj).used = obj.used - 1 /\ held # <<>>
    BY <1>1, <2>1, TakeInOrder
  <2>3. Range(Tail(held)) \subseteq Range(held) /\ IsInjective(Tail(held)) /\ Tail(held) \in Seq(Items)
    BY <1>1, <1>5, <2>2, TailRange
  <2>4. CASE wait_q = <<>>
    <3>1. obj' = Taken(obj) /\ held' = Tail(held) /\ th' = th /\ wait_q' = wait_q
      BY <1>8, <2>1, <2>4 DEF Get
    <3>2. Range(wait_q) = {}
      BY <2>4, EmptyRange
    <3>3. WaitOK(th', wait_q', D, Ops) /\ HoldsInOrder(obj', held') /\ IsInjective(held')
      BY <1>1, <2>2, <2>3, <3>1
    <3>4. MsgQOwners' /\ MsgQCalls' /\ MsgQNobodyStranded'
      BY <1>1, <2>3, <3>1, <3>2 DEF MsgQOwners, MsgQCalls, MsgQNobodyStranded
    <3> QED BY <1>6, <3>3, <3>4
  <2>5. CASE wait_q # <<>>
    <3> DEFINE w == Head(wait_q)
               msg == th[w].data
    <3>1. /\ obj' = Store(Take, msg) /\ held' = Append(Tail(held), msg)
          /\ WakesFirst("0", NULL)
      BY <1>8, <2>5 DEF Get, WakesFirst
    <3>2. w \in Threads /\ w \in Range(wait_q) /\ Pends(w)
      BY <1>2, <2>5, TailRange
    <3> HIDE DEF w
    <3>3. obj.used = MaxMsgs /\ th[w].op # "get"
      BY <1>1, <1>5, <2>1, <3>2 DEF MsgQNobodyStranded
    <3>4. msg # NULL /\ msg \in Items /\ msg \notin Range(held)
      BY <1>1, <1>3, <1>4, <3>2, <3>3 DEF MsgQCalls, MsgQOwners
    <3>5. HoldsInOrder(obj', held') /\ obj'.used = MaxMsgs
      <4>1. Taken(obj).used < MaxMsgs /\ Taken(obj).used + 1 = MaxMsgs
        BY <1>5, <2>2, <3>3
      <4> HIDE DEF msg
      <4> QED BY <2>1, <2>2, <3>1, <3>4, <4>1, StoreInOrder
    <3>6. IsInjective(held') /\ Range(held') = Range(Tail(held)) \union {msg}
      <4>1. msg \notin Range(Tail(held))
        BY <2>3, <3>4
      <4> DEFINE q == Tail(held)
      <4>2. q \in Seq(Items) /\ msg \in Items /\ IsInjective(q) /\ msg \notin Range(q)
        BY <2>3, <3>4, <4>1
      <4>3. held' = Append(q, msg)
        BY <3>1
      <4> HIDE DEF msg, q
      <4>4. IsInjective(Append(q, msg)) /\ Range(Append(q, msg)) = Range(q) \union {msg}
        BY ONLY <4>2, AppendFacts
      <4>5. Range(Tail(held)) = Range(q)
        BY DEF q
      <4> QED BY ONLY <4>3, <4>4, <4>5
    <3>7. "0" \in Rets
      BY DEF Rets
    <3>8. PICK v \in Threads :
             /\ v = Head(wait_q) /\ v \in Range(wait_q)
             /\ OnlyChanged(v, th'[v])
             /\ th'[v].st = "woken" /\ th'[v].op = th[v].op
             /\ th'[v].data = NULL /\ th'[v].ret = "0"
             /\ WaitOK(th', wait_q', D, Ops) /\ Range(wait_q') = Range(wait_q) \ {v}
      BY <1>1, <1>3, <3>1, <3>7, HandOK
    <3>9. v = w
      BY <3>8 DEF w
    <3>10. MsgQOwners'
      BY <1>1, <1>4, <2>3, <3>2, <3>6, <3>8, <3>9 DEF MsgQOwners, OnlyChanged
    <3>11. MsgQCalls'
      BY <1>1, <3>3, <3>8, <3>9 DEF MsgQCalls, OnlyChanged
    <3>12. MsgQNobodyStranded'
      BY <1>1, <1>2, <1>5, <3>3, <3>5, <3>8 DEF MsgQNobodyStranded, OnlyChanged
    <3> QED BY <1>6, <3>5, <3>6, <3>8, <3>10, <3>11, <3>12
  <2> QED BY <2>4, <2>5
<1>9. ASSUME NEW msg \in Items, PutHand(msg) PROVE MsgQInv'
  <2>1. WakesFirst("0", msg) /\ obj' = obj /\ held' = held /\ Free(msg) /\ obj.used < MaxMsgs
    BY <1>9 DEF PutHand, WakesFirst
  <2>2. msg \in D /\ "0" \in Rets /\ msg # NULL
    BY <1>3 DEF Rets
  <2>3. PICK w \in Threads :
           /\ w \in Range(wait_q)
           /\ OnlyChanged(w, th'[w]) /\ th'[w].st = "woken" /\ th'[w].op = th[w].op
           /\ th'[w].data = msg /\ th'[w].ret = "0"
           /\ WaitOK(th', wait_q', D, Ops) /\ Range(wait_q') = Range(wait_q) \ {w}
    BY <1>1, <2>1, <2>2, HandOK
  <2>4. th[w].op = "get"
    BY <1>1, <1>2, <1>5, <2>1, <2>3 DEF MsgQCalls, MsgQNobodyStranded
  <2>5. MsgQOwners'
    BY <1>1, <1>7, <2>1, <2>3 DEF MsgQOwners, OnlyChanged
  <2>6. MsgQCalls'
    BY <1>1, <2>2, <2>3, <2>4 DEF MsgQCalls, OnlyChanged
  <2>7. MsgQNobodyStranded'
    BY <1>1, <1>2, <2>1, <2>3 DEF MsgQNobodyStranded, OnlyChanged
  <2> QED BY <1>1, <1>6, <2>1, <2>3, <2>5, <2>6, <2>7
<1>10. ASSUME NEW msg \in Items, PutStore(msg) PROVE MsgQInv'
  <2>1. /\ obj' = Store(obj, msg) /\ held' = Append(held, msg) /\ th' = th /\ wait_q' = wait_q
        /\ Free(msg) /\ obj.used < MaxMsgs /\ wait_q = <<>>
    BY <1>10 DEF PutStore
  <2>2. Range(wait_q) = {}
    BY <2>1, EmptyRange
  <2>3. HoldsInOrder(obj', held')
    BY <1>1, <2>1, StoreInOrder
  <2>4. IsInjective(held') /\ Range(held') = Range(held) \union {msg}
    BY <1>1, <1>5, <1>7, <2>1, AppendFacts
  <2>5. MsgQOwners' /\ MsgQCalls' /\ MsgQNobodyStranded'
    BY <1>1, <1>7, <2>1, <2>2, <2>4 DEF MsgQOwners, MsgQCalls, MsgQNobodyStranded
  <2>6. WaitOK(th', wait_q', D, Ops)
    BY <1>1, <2>1
  <2> QED BY <1>6, <2>3, <2>4, <2>5, <2>6
<1>11. ASSUME NEW t \in Threads, k_msgq_purge(t) PROVE MsgQInv'
  <2>1. /\ th' = WokenAll(Range(wait_q), "ENOMSG") /\ wait_q' = <<>> /\ held' = <<>>
        /\ obj' = [obj EXCEPT !.used = 0, !.read_ptr = obj.write_ptr]
    BY <1>11 DEF k_msgq_purge
  <2>2. obj' \in RingType /\ obj'.used = 0 /\ obj'.write_ptr = obj'.read_ptr
    <3>1. obj \in RingType
      BY <1>1 DEF HoldsInOrder
    <3>2. 0 \in 0..MaxMsgs
      BY <1>5
    <3> QED BY <2>1, <3>1, <3>2 DEF RingType
  <2>3. HoldsInOrder(obj', held') /\ IsInjective(held') /\ Range(held') = {}
    BY <2>1, <2>2, EmptyInOrder
  <2>4. "ENOMSG" \in Rets /\ Range(wait_q') = {}
    BY <2>1, EmptyRange DEF Rets
  <2>5. /\ \A u \in Threads : IF u \in Range(wait_q) THEN Wakes(u, "ENOMSG") ELSE th'[u] = th[u]
        /\ WaitOK(th', wait_q', D, Ops)
    BY <1>1, <2>1, <2>4, WakeAllOK
  <2>6. \A u \in Threads : th'[u].data = th[u].data
    BY <2>5 DEF Wakes
  <2>7. MsgQOwners'
    BY <1>1, <2>3, <2>6 DEF MsgQOwners
  <2>8. MsgQCalls'
    BY <1>1, <1>2, <2>5 DEF MsgQCalls, Wakes
  <2>9. MsgQNobodyStranded'
    BY <2>4 DEF MsgQNobodyStranded
  <2> QED BY <1>6, <2>3, <2>5, <2>7, <2>8, <2>9
<1>12. ASSUME NEW t \in Threads, MsgQReturn(t) PROVE MsgQInv'
  <2>1. th' = [th EXCEPT ![t] = Running] /\ wait_q' = wait_q /\ obj' = obj /\ held' = held /\ Woken(t)
    BY <1>12 DEF MsgQReturn
  <2>2. ~Waits(th[t], Ops)
    BY <2>1 DEF Waits
  <2>3. OnlyChanged(t, Running) /\ WaitOK(th', wait_q', D, Ops)
    BY <1>1, <1>3, <2>1, <2>2, ReturnOK
  <2>4. MsgQOwners' /\ MsgQCalls'
    BY <1>1, <2>1, <2>3 DEF MsgQOwners, MsgQCalls, OnlyChanged, Running
  <2>5. MsgQNobodyStranded'
    BY <1>1, <1>2, <2>1, <2>3 DEF MsgQNobodyStranded, OnlyChanged
  <2> QED BY <1>1, <1>6, <2>1, <2>3, <2>4, <2>5
<1>13. ASSUME NEW t \in Threads, Timeout(t) PROVE MsgQInv'
  <2>1. /\ th'[t].st = "woken" /\ th'[t].op = th[t].op
        /\ th'[t].data = th[t].data /\ th'[t].ret = th[t].ret
        /\ \A u \in Threads \ {t} : th'[u] = th[u]
        /\ obj' = obj /\ held' = held /\ Pends(t)
        /\ WaitOK(th', wait_q', D, Ops) /\ Range(wait_q') = Range(wait_q) \ {t}
    BY <1>1, <1>13, <1>4, TimeoutOK
  <2>2. MsgQOwners'
    BY <1>1, <2>1 DEF MsgQOwners
  <2>3. MsgQCalls'
    BY <1>1, <2>1 DEF MsgQCalls
  <2>4. MsgQNobodyStranded'
    BY <1>1, <1>2, <2>1 DEF MsgQNobodyStranded
  <2> QED BY <1>1, <1>6, <2>1, <2>2, <2>3, <2>4
<1>14. ASSUME NEW t \in Threads, NEW timed \in BOOLEAN, GetPend(t, timed) PROVE MsgQInv'
  <2>1. z_pend_curr(t, "get", NULL, timed) /\ obj' = obj /\ held' = held /\ obj.used = 0
    BY <1>14 DEF GetPend
  <2>2. /\ OnlyChanged(t, Pended("get", NULL, timed)) /\ WaitOK(th', wait_q', D, Ops)
        /\ Range(wait_q') = Range(wait_q) \union {t}
    <3>1. "get" \in Ops
      BY DEF Ops
    <3> QED BY <1>1, <1>3, <2>1, <3>1, PendCurrOK
  <2>3. MsgQOwners' /\ MsgQCalls'
    BY <1>1, <2>1, <2>2 DEF MsgQOwners, MsgQCalls, Pended, OnlyChanged
  <2>4. MsgQNobodyStranded'
    BY <1>1, <1>2, <2>1, <2>2 DEF MsgQNobodyStranded, Pended, OnlyChanged
  <2> QED BY <1>1, <1>6, <2>1, <2>2, <2>3, <2>4
<1>15. ASSUME NEW t \in Threads, NEW timed \in BOOLEAN, NEW msg \in Items, PutPend(t, msg, timed)
       PROVE  MsgQInv'
  <2>1. z_pend_curr(t, "put", msg, timed) /\ obj' = obj /\ held' = held /\ obj.used = MaxMsgs /\ Free(msg)
    BY <1>15 DEF PutPend
  <2>2. /\ OnlyChanged(t, Pended("put", msg, timed)) /\ WaitOK(th', wait_q', D, Ops)
        /\ Range(wait_q') = Range(wait_q) \union {t}
    <3>1. "put" \in Ops /\ msg \in D
      BY <1>3 DEF Ops
    <3> QED BY <1>1, <1>3, <2>1, <3>1, PendCurrOK
  <2>3. MsgQOwners'
    BY <1>1, <1>3, <1>7, <2>1, <2>2 DEF MsgQOwners, Pended, OnlyChanged
  <2>5. MsgQCalls'
    BY <1>1, <1>3, <2>1, <2>2 DEF MsgQCalls, Pended, OnlyChanged
  <2>4. MsgQNobodyStranded'
    BY <1>1, <1>2, <2>1, <2>2 DEF MsgQNobodyStranded, Pended, OnlyChanged
  <2> QED BY <1>1, <1>6, <2>1, <2>2, <2>3, <2>4, <2>5
<1> QED BY <1>8, <1>9, <1>10, <1>11, <1>12, <1>13, <1>14, <1>15 DEF MsgQNext

\* The first in the queue is woken with its own data.
LEMMA WakeHeadOK ==
    ASSUME NEW D, NEW O, WaitOK(th, wait_q, D, O), NEW ret \in Rets, wait_q # <<>>,
           th' = WokenAll({Head(wait_q)}, ret), wait_q' = Tail(wait_q)
    PROVE  \E w \in Threads :
              /\ w = Head(wait_q) /\ w \in Range(wait_q) /\ Waits(th[w], O) /\ Wakes(w, ret)
              /\ OnlyChanged(w, th'[w])
              /\ WaitOK(th', wait_q', D, O) /\ Range(wait_q') = Range(wait_q) \ {w}
<1> DEFINE w == Head(wait_q)
<1>1. /\ th \in [Threads -> ThreadType(D)] /\ wait_q \in Seq(Threads) /\ IsInjective(wait_q)
      /\ \A t \in Threads : t \in Range(wait_q) <=> Waits(th[t], O)
  BY DEF WaitOK
<1>2. /\ w \in Threads /\ w \in Range(wait_q) /\ wait_q' \in Seq(Threads) /\ IsInjective(wait_q')
      /\ Range(wait_q') = Range(wait_q) \ {w} /\ w = Head(wait_q)
  BY <1>1, TailRange
<1>3. /\ th' \in [Threads -> ThreadType(D)]
      /\ \A t \in Threads : IF t \in {w} THEN Wakes(t, ret) ELSE th'[t] = th[t]
  BY <1>1, WokenAllIs
<1> HIDE DEF w
<1>4. Wakes(w, ret) /\ OnlyChanged(w, th'[w]) /\ ~Waits(th'[w], O)
  BY <1>2, <1>3 DEF Wakes, OnlyChanged, Waits
<1>5. WaitOK(th', wait_q', D, O)
  BY <1>1, <1>2, <1>3, <1>4 DEF WaitOK, OnlyChanged
<1> QED BY <1>1, <1>2, <1>4, <1>5

-----------------------------------------------------------------------------
(* Futexes. *)

FutexInv ==
    /\ WaitOK(th, wait_q, Items \union {NULL}, Ops)
    /\ obj \in [val : Items, due : BOOLEAN]
    /\ FutexNobodyStranded

\* A futex starts with a value for which nobody waits.
LEMMA FutexStart ==
    FutexInit => FutexInv
<1> SUFFICES ASSUME FutexInit PROVE FutexInv
  OBVIOUS
<1>1. WaitOK(th, wait_q, Items \union {NULL}, Ops)
  BY RunningOK DEF FutexInit
<1>2. obj \in [val : Items, due : BOOLEAN]
  BY DEF FutexInit
<1>3. Range(wait_q) = {}
  BY EmptyRange DEF FutexInit, WaitInit
<1> QED BY <1>1, <1>2, <1>3 DEF FutexInv, FutexNobodyStranded, Waiters

\* Every operation keeps the invariant.
LEMMA FutexStep ==
    ASSUME FutexInv, FutexNext
    PROVE  FutexInv'
<1> DEFINE D == Items \union {NULL}
<1> USE DEF Pends, Woken, Runs, Waiters
<1>1. WaitOK(th, wait_q, D, Ops) /\ obj \in [val : Items, due : BOOLEAN] /\ FutexNobodyStranded
  BY DEF FutexInv
<1>2. /\ th \in [Threads -> ThreadType(D)] /\ wait_q \in Seq(Threads) /\ Range(wait_q) \subseteq Threads
      /\ \A t \in Threads : t \in Range(wait_q) => Pends(t)
  BY <1>1, RangeMembers DEF WaitOK, Waits
<1>3. NULL \in D /\ Items \subseteq D
  BY WaitQAssumption
<1>4. \A t \in Threads : th[t].op \in Ops /\ th[t].data \in D
  BY <1>2 DEF ThreadType
<1>5. WaitOK(th', wait_q', D, Ops) /\ obj' \in [val : Items, due : BOOLEAN] /\ FutexNobodyStranded'
         => FutexInv'
  BY DEF FutexInv
<1>13. "0" \in Rets
  BY DEF Rets
<1> HIDE DEF D
<1>6. CASE FutexWakeAll
  <2>1. /\ th' = WokenAll(Range(wait_q), "0") /\ wait_q' = <<>>
        /\ obj' = [obj EXCEPT !.due = FALSE]
    BY <1>6 DEF FutexWakeAll
  <2>2. obj' \in [val : Items, due : BOOLEAN]
    BY <1>1, <2>1
  <2>3. Range(wait_q') = {}
    BY <2>1, EmptyRange
  <2>4. WaitOK(th', wait_q', D, Ops)
    BY <1>1, <1>13, <2>1, WakeAllOK
  <2> QED BY <1>5, <2>2, <2>3, <2>4 DEF FutexNobodyStranded
<1>7. CASE FutexWakeOne
  <2>1. /\ th' = WokenAll({Head(wait_q)}, "0") /\ wait_q' = Tail(wait_q) /\ wait_q # <<>>
        /\ obj' = obj /\ held' = held
    BY <1>7 DEF FutexWakeOne
  <2>2. PICK w \in Threads :
           /\ OnlyChanged(w, th'[w]) /\ WaitOK(th', wait_q', D, Ops)
           /\ Range(wait_q') = Range(wait_q) \ {w}
    BY <1>1, <1>13, <2>1, WakeHeadOK
  <2> QED BY <1>1, <1>2, <1>5, <2>1, <2>2 DEF FutexNobodyStranded, OnlyChanged
<1>8. ASSUME NEW v \in Items, FutexChange(v) PROVE FutexInv'
  <2>1. obj' = [val |-> v, due |-> TRUE] /\ th' = th /\ wait_q' = wait_q
    BY <1>8 DEF FutexChange
  <2>2. WaitOK(th', wait_q', D, Ops)
    BY <1>1, <2>1
  <2> QED BY <1>5, <2>1, <2>2 DEF FutexNobodyStranded
<1>9. ASSUME NEW t \in Threads, FutexTest(t) PROVE FutexInv'
  <2> DEFINE r == [Running EXCEPT !.st = "tested", !.data = obj.val]
  <2>1. th' = [th EXCEPT ![t] = r] /\ wait_q' = wait_q /\ obj' = obj /\ held' = held /\ Runs(t)
    BY <1>9 DEF FutexTest
  <2>2. r \in ThreadType(D) /\ ~Waits(r, Ops) /\ ~Waits(th[t], Ops)
    BY <1>1, <1>3, <2>1 DEF Running, ThreadType, States, Ops, Rets, Waits
  <2> HIDE DEF r
  <2>3. WaitOK([th EXCEPT ![t] = r], wait_q, D, Ops)
    BY <1>1, <2>2, StayOK
  <2>4. WaitOK(th', wait_q', D, Ops) /\ \A u \in Threads \ {t} : th'[u] = th[u]
    BY <1>2, <2>1, <2>3
  <2> QED BY <1>1, <1>2, <1>5, <2>1, <2>4 DEF FutexNobodyStranded
<1>10. ASSUME NEW t \in Threads, FutexReturn(t) PROVE FutexInv'
  <2>1. th' = [th EXCEPT ![t] = Running] /\ wait_q' = wait_q /\ obj' = obj /\ held' = held \ {t} /\ Woken(t)
    BY <1>10 DEF FutexReturn
  <2>2. ~Waits(th[t], Ops)
    BY <2>1 DEF Waits
  <2>3. OnlyChanged(t, Running) /\ WaitOK(th', wait_q', D, Ops)
    BY <1>1, <1>3, <2>1, <2>2, ReturnOK
  <2> QED BY <1>1, <1>2, <1>5, <2>1, <2>3 DEF FutexNobodyStranded, OnlyChanged
<1>11. ASSUME NEW t \in Threads, Timeout(t) PROVE FutexInv'
  <2>1. /\ \A u \in Threads \ {t} : th'[u] = th[u]
        /\ obj' = obj /\ held' = held
        /\ WaitOK(th', wait_q', D, Ops) /\ Range(wait_q') = Range(wait_q) \ {t}
    BY <1>1, <1>4, <1>11, TimeoutOK
  <2> QED BY <1>1, <1>2, <1>5, <2>1 DEF FutexNobodyStranded
<1>12. ASSUME NEW t \in Threads, NEW timed \in BOOLEAN, FutexWait(t, timed) PROVE FutexInv'
  <2> DEFINE r == Pended("wait", th[t].data, timed)
  <2>1. /\ th' = [th EXCEPT ![t] = r] /\ wait_q' = InsertByPrio(wait_q, t) /\ obj' = obj
        /\ held' = (IF th[t].data = obj.val THEN held ELSE held \union {t}) /\ th[t].st = "tested"
    BY <1>12 DEF FutexWait
  <2>2. r \in ThreadType(D) /\ Waits(r, Ops) /\ ~Waits(th[t], Ops) /\ r.data = th[t].data
    BY <1>4, <2>1 DEF Pended, ThreadType, States, Ops, Rets, Waits
  <2> HIDE DEF r
  <2>3. /\ WaitOK([th EXCEPT ![t] = r], InsertByPrio(wait_q, t), D, Ops)
        /\ Range(InsertByPrio(wait_q, t)) = Range(wait_q) \union {t}
    BY <1>1, <2>2, PendOK
  <2>4. WaitOK(th', wait_q', D, Ops) /\ Range(wait_q') = Range(wait_q) \union {t}
    BY <2>1, <2>3
  <2>5. OnlyChanged(t, r)
    BY <1>2, <2>1 DEF OnlyChanged
  <2> QED BY <1>1, <1>2, <1>5, <2>1, <2>2, <2>4, <2>5 DEF FutexNobodyStranded, OnlyChanged
<1> QED BY <1>6, <1>7, <1>8, <1>9, <1>10, <1>11, <1>12 DEF FutexNext
-----------------------------------------------------------------------------
(* Heaps. *)

HeapInv ==
    /\ WaitOK(th, wait_q, Int \union {NULL}, Ops)
    /\ obj \in Int
    /\ \A t \in Threads : Pends(t) \/ (Woken(t) /\ th[t].ret # "NULL") => th[t].data \in Sizes
    /\ HeapNobodyStranded

\* Nobody waits at first.
LEMMA HeapStart ==
    HeapInit => HeapInv
<1> SUFFICES ASSUME HeapInit PROVE HeapInv
  OBVIOUS
<1>1. WaitOK(th, wait_q, Int \union {NULL}, Ops)
  BY RunningOK DEF HeapInit
<1>2. obj \in Int
  BY HeapAssumption DEF HeapInit
<1>3. Range(wait_q) = {} /\ \A t \in Threads : th[t].st = "run"
  BY EmptyRange DEF HeapInit, WaitInit, Running
<1> QED BY <1>1, <1>2, <1>3 DEF HeapInv, HeapNobodyStranded, Waiters, Pends, Woken

\* Every operation keeps the invariant.
LEMMA HeapStep ==
    ASSUME HeapInv, HeapNext
    PROVE  HeapInv'
<1> DEFINE D == Int \union {NULL}
           Asked == \A t \in Threads : Pends(t) \/ (Woken(t) /\ th[t].ret # "NULL") => th[t].data \in Sizes
<1> USE DEF Pends, Woken, Runs, Waiters
<1>1. WaitOK(th, wait_q, D, Ops) /\ obj \in Int /\ Asked /\ HeapNobodyStranded
  BY DEF HeapInv
<1>2. /\ th \in [Threads -> ThreadType(D)] /\ wait_q \in Seq(Threads) /\ Range(wait_q) \subseteq Threads
      /\ \A t \in Threads : t \in Range(wait_q) => Pends(t)
  BY <1>1, RangeMembers DEF WaitOK, Waits
<1>3. NULL \in D /\ Sizes \subseteq D /\ \A n \in Sizes : n \in Int /\ n > 0
  BY HeapAssumption DEF Sizes
<1>4. \A t \in Threads : th[t].op \in Ops /\ th[t].data \in D
  BY <1>2 DEF ThreadType
<1>5. WaitOK(th', wait_q', D, Ops) /\ obj' \in Int /\ Asked' /\ HeapNobodyStranded' => HeapInv'
  BY DEF HeapInv
<1> HIDE DEF D
\* Fewer units are free.
<1>6. ASSUME NEW n \in Sizes, obj' = obj - n
      PROVE  obj' \in Int /\ \A t \in Range(wait_q) : th[t].data > obj'
  <2>1. \A t \in Range(wait_q) : th[t].data \in Int /\ th[t].data > obj
    BY <1>1, <1>2, <1>3 DEF HeapNobodyStranded
  <2> QED BY <1>1, <1>3, <1>6, <2>1
\* Only t, which does not wait, changes and returns.
<1>7. ASSUME NEW t \in Threads, Woken(t), th' = [th EXCEPT ![t] = Running], wait_q' = wait_q
      PROVE  WaitOK(th', wait_q', D, Ops) /\ Asked' /\ \A u \in Range(wait_q) : th'[u] = th[u]
  <2>1. ~Waits(th[t], Ops)
    BY <1>7 DEF Waits
  <2>2. OnlyChanged(t, Running) /\ WaitOK(th', wait_q', D, Ops)
    BY <1>1, <1>3, <1>7, <2>1, ReturnOK
  <2> QED BY <1>1, <1>2, <1>7, <2>2 DEF OnlyChanged, Running
<1>8. ASSUME NEW n \in Sizes, HeapAlloc(n) PROVE HeapInv'
  <2>1. obj' = obj - n /\ th' = th /\ wait_q' = wait_q
    BY <1>8 DEF HeapAlloc, Allocate
  <2>2. WaitOK(th', wait_q', D, Ops) /\ Asked'
    BY <1>1, <2>1
  <2> QED BY <1>5, <1>6, <2>1, <2>2 DEF HeapNobodyStranded
<1>9. ASSUME NEW n \in Sizes, k_heap_free(n) PROVE HeapInv'
  <2>1. obj' = obj + n /\ th' = WokenAll(Range(wait_q), "retry") /\ wait_q' = <<>>
    BY <1>9 DEF k_heap_free
  <2>2. "retry" \in Rets /\ Range(wait_q') = {} /\ obj' \in Int
    BY <1>1, <1>3, <2>1, EmptyRange DEF Rets
  <2>3. /\ \A u \in Threads : IF u \in Range(wait_q) THEN Wakes(u, "retry") ELSE th'[u] = th[u]
        /\ WaitOK(th', wait_q', D, Ops)
    BY <1>1, <2>1, <2>2, WakeAllOK
  <2>4. Asked'
    BY <1>1, <1>2, <2>3 DEF Wakes
  <2> QED BY <1>5, <2>2, <2>3, <2>4 DEF HeapNobodyStranded
<1>10. ASSUME NEW t \in Threads, RetryTake(t) PROVE HeapInv'
  <2>1. /\ Woken(t) /\ th[t].ret # "NULL" /\ obj' = obj - th[t].data
        /\ th' = [th EXCEPT ![t] = Running] /\ wait_q' = wait_q
    BY <1>10 DEF RetryTake, Allocate
  <2>2. th[t].data \in Sizes
    BY <1>1, <2>1
  <2>3. WaitOK(th', wait_q', D, Ops) /\ Asked' /\ \A u \in Range(wait_q) : th'[u] = th[u]
    BY <1>7, <2>1
  <2>4. obj' \in Int /\ \A u \in Range(wait_q) : th[u].data > obj'
    BY <1>6, <2>1, <2>2
  <2> QED BY <1>5, <2>1, <2>3, <2>4 DEF HeapNobodyStranded
<1>11. ASSUME NEW t \in Threads, RetryGiveUp(t) \/ HeapReturn(t) PROVE HeapInv'
  <2>1. /\ Woken(t) /\ obj' = obj /\ th' = [th EXCEPT ![t] = Running] /\ wait_q' = wait_q
    BY <1>11 DEF RetryGiveUp, HeapReturn
  <2>2. WaitOK(th', wait_q', D, Ops) /\ Asked' /\ \A u \in Range(wait_q) : th'[u] = th[u]
    BY <1>7, <2>1
  <2> QED BY <1>1, <1>5, <2>1, <2>2 DEF HeapNobodyStranded
<1>12. ASSUME NEW t \in Threads, RetryWait(t) PROVE HeapInv'
  <2> DEFINE r == Pended(th[t].op, th[t].data, TRUE)
  <2>1. /\ Woken(t) /\ th[t].ret = "retry" /\ th[t].data > obj /\ obj' = obj
        /\ th' = [th EXCEPT ![t] = r] /\ wait_q' = InsertByPrio(wait_q, t)
    BY <1>12 DEF RetryWait
  <2>2. /\ r \in ThreadType(D) /\ Waits(r, Ops) /\ ~Waits(th[t], Ops)
        /\ r.data = th[t].data /\ th[t].data \in Sizes
    BY <1>1, <1>4, <2>1 DEF Pended, ThreadType, States, Rets, Waits
  <2> HIDE DEF r
  <2>3. /\ WaitOK([th EXCEPT ![t] = r], InsertByPrio(wait_q, t), D, Ops)
        /\ Range(InsertByPrio(wait_q, t)) = Range(wait_q) \union {t}
    BY <1>1, <2>2, PendOK
  <2>4. WaitOK(th', wait_q', D, Ops) /\ Range(wait_q') = Range(wait_q) \union {t}
    BY <2>1, <2>3
  <2>5. OnlyChanged(t, r)
    BY <1>2, <2>1 DEF OnlyChanged
  <2>6. Asked'
    BY <1>1, <2>2, <2>5 DEF OnlyChanged
  <2> QED BY <1>1, <1>2, <1>5, <2>1, <2>2, <2>4, <2>5, <2>6 DEF HeapNobodyStranded, OnlyChanged
<1>13. ASSUME NEW t \in Threads, Timeout(t) PROVE HeapInv'
  <2>1. /\ th'[t].data = th[t].data /\ Pends(t)
        /\ \A u \in Threads \ {t} : th'[u] = th[u]
        /\ obj' = obj /\ held' = held
        /\ WaitOK(th', wait_q', D, Ops) /\ Range(wait_q') = Range(wait_q) \ {t}
    BY <1>1, <1>4, <1>13, TimeoutOK
  <2>2. Asked'
    BY <1>1, <2>1
  <2> QED BY <1>1, <1>2, <1>5, <2>1, <2>2 DEF HeapNobodyStranded
<1>14. ASSUME NEW t \in Threads, NEW n \in Sizes, NEW timeout \in {"timed", "forever"},
              HeapFail(t, n, timeout)
       PROVE  HeapInv'
  <2> DEFINE r == [Running EXCEPT !.st = "woken", !.op = timeout, !.ret = "NULL"]
  <2>1. th' = [th EXCEPT ![t] = r] /\ wait_q' = wait_q /\ obj' = obj /\ Runs(t)
    BY <1>14 DEF HeapFail
  <2>2. Running \in ThreadType(D)
    BY <1>3, RunningOK
  <2>3. /\ r \in ThreadType(D) /\ ~Waits(r, Ops) /\ ~Waits(th[t], Ops)
        /\ r.st = "woken" /\ r.ret = "NULL"
    BY <2>1, <2>2 DEF ThreadType, States, Ops, Rets, Waits
  <2> HIDE DEF r
  <2>4. WaitOK([th EXCEPT ![t] = r], wait_q, D, Ops)
    BY <1>1, <2>3, StayOK
  <2>5. WaitOK(th', wait_q', D, Ops) /\ OnlyChanged(t, r)
    BY <1>2, <2>1, <2>4 DEF OnlyChanged
  <2>6. Asked'
    BY <1>1, <2>3, <2>5 DEF OnlyChanged
  <2> QED BY <1>1, <1>2, <1>5, <2>1, <2>5, <2>6 DEF HeapNobodyStranded, OnlyChanged
<1>15. ASSUME NEW t \in Threads, NEW n \in Sizes, NEW timeout \in {"timed", "forever"},
              HeapWait(t, n, timeout)
       PROVE  HeapInv'
  <2>1. z_pend_curr(t, timeout, n, TRUE) /\ obj' = obj /\ held' = held /\ n > obj
    BY <1>15 DEF HeapWait
  <2>2. /\ OnlyChanged(t, Pended(timeout, n, TRUE)) /\ WaitOK(th', wait_q', D, Ops)
        /\ Range(wait_q') = Range(wait_q) \union {t}
    <3>1. timeout \in Ops /\ n \in D
      BY <1>3 DEF Ops
    <3> QED BY <1>1, <2>1, <3>1, PendCurrOK
  <2>3. Asked'
    BY <1>1, <2>2 DEF Pended, OnlyChanged
  <2> QED BY <1>1, <1>2, <1>5, <2>1, <2>2, <2>3 DEF HeapNobodyStranded, Pended, OnlyChanged
<1> QED BY <1>8, <1>9, <1>10, <1>11, <1>12, <1>13, <1>14, <1>15 DEF HeapNext

-----------------------------------------------------------------------------
(* Queues. *)

\* Thread t is on its way out of a call with x.
Handed(t, x) == Woken(t) /\ th[t].ret = "0" /\ th[t].data = x /\ x # NULL

\* Each item is in one place.
QueuePlaces ==
    /\ held \subseteq Items /\ Range(obj) \subseteq held
    /\ \A x \in held : x \in Range(obj) \/ \E t \in Threads : Handed(t, x)
    /\ \A t \in Threads, x \in Items : Handed(t, x) =>
          x \in held /\ x \notin Range(obj) /\ \A u \in Threads \ {t} : ~Handed(u, x)

QueueInv ==
    /\ WaitOK(th, wait_q, Items \union {NULL}, Ops)
    /\ obj \in Seq(Items) /\ IsInjective(obj)
    /\ QueuePlaces
    /\ \A t \in Threads : Pends(t) => th[t].ret = "EAGAIN"
    /\ QueueNobodyStranded

\* The properties of a queue follow.
LEMMA QueueMeans ==
    ASSUME QueueInv
    PROVE  QueueContents /\ QueueNobodyStranded
<1>1. IsInjective(obj) /\ QueuePlaces /\ QueueNobodyStranded
  BY DEF QueueInv
<1>2. \A t \in Threads : th[t].data \in Items \union {NULL}
  BY DEF QueueInv, WaitOK, ThreadType
<1>3. \A t \in Threads : \A x : x \in HandedItems(t) <=> x \in Items /\ Handed(t, x)
  BY <1>2, WaitQAssumption DEF HandedItems, Handed
<1>4. ASSUME NEW x PROVE x \in held <=> x \in Range(obj) \union UNION {HandedItems(t) : t \in Threads}
  <2>1. x \in UNION {HandedItems(t) : t \in Threads} <=> \E t \in Threads : x \in HandedItems(t)
    OBVIOUS
  <2> QED BY <1>1, <1>3, <2>1 DEF QueuePlaces
<1>5. /\ \A t, u \in Threads : t # u => HandedItems(t) \intersect HandedItems(u) = {}
      /\ \A t \in Threads : HandedItems(t) \intersect Range(obj) = {}
  BY <1>1, <1>3 DEF QueuePlaces
<1>6. held = Range(obj) \union UNION {HandedItems(t) : t \in Threads}
  BY <1>4
<1> QED BY <1>1, <1>5, <1>6 DEF QueueContents

\* A queue starts empty.
LEMMA QueueStart ==
    QueueInit => QueueInv
<1> SUFFICES ASSUME QueueInit PROVE QueueInv
  OBVIOUS
<1>1. WaitOK(th, wait_q, Items \union {NULL}, Ops)
  BY RunningOK DEF QueueInit
<1>2. obj \in Seq(Items) /\ IsInjective(obj) /\ Range(obj) = {} /\ held = {}
  BY EmptyRange DEF QueueInit
<1>3. wait_q = <<>> /\ \A t \in Threads : th[t].st = "run"
  BY DEF QueueInit, WaitInit, Running
<1> QED BY <1>1, <1>2, <1>3
        DEF QueueInv, QueuePlaces, QueueNobodyStranded, Handed, Pends, Woken

\* A list of items goes to the waiting threads and to the end of the queue.
LEMMA AppendListStep ==
    ASSUME QueueInv, NEW s \in ItemLists, k_queue_append_list(s)
    PROVE  QueueInv'
<1> DEFINE D == Items \union {NULL}
           n == Len(wait_q)
           k == Min({Len(s), Len(wait_q)})
           m == Min({Len(s) + 1, Len(wait_q)})
           first(t) == \E i \in 1..k : wait_q[i] = t
           extra(t) == \E i \in k + 1..m : wait_q[i] = t
           place(t) == CHOOSE i \in 1..k : wait_q[i] = t
           b == SubSeq(s, k + 1, Len(s))
<1> USE DEF Pends, Woken, Runs
<1>1. /\ WaitOK(th, wait_q, D, Ops) /\ obj \in Seq(Items) /\ IsInjective(obj) /\ QueuePlaces
      /\ \A t \in Threads : Pends(t) => th[t].ret = "EAGAIN"
      /\ QueueNobodyStranded
  BY DEF QueueInv
<1>2. /\ th \in [Threads -> ThreadType(D)] /\ wait_q \in Seq(Threads) /\ IsInjective(wait_q)
      /\ \A t \in Threads : t \in Range(wait_q) <=> Waits(th[t], Ops)
  BY <1>1 DEF WaitOK
<1>3. NULL \in D /\ Items \subseteq D /\ NULL \notin Items
  BY WaitQAssumption
<1>4. /\ s \in Seq(Items) /\ Len(s) = 2 /\ IsInjective(s) /\ DOMAIN s = 1..2
      /\ \A i \in 1..2 : s[i] \in Items /\ s[i] \in Range(s)
  <2>1. s \in [1..2 -> Items] /\ s[1] # s[2]
    BY DEF ItemLists
  <2>2. s \in Seq(Items) /\ Len(s) = 2
    <3>1. 2 \in Nat
      OBVIOUS
    <3> QED BY <2>1, <3>1, FunctionIsSeq
  <2>3. DOMAIN s = 1..2 /\ \A i \in 1..2 : i = 1 \/ i = 2
    BY <2>1
  <2> QED BY <2>1, <2>2, <2>3 DEF IsInjective, Range
<1>5. n \in Nat /\ DOMAIN wait_q = 1..n /\ \A i \in 1..n : wait_q[i] \in Threads
  BY <1>2, LenProperties, ElementOfSeq
<1>6. /\ k \in 0..2 /\ k \in 0..n /\ (k = 2 \/ k = n)
      /\ m \in k..n /\ (m = n \/ k = 2)
  <2>1. k = IF 2 <= n THEN 2 ELSE n
    BY <1>4, <1>5, OfTwo
  <2>2. m = IF 3 <= n THEN 3 ELSE n
    BY <1>4, <1>5, OfTwo
  <2> QED BY <1>5, <2>1, <2>2
<1>7. /\ Range(s) \intersect held = {}
      /\ th' = [t \in Threads |-> IF first(t) THEN WokenWith(t, "0", s[place(t)])
                               ELSE IF extra(t) THEN Unready(t) ELSE th[t]]
      /\ wait_q' = SubSeq(wait_q, m + 1, n) /\ obj' = obj \o b /\ held' = held \union Range(s)
  BY DEF k_queue_append_list
<1> HIDE DEF D, k, m, n, b
<1>8. \A t \in Threads : first(t) => place(t) \in 1..k /\ wait_q[place(t)] = t /\ place(t) \in 1..2
  <2> SUFFICES ASSUME NEW t \in Threads, first(t)
               PROVE  place(t) \in 1..k /\ wait_q[place(t)] = t /\ place(t) \in 1..2
    OBVIOUS
  <2>1. place(t) \in 1..k /\ wait_q[place(t)] = t
    OBVIOUS
  <2>2. 1..k \subseteq 1..2
    BY <1>6
  <2> QED BY <2>1, <2>2
<1> HIDE DEF place
<1>9. \A i \in 1..k : i \in 1..n /\ i \in 1..2 /\ first(wait_q[i]) /\ wait_q[i] \in Threads
  BY <1>5, <1>6
<1>10. \A t \in Threads : first(t) \/ extra(t) => t \in Range(wait_q) /\ Pends(t)
  <2>1. \A i \in 1..n : wait_q[i] \in Range(wait_q)
    BY <1>2, <1>5 DEF Range
  <2>2. \A t \in Threads : first(t) \/ extra(t) => t \in Range(wait_q)
    <3>1. \A i \in k + 1..m : i \in 1..n
      BY <1>5, <1>6
    <3> QED BY <1>9, <2>1, <3>1
  <2>3. \A t \in Threads : t \in Range(wait_q) => Pends(t)
    BY <1>2 DEF Waits
  <2> QED BY <2>2, <2>3
<1>11. \A t \in Threads :
         IF first(t)
         THEN /\ th'[t].st = "woken" /\ th'[t].ret = "0" /\ th'[t].data = s[place(t)]
              /\ th'[t] \in ThreadType(D)
         ELSE IF extra(t) THEN th'[t].st = "lost" /\ th'[t] \in ThreadType(D)
         ELSE th'[t] = th[t]
  <2> HIDE DEF first, extra
  <2>1. ASSUME NEW t \in Threads, first(t)
        PROVE  /\ th'[t].st = "woken" /\ th'[t].ret = "0" /\ th'[t].data = s[place(t)]
               /\ th'[t] \in ThreadType(D)
    <3>1. th'[t] = WokenWith(t, "0", s[place(t)])
      BY <1>7, <2>1
    <3>2. th[t] \in ThreadType(D) /\ s[place(t)] \in D
      BY <1>2, <1>3, <1>4, <1>8, <2>1
    <3>3. /\ th'[t].st = "woken" /\ th'[t].ret = "0" /\ th'[t].data = s[place(t)]
      BY <3>1, <3>2 DEF WokenWith, ThreadType
    <3>4. th'[t] \in ThreadType(D)
      BY <3>1, <3>2 DEF WokenWith, ThreadType, States, Rets
    <3> QED BY <3>3, <3>4
  <2>2. ASSUME NEW t \in Threads, ~first(t), extra(t)
        PROVE  th'[t].st = "lost" /\ th'[t] \in ThreadType(D)
    <3>1. th'[t] = Unready(t) /\ th[t] \in ThreadType(D)
      BY <1>2, <1>7, <2>2
    <3> QED BY <3>1 DEF Unready, ThreadType, States
  <2> QED BY <1>7, <2>1, <2>2
<1>12. /\ wait_q' \in Seq(Threads) /\ IsInjective(wait_q') /\ Len(wait_q') = n - m
       /\ \A x : x \in Range(wait_q') <=> \E j \in m + 1..n : wait_q[j] = x
  <2>1. m \in 0..n
    BY <1>5, <1>6
  <2> QED BY <1>2, <1>7, <2>1, SuffixFacts DEF n
<1>13. \A t \in Threads : t \in Range(wait_q') <=> t \in Range(wait_q) /\ ~first(t) /\ ~extra(t)
  <2>1. ASSUME NEW t \in Threads, t \in Range(wait_q')
        PROVE  t \in Range(wait_q) /\ ~first(t) /\ ~extra(t)
    <3>1. PICK j \in m + 1..n : wait_q[j] = t
      BY <1>12, <2>1
    <3>2. /\ j \in 1..n /\ \A i \in 1..k : i # j /\ i \in 1..n
          /\ \A i \in k + 1..m : i # j /\ i \in 1..n
      BY <1>5, <1>6
    <3>3. t \in Range(wait_q)
      BY <1>2, <3>1, <3>2, RangeMembers DEF n
    <3>4. ~first(t) /\ ~extra(t)
      BY <1>2, <1>5, <3>1, <3>2 DEF IsInjective
    <3> QED BY <3>3, <3>4
  <2>2. ASSUME NEW t \in Threads, t \in Range(wait_q), ~first(t), ~extra(t) PROVE t \in Range(wait_q')
    <3>1. PICK j \in 1..n : wait_q[j] = t
      BY <1>2, <2>2, RangeMembers DEF n
    <3>2. j \notin 1..k /\ j \notin k + 1..m
      BY <2>2, <3>1
    <3>3. j \in m + 1..n
      BY <1>5, <1>6, <3>2
    <3> QED BY <1>12, <3>1, <3>3
  <2> QED BY <2>1, <2>2
<1> HIDE DEF first, extra
<1>14. WaitOK(th', wait_q', D, Ops)
  <2>1. th' \in [Threads -> ThreadType(D)]
    <3>1. \A t \in Threads : th'[t] \in ThreadType(D)
      BY <1>2, <1>11
    <3> QED BY <1>7, <3>1
  <2>2. \A t \in Threads : t \in Range(wait_q') <=> Waits(th'[t], Ops)
    BY <1>2, <1>11, <1>13 DEF Waits
  <2> QED BY <1>12, <2>1, <2>2 DEF WaitOK
<1>15. /\ b \in Seq(Items) /\ IsInjective(b) /\ Len(b) = 2 - k
       /\ \A x : x \in Range(b) <=> \E j \in k + 1..2 : s[j] = x
  <2>1. k \in 0..Len(s)
    BY <1>4, <1>6
  <2>2. /\ b \in Seq(Items) /\ IsInjective(b) /\ Len(b) = Len(s) - k
        /\ \A x : x \in Range(b) <=> \E j \in k + 1..Len(s) : s[j] = x
    <3>1. s \in Seq(Items) /\ IsInjective(s)
      BY <1>4
    <3> QED BY ONLY <2>1, <3>1, SuffixFacts DEF b
  <2> QED BY <1>4, <2>2
<1>16. /\ obj' \in Seq(Items) /\ Range(obj') = Range(obj) \union Range(b) /\ IsInjective(obj')
  <2>1. Range(b) \subseteq Range(s)
    <3>1. \A j \in k + 1..2 : j \in 1..2
      BY <1>6
    <3> QED BY <1>4, <1>15, <3>1
  <2>2. Range(obj) \intersect Range(b) = {}
    BY <1>1, <1>7, <2>1 DEF QueuePlaces
  <2> QED BY <1>1, <1>7, <1>15, <2>2, ConcatFacts
<1>17. QueueNobodyStranded'
  <2> SUFFICES ASSUME wait_q' # <<>> PROVE obj' = <<>>
    BY DEF QueueNobodyStranded
  <2>1. n - m # 0
    BY <1>12, EmptySeq
  <2>2. wait_q # <<>> /\ k = 2
    <3>1. n # 0 /\ m # n
      BY <1>5, <1>6, <2>1
    <3>2. wait_q # <<>>
      BY <3>1, EmptySeq DEF n
    <3> QED BY <1>6, <3>1, <3>2
  <2>3. obj = <<>>
    BY <1>1, <2>2 DEF QueueNobodyStranded
  <2>4. Range(obj) = {} /\ Range(b) = {}
    <3>1. Range(b) = {}
      BY <1>15, <2>2
    <3> QED BY <2>3, <3>1, EmptyRange
  <2> QED BY <1>16, <2>4, NoRange
\* Who has an item afterwards.
<1>18. \A t \in Threads, x \in Items :
         Handed(t, x)' <=> IF first(t) THEN x = s[place(t)] ELSE Handed(t, x)
  BY <1>3, <1>10, <1>11 DEF Handed
<1>19. \A t \in Threads : \A x : Handed(t, x) => ~first(t) /\ ~extra(t)
  BY <1>10 DEF Handed
<1>20. \A t, u \in Threads : first(t) /\ first(u) /\ t # u => s[place(t)] # s[place(u)]
  <2>1. \A t, u \in Threads : first(t) /\ first(u) /\ t # u => place(t) # place(u)
    BY <1>8
  <2> QED BY <1>4, <1>8, <2>1 DEF IsInjective
<1>21. \A t \in Threads : first(t) => s[place(t)] \in Range(s) /\ s[place(t)] \notin Range(b)
  <2> SUFFICES ASSUME NEW t \in Threads, first(t), s[place(t)] \in Range(b) PROVE FALSE
    BY <1>4, <1>8
  <2>1. PICK j \in k + 1..2 : s[j] = s[place(t)]
    BY <1>15
  <2>2. j \in 1..2 /\ place(t) \in 1..2
    BY <1>6, <1>8
  <2>3. j = place(t)
    BY <1>4, <2>1, <2>2 DEF IsInjective
  <2>4. place(t) \in 1..k
    BY <1>8
  <2> QED BY <1>6, <2>3, <2>4
<1>22. \A x \in Range(s) : x \in Range(b) \/ \E t \in Threads : first(t) /\ x = s[place(t)]
  <2> SUFFICES ASSUME NEW x \in Range(s), x \notin Range(b)
               PROVE  \E t \in Threads : first(t) /\ x = s[place(t)]
    OBVIOUS
  <2>1. PICK j \in 1..2 : s[j] = x
    BY <1>4, RangeMembers
  <2>2. j \notin k + 1..2
    BY <1>15, <2>1
  <2>3. j \in 1..k
    BY <1>6, <2>2
  <2> DEFINE t == wait_q[j]
  <2>4. t \in Threads /\ first(t)
    BY <1>9, <2>3 DEF first
  <2>5. place(t) \in 1..n /\ wait_q[place(t)] = wait_q[j] /\ j \in 1..n
    <3>1. place(t) \in 1..k /\ wait_q[place(t)] = wait_q[j]
      BY <1>8, <2>4
    <3> QED BY <1>9, <2>3, <3>1
  <2>6. place(t) = j
    BY <1>2, <1>5, <2>5 DEF IsInjective
  <2> QED BY <2>1, <2>4, <2>6
<1>23. QueuePlaces'
  <2>1. held' \subseteq Items /\ Range(obj') \subseteq held'
    <3>1. Range(s) \subseteq Items /\ Range(b) \subseteq Range(s)
      <4>1. \A j \in k + 1..2 : j \in 1..2
        BY <1>6
      <4> QED BY <1>4, <1>15, <4>1, RangeMembers
    <3> QED BY <1>1, <1>7, <1>16, <3>1 DEF QueuePlaces
  <2>2. ASSUME NEW x \in held' PROVE x \in Range(obj') \/ \E t \in Threads : Handed(t, x)'
    <3>1. x \in Items
      BY <2>1
    <3>2. CASE x \in held
      BY <1>1, <1>16, <1>18, <1>19, <3>1, <3>2 DEF QueuePlaces
    <3>3. CASE x \in Range(s)
      BY <1>16, <1>18, <1>22, <3>1, <3>3
    <3> QED BY <1>7, <3>2, <3>3
  <2>3. ASSUME NEW t \in Threads, NEW x \in Items, Handed(t, x)'
        PROVE  x \in held' /\ x \notin Range(obj') /\ \A u \in Threads \ {t} : ~Handed(u, x)'
    <3>1. CASE first(t)
      <4>1. x = s[place(t)] /\ x \in Range(s) /\ x \notin Range(b) /\ x \notin held
        BY <1>7, <1>18, <1>21, <2>3, <3>1
      <4>2. \A u \in Threads : ~Handed(u, x)
        BY <1>1, <4>1 DEF QueuePlaces
      <4> QED BY <1>1, <1>7, <1>16, <1>18, <1>20, <3>1, <4>1, <4>2 DEF QueuePlaces
    <3>2. CASE ~first(t)
      <4>1. Handed(t, x)
        BY <1>18, <2>3, <3>2
      <4>2. x \in held /\ x \notin Range(obj) /\ \A u \in Threads \ {t} : ~Handed(u, x)
        BY <1>1, <4>1 DEF QueuePlaces
      <4>3. x \notin Range(s) /\ x \notin Range(b)
        <5>1. Range(b) \subseteq Range(s)
          <6>1. \A j \in k + 1..2 : j \in 1..2
            BY <1>6
          <6> QED BY <1>4, <1>15, <6>1
        <5> QED BY <1>7, <4>2, <5>1
      <4> QED BY <1>7, <1>16, <1>18, <1>21, <4>2, <4>3
    <3> QED BY <3>1, <3>2
  <2> QED BY <2>1, <2>2, <2>3 DEF QueuePlaces
<1>24. \A t \in Threads : Pends(t)' => th'[t].ret = "EAGAIN"
  BY <1>1, <1>11
<1> QED BY <1>14, <1>16, <1>17, <1>23, <1>24 DEF QueueInv, D

\* Every operation keeps the invariant.
LEMMA QueueStep ==
    ASSUME QueueInv, QueueNext
    PROVE  QueueInv'
<1> DEFINE D == Items \union {NULL}
           Waiting == \A t \in Threads : Pends(t) => th[t].ret = "EAGAIN"
<1> USE DEF Pends, Woken, Runs
<1>1. /\ WaitOK(th, wait_q, D, Ops) /\ obj \in Seq(Items) /\ IsInjective(obj) /\ QueuePlaces
      /\ Waiting /\ QueueNobodyStranded
  BY DEF QueueInv
<1>2. /\ th \in [Threads -> ThreadType(D)] /\ wait_q \in Seq(Threads)
      /\ \A t \in Threads : t \in Range(wait_q) => Pends(t)
  BY <1>1 DEF WaitOK, Waits
<1>3. NULL \in D /\ Items \subseteq D /\ NULL \notin Items /\ "0" \in Rets
  BY WaitQAssumption DEF Rets
<1>4. \A t \in Threads : th[t].op \in Ops /\ th[t].data \in D
  BY <1>2 DEF ThreadType
<1>5. WaitOK(th', wait_q', D, Ops) /\ obj' \in Seq(Items) /\ IsInjective(obj') /\ QueuePlaces'
      /\ Waiting' /\ QueueNobodyStranded' => QueueInv'
  BY DEF QueueInv
<1> HIDE DEF D
<1>6. CASE GetHead
  <2>1. obj # <<>> /\ obj' = Tail(obj) /\ held' = held \ {Head(obj)} /\ th' = th /\ wait_q' = wait_q
    BY <1>6 DEF GetHead
  <2>2. /\ Head(obj) \in Range(obj) /\ obj' \in Seq(Items) /\ Range(obj') = Range(obj) \ {Head(obj)}
        /\ IsInjective(obj')
    BY <1>1, <2>1, TailRange
  <2>3. WaitOK(th', wait_q', D, Ops) /\ Waiting' /\ QueueNobodyStranded'
    BY <1>1, <2>1 DEF QueueNobodyStranded
  <2>4. QueuePlaces'
    BY <1>1, <2>1, <2>2 DEF QueuePlaces, Handed
  <2> QED BY <1>5, <2>2, <2>3, <2>4
<1>7. ASSUME NEW x, x \in D, NEW f, f = (IF x = NULL THEN held ELSE held \union {x}), x \notin held,
             WakesFirst("0", x), obj' = obj, held' = f
      PROVE  QueueInv'
  <2>1. PICK w \in Threads :
           /\ w \in Range(wait_q)
           /\ OnlyChanged(w, th'[w]) /\ th'[w].st = "woken" /\ th'[w].data = x /\ th'[w].ret = "0"
           /\ WaitOK(th', wait_q', D, Ops)
    BY <1>1, <1>3, <1>7, HandOK
  <2>2. wait_q # <<>>
    BY <1>7 DEF WakesFirst
  <2>3. Waiting' /\ QueueNobodyStranded'
    BY <1>1, <1>7, <2>1, <2>2 DEF QueueNobodyStranded, OnlyChanged
  <2>4. \A u \in Threads, y \in Items : Handed(u, y)' <=> IF u = w THEN y = x ELSE Handed(u, y)
    BY <1>3, <2>1 DEF Handed, OnlyChanged
  <2>5. \A y : ~Handed(w, y)
    BY <1>2, <2>1 DEF Handed
  <2>6. x # NULL => x \in Items
    BY <1>7 DEF D
  <2>7. NULL \notin held
    BY <1>1, <1>3 DEF QueuePlaces
  <2>8. held' \subseteq Items /\ Range(obj') \subseteq held'
    BY <1>1, <1>7, <2>6 DEF QueuePlaces
  <2>9. ASSUME NEW y \in held' PROVE y \in Range(obj') \/ \E t \in Threads : Handed(t, y)'
    <3>1. y \in Items
      BY <2>8
    <3>2. CASE y \in held
      BY <1>1, <1>7, <2>4, <2>5, <3>1, <3>2 DEF QueuePlaces
    <3>3. CASE y \notin held
      BY <1>7, <2>4, <3>1, <3>3
    <3> QED BY <3>2, <3>3
  <2>10. ASSUME NEW t \in Threads, NEW y \in Items, Handed(t, y)'
         PROVE  y \in held' /\ y \notin Range(obj') /\ \A u \in Threads \ {t} : ~Handed(u, y)'
    <3>1. CASE t = w
      <4>1. y = x
        BY <2>4, <2>10, <3>1
      <4> QED BY <1>1, <1>3, <1>7, <2>4, <3>1, <4>1 DEF QueuePlaces
    <3>2. CASE t # w
      <4>1. Handed(t, y)
        BY <2>4, <2>10, <3>2
      <4>2. y \in held /\ y \notin Range(obj) /\ \A u \in Threads \ {t} : ~Handed(u, y)
        BY <1>1, <4>1 DEF QueuePlaces
      <4> QED BY <1>7, <2>4, <4>2
    <3> QED BY <3>1, <3>2
  <2>11. QueuePlaces'
    BY <2>8, <2>9, <2>10 DEF QueuePlaces
  <2> QED BY <1>1, <1>5, <1>7, <2>1, <2>3, <2>11
<1>8. CASE k_queue_cancel_wait
  <2>1. WakesFirst("0", NULL) /\ obj' = obj /\ held' = held
    BY <1>8 DEF k_queue_cancel_wait, WakesFirst
  <2>2. NULL \notin held
    BY <1>1, <1>3 DEF QueuePlaces
  <2> QED BY <1>3, <1>7, <2>1, <2>2
<1>9. ASSUME NEW x \in Items, InsertHand(x) PROVE QueueInv'
  <2>1. WakesFirst("0", x) /\ obj' = obj /\ held' = held \union {x} /\ x \notin held
    BY <1>9 DEF InsertHand, WakesFirst
  <2>2. x \in D /\ x # NULL
    BY <1>3
  <2> QED BY <1>7, <2>1, <2>2
<1>10. ASSUME NEW x \in Items, k_queue_remove(x) PROVE QueueInv'
  <2>1. x \in Range(obj) /\ obj' = Without(obj, x) /\ held' = held \ {x} /\ th' = th /\ wait_q' = wait_q
    BY <1>10 DEF k_queue_remove
  <2>2. obj' \in Seq(Items) /\ Range(obj') = Range(obj) \ {x} /\ IsInjective(obj')
    BY <1>1, <2>1, WithoutFacts
  <2>3. WaitOK(th', wait_q', D, Ops) /\ Waiting'
    BY <1>1, <2>1
  <2>4. QueuePlaces'
    BY <1>1, <2>1, <2>2 DEF QueuePlaces, Handed
  <2>5. Range(obj) # {}
    BY <2>1
  <2>6. obj # <<>>
    BY <2>5, EmptyRange
  <2>7. QueueNobodyStranded'
    BY <1>1, <2>1, <2>6 DEF QueueNobodyStranded
  <2> QED BY <1>5, <2>2, <2>3, <2>4, <2>7
<1>11. ASSUME NEW x \in Items, NEW i \in 0..Cardinality(Items), InsertAfter(i, x) PROVE QueueInv'
  <2>1. /\ x \notin held /\ i <= Len(obj) /\ obj' = InsertAt(obj, i + 1, x) /\ held' = held \union {x}
        /\ th' = th /\ wait_q' = wait_q /\ wait_q = <<>>
    BY <1>11 DEF InsertAfter
  <2>2. i + 1 \in 1..(Len(obj) + 1)
    <3>1. Cardinality(Items) \in Nat /\ Len(obj) \in Nat
      BY <1>1, WaitQAssumption, FS_CardinalityType, LenProperties
    <3> QED BY <2>1, <3>1
  <2>3. x \notin Range(obj)
    BY <1>1, <2>1 DEF QueuePlaces
  <2> DEFINE j == i + 1
  <2> HIDE DEF j
  <2>4. /\ InsertAt(obj, j, x) \in Seq(Items) /\ Range(InsertAt(obj, j, x)) = Range(obj) \union {x}
        /\ IsInjective(InsertAt(obj, j, x))
    BY <1>1, <2>2, <2>3, InsertAtElements, InsertAtRange DEF j
  <2>5. obj' \in Seq(Items) /\ Range(obj') = Range(obj) \union {x} /\ IsInjective(obj')
    BY <2>1, <2>4 DEF j
  <2>6. WaitOK(th', wait_q', D, Ops) /\ Waiting' /\ QueueNobodyStranded'
    BY <1>1, <2>1 DEF QueueNobodyStranded
  <2>7. QueuePlaces'
    BY <1>1, <2>1, <2>5 DEF QueuePlaces, Handed
  <2> QED BY <1>5, <2>5, <2>6, <2>7
<1>12. ASSUME NEW t \in Threads, GetReturn(t) PROVE QueueInv'
  <2>1. /\ th' = [th EXCEPT ![t] = Running] /\ wait_q' = wait_q /\ obj' = obj /\ Woken(t)
        /\ held' = IF th[t].ret = "0" THEN held \ {th[t].data} ELSE held
    BY <1>12 DEF GetReturn
  <2>2. ~Waits(th[t], Ops)
    BY <2>1 DEF Waits
  <2>3. OnlyChanged(t, Running) /\ WaitOK(th', wait_q', D, Ops)
    BY <1>1, <1>3, <2>1, <2>2, ReturnOK
  <2>4. \A u \in Threads : \A y : Handed(u, y)' <=> u # t /\ Handed(u, y)
    BY <2>3 DEF Handed, OnlyChanged, Running
  <2>5. \A y \in Items : y \in held' <=> y \in held /\ ~Handed(t, y)
    BY <1>3, <2>1 DEF Handed
  <2>6. held' \subseteq held
    BY <2>1
  <2>7. QueuePlaces'
    BY <1>1, <2>1, <2>4, <2>5, <2>6 DEF QueuePlaces
  <2>8. Waiting' /\ QueueNobodyStranded'
    BY <1>1, <2>1, <2>3 DEF QueueNobodyStranded, OnlyChanged, Running
  <2> QED BY <1>1, <1>5, <2>1, <2>3, <2>7, <2>8
<1>13. ASSUME NEW t \in Threads, Timeout(t) PROVE QueueInv'
  <2>1. /\ th'[t].st = "woken" /\ th'[t].ret = th[t].ret
        /\ \A u \in Threads \ {t} : th'[u] = th[u]
        /\ obj' = obj /\ held' = held /\ Pends(t) /\ t \in Range(wait_q)
        /\ WaitOK(th', wait_q', D, Ops)
    BY <1>1, <1>4, <1>13, TimeoutOK
  <2>2. wait_q # <<>>
    BY <1>2, <2>1, NoRange
  <2>3. \A u \in Threads : \A y : Handed(u, y)' <=> Handed(u, y)
    BY <1>1, <2>1 DEF Handed
  <2>4. QueuePlaces'
    BY <1>1, <2>1, <2>3 DEF QueuePlaces
  <2>5. Waiting' /\ QueueNobodyStranded'
    BY <1>1, <2>1, <2>2 DEF QueueNobodyStranded
  <2> QED BY <1>1, <1>5, <2>1, <2>4, <2>5
<1>14. ASSUME NEW t \in Threads, NEW timed \in BOOLEAN, GetWait(t, timed) PROVE QueueInv'
  <2>1. z_pend_curr(t, "get", NULL, timed) /\ obj' = obj /\ held' = held /\ obj = <<>>
    BY <1>14 DEF GetWait
  <2>2. Runs(t) /\ OnlyChanged(t, Pended("get", NULL, timed)) /\ WaitOK(th', wait_q', D, Ops)
    <3>1. "get" \in Ops
      BY DEF Ops
    <3> QED BY <1>1, <1>3, <2>1, <3>1, PendCurrOK
  <2>3. \A u \in Threads : \A y : Handed(u, y)' <=> Handed(u, y)
    BY <2>2 DEF Handed, OnlyChanged, Pended
  <2>4. QueuePlaces'
    BY <1>1, <2>1, <2>3 DEF QueuePlaces
  <2>5. Waiting' /\ QueueNobodyStranded'
    BY <1>1, <2>1, <2>2 DEF QueueNobodyStranded, OnlyChanged, Pended
  <2> QED BY <1>1, <1>5, <2>1, <2>2, <2>4, <2>5
<1>15. ASSUME NEW s \in ItemLists, k_queue_append_list(s) PROVE QueueInv'
  BY <1>15, AppendListStep
<1> QED BY <1>6, <1>8, <1>9, <1>10, <1>11, <1>12, <1>13, <1>14, <1>15 DEF QueueNext

-----------------------------------------------------------------------------
(* Memory slabs. *)

\* Each block is in one place.
SlabPlaces ==
    /\ held \subseteq Items /\ Range(obj.free_list) \intersect held = {}
    /\ \A x \in Items : x \in Range(obj.free_list) \/ x \in held \/ \E t \in Threads : Handed(t, x)
    /\ \A t \in Threads, x \in Items : Handed(t, x) =>
          x \notin held /\ x \notin Range(obj.free_list) /\ \A u \in Threads \ {t} : ~Handed(u, x)

\* A thread has a block when it was handed one and only then.
SlabCalls ==
    \A t \in Threads : /\ (th[t].data # NULL) = (Woken(t) /\ th[t].ret = "0")
                       /\ Pends(t) => th[t].ret = "EAGAIN"

SlabInv ==
    /\ WaitOK(th, wait_q, Items \union {NULL}, Ops)
    /\ obj \in [free_list : Seq(Items), num_used : Int] /\ IsInjective(obj.free_list)
    /\ obj.num_used + Len(obj.free_list) = Cardinality(Items)
    /\ SlabPlaces /\ SlabCalls /\ SlabNobodyStranded

\* The properties of a memory slab follow.
LEMMA SlabMeans ==
    ASSUME SlabInv
    PROVE  SlabContents /\ SlabNobodyStranded
<1> DEFINE F == Range(obj.free_list)
<1>1. /\ obj.free_list \in Seq(Items) /\ IsInjective(obj.free_list) /\ obj.num_used \in Int
      /\ obj.num_used + Len(obj.free_list) = Cardinality(Items)
      /\ SlabPlaces /\ SlabCalls /\ SlabNobodyStranded
  BY DEF SlabInv
<1>2. \A t \in Threads : th[t].data \in Items \union {NULL}
  BY DEF SlabInv, WaitOK, ThreadType
<1>3. \A x : x \in HandedBlocks <=> x \in Items /\ \E t \in Threads : Handed(t, x)
  BY <1>1, <1>2, WaitQAssumption DEF HandedBlocks, Handed, SlabCalls
<1>4. F \subseteq Items /\ IsFiniteSet(F) /\ Cardinality(F) = Len(obj.free_list) /\ Len(obj.free_list) \in Nat
  BY <1>1, RangeMembers, RangeCount, LenProperties
<1> HIDE DEF F
<1>5. HandedBlocks \union held = Items \ F /\ F \union HandedBlocks \union held = Items
  BY <1>1, <1>3, <1>4 DEF SlabPlaces, F
<1>6. Cardinality(Items \ F) = Cardinality(Items) - Cardinality(F)
  <2>1. IsFiniteSet(Items)
    BY WaitQAssumption
  <2>2. Cardinality(Items \ F) = Cardinality(Items) - Cardinality(Items \intersect F)
    BY <2>1, FS_Difference
  <2>3. Items \intersect F = F
    BY <1>4
  <2> QED BY <2>2, <2>3
<1>7. obj.num_used = Cardinality(HandedBlocks \union held)
  <2>1. Cardinality(Items) \in Nat
    BY WaitQAssumption, FS_CardinalityType
  <2>2. Cardinality(HandedBlocks \union held) = Cardinality(Items) - Len(obj.free_list)
    BY <1>4, <1>5, <1>6
  <2> QED BY <1>1, <1>4, <2>1, <2>2
<1>8. \A t \in Threads : Woken(t) /\ th[t].ret = "0" => \A u \in Threads \ {t} : th[u].data # th[t].data
  <2> SUFFICES ASSUME NEW t \in Threads, Woken(t), th[t].ret = "0", NEW u \in Threads \ {t}
               PROVE  th[u].data # th[t].data
    OBVIOUS
  <2>1. Handed(t, th[t].data) /\ th[t].data \in Items
    BY <1>1, <1>2 DEF SlabCalls, Handed
  <2>2. ~Handed(u, th[t].data)
    BY <1>1, <2>1 DEF SlabPlaces
  <2> QED BY <1>1, <2>1, <2>2 DEF SlabCalls, Handed
<1> QED BY <1>1, <1>5, <1>7, <1>8 DEF SlabContents, F

\* At first all blocks are in the free list.
LEMMA SlabStart ==
    SlabInit => SlabInv
<1> SUFFICES ASSUME SlabInit PROVE SlabInv
  OBVIOUS
<1>1. WaitOK(th, wait_q, Items \union {NULL}, Ops)
  BY RunningOK DEF SlabInit
<1>2. PICK s \in SetToSeqs(Items) : obj = [free_list |-> s, num_used |-> 0]
  BY DEF SlabInit
<1>3. IsFiniteSet(Items) /\ Cardinality(Items) \in Nat
  BY WaitQAssumption, FS_CardinalityType
<1>4. s \in [1..Cardinality(Items) -> Items] /\ IsInjective(s)
  BY DEF SetToSeqs, IsInjective
<1>5. s \in Seq(Items) /\ Len(s) = Cardinality(Items)
  BY <1>3, <1>4, FunctionIsSeq
<1>6. Range(s) = Items
  <2>1. Range(s) \in SUBSET Items /\ Cardinality(Range(s)) = Cardinality(Items)
    BY <1>4, <1>5, RangeCount, RangeMembers
  <2> QED BY <1>3, <2>1, FS_Subset
<1>7. /\ wait_q = <<>> /\ held = {}
      /\ \A t \in Threads : th[t].st = "run" /\ th[t].data = NULL
  BY DEF SlabInit, WaitInit, Running
<1>8. /\ obj \in [free_list : Seq(Items), num_used : Int] /\ obj.free_list = s
      /\ obj.num_used + Len(s) = Cardinality(Items)
  BY <1>2, <1>3, <1>5
<1>9. SlabPlaces /\ SlabCalls /\ SlabNobodyStranded
  BY <1>6, <1>7, <1>8 DEF SlabPlaces, SlabCalls, SlabNobodyStranded, Handed, Pends, Woken
<1> QED BY <1>1, <1>4, <1>8, <1>9 DEF SlabInv

\* Every operation keeps the invariant.
LEMMA SlabStep ==
    ASSUME SlabInv, SlabNext
    PROVE  SlabInv'
<1> DEFINE D == Items \union {NULL}
           ListOK == /\ obj \in [free_list : Seq(Items), num_used : Int] /\ IsInjective(obj.free_list)
                     /\ obj.num_used + Len(obj.free_list) = Cardinality(Items)
           fl == obj.free_list
<1> USE DEF Pends, Woken, Runs
<1>1. WaitOK(th, wait_q, D, Ops) /\ ListOK /\ SlabPlaces /\ SlabCalls /\ SlabNobodyStranded
  BY DEF SlabInv
<1>2. /\ th \in [Threads -> ThreadType(D)] /\ wait_q \in Seq(Threads)
      /\ \A t \in Threads : t \in Range(wait_q) => Pends(t)
  BY <1>1 DEF WaitOK, Waits
<1>3. NULL \in D /\ Items \subseteq D /\ NULL \notin Items /\ "0" \in Rets
  BY WaitQAssumption DEF Rets
<1>4. \A t \in Threads : th[t].op \in Ops /\ th[t].data \in D
  BY <1>2 DEF ThreadType
<1>5. WaitOK(th', wait_q', D, Ops) /\ ListOK' /\ SlabPlaces' /\ SlabCalls' /\ SlabNobodyStranded' => SlabInv'
  BY DEF SlabInv
<1>6. /\ fl \in Seq(Items) /\ IsInjective(fl) /\ Len(fl) \in Nat /\ obj.num_used \in Int
      /\ obj.num_used + Len(fl) = Cardinality(Items)
  BY <1>1, LenProperties
<1> HIDE DEF D
<1>7. CASE AllocBlock
  <2>1. /\ fl # <<>> /\ obj' = [free_list |-> Tail(fl), num_used |-> obj.num_used + 1]
        /\ held' = held \union {Head(fl)} /\ th' = th /\ wait_q' = wait_q
    BY <1>7 DEF AllocBlock
  <2>2. /\ Head(fl) \in Range(fl) /\ Head(fl) \in Items /\ Tail(fl) \in Seq(Items)
        /\ Range(Tail(fl)) = Range(fl) \ {Head(fl)} /\ IsInjective(Tail(fl)) /\ Len(Tail(fl)) = Len(fl) - 1
    BY <1>6, <2>1, TailRange, HeadTailProperties
  <2>3. obj'.free_list = Tail(fl) /\ obj'.num_used = obj.num_used + 1
    BY <2>1
  <2>4. ListOK'
    <3>1. obj' \in [free_list : Seq(Items), num_used : Int]
      BY <1>6, <2>1, <2>2
    <3>2. obj'.num_used + Len(obj'.free_list) = Cardinality(Items)
      BY <1>6, <2>2, <2>3
    <3> QED BY <2>2, <2>3, <3>1, <3>2
  <2>5. SlabPlaces'
    BY <1>1, <2>1, <2>2, <2>3 DEF SlabPlaces, Handed
  <2>6. WaitOK(th', wait_q', D, Ops) /\ SlabCalls' /\ SlabNobodyStranded'
    BY <1>1, <2>1 DEF SlabCalls, SlabNobodyStranded
  <2> QED BY <1>5, <2>4, <2>5, <2>6
<1>8. ASSUME NEW b \in Items, FreeBlock(b) PROVE SlabInv'
  <2> DEFINE one == <<b>>
             nl == one \o fl
  <2>1. /\ b \in held /\ (fl # <<>> \/ wait_q = <<>>)
        /\ obj' = [free_list |-> nl, num_used |-> obj.num_used - 1]
        /\ held' = held \ {b} /\ th' = th /\ wait_q' = wait_q
    BY <1>8 DEF FreeBlock
  <2>2. b \notin Range(fl)
    BY <1>1, <2>1 DEF SlabPlaces
  <2>3. one \in Seq(Items) /\ Len(one) = 1 /\ Range(one) = {b} /\ IsInjective(one)
    BY DEF Range, IsInjective
  <2> HIDE DEF one
  <2>4. /\ nl \in Seq(Items) /\ Len(nl) = 1 + Len(fl) /\ Range(nl) = {b} \union Range(fl)
        /\ IsInjective(nl)
    <3>1. Range(one) \intersect Range(fl) = {}
      BY <2>2, <2>3
    <3>2. /\ nl \in Seq(Items) /\ Len(nl) = Len(one) + Len(fl) /\ Range(nl) = Range(one) \union Range(fl)
          /\ IsInjective(nl)
      <4> HIDE DEF fl
      <4>1. fl \in Seq(Items) /\ IsInjective(fl) /\ one \in Seq(Items) /\ IsInjective(one)
        BY <1>6, <2>3
      <4>2. /\ one \o fl \in Seq(Items) /\ Len(one \o fl) = Len(one) + Len(fl)
            /\ Range(one \o fl) = Range(one) \union Range(fl) /\ IsInjective(one \o fl)
        BY <3>1, <4>1, ConcatFacts
      <4> QED BY <4>2
    <3> QED BY <2>3, <3>2
  <2> HIDE DEF nl
  <2>5. obj'.free_list = nl /\ obj'.num_used = obj.num_used - 1
    BY <2>1
  <2>6. ListOK'
    <3>1. obj' \in [free_list : Seq(Items), num_used : Int]
      BY <1>6, <2>1, <2>4
    <3>2. obj'.num_used + Len(obj'.free_list) = Cardinality(Items)
      BY <1>6, <2>4, <2>5
    <3> QED BY <2>4, <2>5, <3>1, <3>2
  <2>7. SlabPlaces'
    BY <1>1, <2>1, <2>4, <2>5 DEF SlabPlaces, Handed
  <2>8. WaitOK(th', wait_q', D, Ops) /\ SlabCalls'
    BY <1>1, <2>1 DEF SlabCalls
  <2>9. SlabNobodyStranded'
    BY <1>1, <2>1 DEF SlabNobodyStranded
  <2> QED BY <1>5, <2>6, <2>7, <2>8, <2>9
<1>9. ASSUME NEW b \in Items, FreeHand(b) PROVE SlabInv'
  <2>1. WakesFirst("0", b) /\ obj' = obj /\ held' = held \ {b} /\ b \in held /\ fl = <<>>
    BY <1>9 DEF FreeHand, WakesFirst
  <2>2. PICK w \in Threads :
           /\ w \in Range(wait_q)
           /\ OnlyChanged(w, th'[w]) /\ th'[w].st = "woken" /\ th'[w].data = b /\ th'[w].ret = "0"
           /\ WaitOK(th', wait_q', D, Ops)
    BY <1>1, <1>3, <2>1, HandOK
  <2>3. \A u \in Threads, y \in Items : Handed(u, y)' <=> IF u = w THEN y = b ELSE Handed(u, y)
    BY <1>3, <2>2 DEF Handed, OnlyChanged
  <2>4. \A y : ~Handed(w, y)
    BY <1>2, <2>2 DEF Handed
  <2>5. \A u \in Threads : ~Handed(u, b)
    BY <1>1, <2>1 DEF SlabPlaces
  <2>6. SlabPlaces'
    <3>1. ASSUME NEW x \in Items
          PROVE  x \in Range(fl) \/ x \in held' \/ \E t \in Threads : Handed(t, x)'
      <4>1. CASE x = b
        BY <2>3, <4>1
      <4>2. CASE x # b
        BY <1>1, <2>1, <2>3, <2>4, <4>2 DEF SlabPlaces
      <4> QED BY <4>1, <4>2
    <3>2. ASSUME NEW t \in Threads, NEW x \in Items, Handed(t, x)'
          PROVE  x \notin held' /\ x \notin Range(fl) /\ \A u \in Threads \ {t} : ~Handed(u, x)'
      <4>1. CASE t = w
        BY <1>1, <2>1, <2>3, <2>5, <3>2, <4>1 DEF SlabPlaces
      <4>2. CASE t # w
        BY <1>1, <2>1, <2>3, <2>5, <3>2, <4>2 DEF SlabPlaces
      <4> QED BY <4>1, <4>2
    <3> QED BY <1>1, <2>1, <3>1, <3>2 DEF SlabPlaces
  <2>7. SlabCalls'
    BY <1>1, <1>3, <2>2 DEF SlabCalls, OnlyChanged
  <2>8. ListOK' /\ SlabNobodyStranded'
    BY <1>1, <2>1 DEF SlabNobodyStranded
  <2> QED BY <1>5, <2>2, <2>6, <2>7, <2>8
<1>10. ASSUME NEW t \in Threads, AllocReturn(t) PROVE SlabInv'
  <2>1. /\ th' = [th EXCEPT ![t] = Running] /\ wait_q' = wait_q /\ obj' = obj /\ Woken(t)
        /\ held' = IF th[t].ret = "0" THEN held \union {th[t].data} ELSE held
    BY <1>10 DEF AllocReturn
  <2>2. ~Waits(th[t], Ops)
    BY <2>1 DEF Waits
  <2>3. OnlyChanged(t, Running) /\ WaitOK(th', wait_q', D, Ops)
    BY <1>1, <1>3, <2>1, <2>2, ReturnOK
  <2>4. \A u \in Threads : \A y : Handed(u, y)' <=> u # t /\ Handed(u, y)
    BY <2>3 DEF Handed, OnlyChanged, Running
  <2>5. \A y \in Items : y \in held' <=> y \in held \/ Handed(t, y)
    BY <1>3, <2>1 DEF Handed
  <2>6. held' \subseteq Items
    BY <1>1, <1>4, <2>1 DEF SlabPlaces, SlabCalls, D
  <2>7. SlabPlaces'
    BY <1>1, <2>1, <2>4, <2>5, <2>6 DEF SlabPlaces
  <2>8. SlabCalls'
    BY <1>1, <2>3 DEF SlabCalls, OnlyChanged, Running
  <2>9. ListOK' /\ SlabNobodyStranded'
    BY <1>1, <2>1 DEF SlabNobodyStranded
  <2> QED BY <1>5, <2>3, <2>7, <2>8, <2>9
<1>11. ASSUME NEW t \in Threads, Timeout(t) PROVE SlabInv'
  <2>1. /\ th'[t].st = "woken" /\ th'[t].ret = th[t].ret /\ th'[t].data = th[t].data
        /\ \A u \in Threads \ {t} : th'[u] = th[u]
        /\ obj' = obj /\ held' = held /\ Pends(t) /\ t \in Range(wait_q)
        /\ WaitOK(th', wait_q', D, Ops)
    BY <1>1, <1>4, <1>11, TimeoutOK
  <2>2. wait_q # <<>>
    BY <1>2, <2>1, NoRange
  <2>3. \A u \in Threads : \A y : Handed(u, y)' <=> Handed(u, y)
    BY <1>1, <2>1 DEF Handed, SlabCalls
  <2>4. SlabPlaces'
    BY <1>1, <2>1, <2>3 DEF SlabPlaces
  <2>5. SlabCalls'
    BY <1>1, <2>1 DEF SlabCalls
  <2>6. ListOK' /\ SlabNobodyStranded'
    BY <1>1, <2>1, <2>2 DEF SlabNobodyStranded
  <2> QED BY <1>5, <2>1, <2>4, <2>5, <2>6
<1>12. ASSUME NEW t \in Threads, NEW timed \in BOOLEAN, AllocWait(t, timed) PROVE SlabInv'
  <2>1. z_pend_curr(t, "alloc", NULL, timed) /\ obj' = obj /\ held' = held /\ fl = <<>>
    BY <1>12 DEF AllocWait
  <2>2. Runs(t) /\ OnlyChanged(t, Pended("alloc", NULL, timed)) /\ WaitOK(th', wait_q', D, Ops)
    <3>1. "alloc" \in Ops
      BY DEF Ops
    <3> QED BY <1>1, <1>3, <2>1, <3>1, PendCurrOK
  <2>3. \A u \in Threads : \A y : Handed(u, y)' <=> Handed(u, y)
    BY <2>2 DEF Handed, OnlyChanged, Pended
  <2>4. SlabPlaces'
    BY <1>1, <2>1, <2>3 DEF SlabPlaces
  <2>5. SlabCalls'
    BY <1>1, <2>2 DEF SlabCalls, OnlyChanged, Pended
  <2>6. ListOK' /\ SlabNobodyStranded'
    BY <1>1, <2>1 DEF SlabNobodyStranded
  <2> QED BY <1>5, <2>2, <2>4, <2>5, <2>6
<1> QED BY <1>7, <1>8, <1>9, <1>10, <1>11, <1>12 DEF SlabNext

-----------------------------------------------------------------------------
(* Events. *)

\* The walk of Unpended over the first n places of q.
IsWalk(q, S, n, g) ==
    g = [i \in 0..n |-> IF i = 0 THEN <<>>
                        ELSE IF q[i] \in S THEN g[i - 1] ELSE Append(g[i - 1], q[i])]

\* There is such a walk over any number of places.
LEMMA WalkExists ==
    ASSUME NEW q, NEW S
    PROVE  \A n \in Nat : \E g : IsWalk(q, S, n, g)
<1> DEFINE T == {n \in Nat : \E g : IsWalk(q, S, n, g)}
           Turn(p, i) == IF q[i] \in S THEN p ELSE Append(p, q[i])
<1>1. ASSUME NEW n \in Nat, \A m \in Nat : m < n => m \in T
      PROVE  n \in T
  <2>1. CASE n = 0
    <3> DEFINE g == [i \in 0..0 |-> <<>>]
    <3>1. IsWalk(q, S, 0, g)
      BY DEF IsWalk
    <3> QED BY <2>1, <3>1
  <2>2. CASE n # 0
    <3>1. n - 1 \in T
      BY <1>1, <2>2
    <3>2. PICK h : IsWalk(q, S, n - 1, h)
      BY <3>1
    <3> DEFINE last == Turn(h[n - 1], n)
               g == [i \in 0..n |-> IF i = n THEN last ELSE h[i]]
    <3>3. \A i \in 0..(n - 1) : h[i] = IF i = 0 THEN <<>> ELSE Turn(h[i - 1], i)
      BY <3>2 DEF IsWalk
    <3>4. \A i \in 0..(n - 1) : g[i] = h[i]
      BY <2>2
    <3>5. g[n] = last
      BY <2>2
    <3> HIDE DEF last, Turn
    <3>6. \A i \in 0..n : g[i] = IF i = 0 THEN <<>> ELSE Turn(g[i - 1], i)
      <4> SUFFICES ASSUME NEW i \in 0..n
                   PROVE  g[i] = IF i = 0 THEN <<>> ELSE Turn(g[i - 1], i)
        OBVIOUS
      <4>1. CASE i = n
        <5>1. g[n - 1] = h[n - 1]
          BY <2>2, <3>4
        <5> HIDE DEF g
        <5> QED BY <2>2, <3>5, <4>1, <5>1 DEF last
      <4>2. CASE i # n
        <5>1. i \in 0..(n - 1) /\ (i # 0 => i - 1 \in 0..(n - 1))
          BY <4>2
        <5>2. g[i] = h[i] /\ (i # 0 => g[i - 1] = h[i - 1])
          BY <3>4, <5>1
        <5> HIDE DEF g
        <5> QED BY <3>3, <5>1, <5>2
      <4> QED BY <4>1, <4>2
    <3>7. g = [i \in 0..n |-> g[i]]
      OBVIOUS
    <3> HIDE DEF g
    <3>8. IsWalk(q, S, n, g)
      BY <3>6, <3>7 DEF IsWalk, Turn
    <3> QED BY <3>8
  <2> QED BY <2>1, <2>2
<1>2. T \in SUBSET Nat
  OBVIOUS
<1>3. \A n \in Nat : n \in T
  <2> HIDE DEF T
  <2> QED BY <1>1, <1>2, CompleteInduction
<1> QED BY <1>3

\* Those who were unpended, and only they, leave the wait queue.
LEMMA UnpendedFacts ==
    ASSUME wait_q \in Seq(Threads), IsInjective(wait_q), NEW S
    PROVE  /\ Unpended(S) \in Seq(Threads) /\ IsInjective(Unpended(S))
           /\ Range(Unpended(S)) = Range(wait_q) \ S
<1> DEFINE q == wait_q
           N == Len(wait_q)
           g == CHOOSE h : IsWalk(q, S, N, h)
           Left(i) == /\ g[i] \in Seq(Threads) /\ IsInjective(g[i])
                      /\ \A x : x \in Range(g[i]) <=> x \notin S /\ \E j \in 1..i : q[j] = x
           T == {i \in Nat : i <= N => Left(i)}
<1>1. N \in Nat /\ DOMAIN q = 1..N /\ \A i \in 1..N : q[i] \in Threads
  BY LenProperties, ElementOfSeq
<1>2. IsWalk(q, S, N, g)
  BY <1>1, WalkExists
<1>3. Unpended(S) = g[N]
  BY DEF Unpended, IsWalk
<1> HIDE DEF g, q
<1>4. /\ g[0] = <<>>
      /\ \A i \in 1..N : g[i] = IF q[i] \in S THEN g[i - 1] ELSE Append(g[i - 1], q[i])
  <2>1. 0 \in 0..N /\ \A i \in 1..N : i \in 0..N /\ i # 0
    BY <1>1
  <2> QED BY <1>2, <2>1 DEF IsWalk
<1>5. ASSUME NEW n \in Nat, \A m \in Nat : m < n => m \in T
      PROVE  n \in T
  <2> SUFFICES ASSUME n <= N PROVE Left(n)
    OBVIOUS
  <2>1. CASE n = 0
    <3>1. \A x : ~\E j \in 1..n : q[j] = x
      BY <2>1
    <3> QED BY <1>4, <2>1, <3>1, EmptyRange
  <2>2. CASE n # 0
    <3> DEFINE p == g[n - 1]
    <3>1. n - 1 \in Nat /\ n - 1 < n /\ n - 1 <= N /\ n \in 1..N
      BY <1>1, <2>2
    <3>2. Left(n - 1)
      BY <1>5, <3>1
    <3>3. /\ p \in Seq(Threads) /\ IsInjective(p)
          /\ \A x : x \in Range(p) <=> x \notin S /\ \E j \in 1..(n - 1) : q[j] = x
      BY <3>2
    <3>4. g[n] = (IF q[n] \in S THEN p ELSE Append(p, q[n])) /\ q[n] \in Threads
      BY <1>1, <1>4, <3>1 DEF q
    <3> HIDE DEF p
    <3>5. \A x : (\E j \in 1..n : q[j] = x) <=> (\E j \in 1..(n - 1) : q[j] = x) \/ q[n] = x
      <4>1. \A j : j \in 1..n <=> j \in 1..(n - 1) \/ j = n
        BY <3>1
      <4> QED BY <4>1
    <3>6. CASE q[n] \in S
      BY <3>3, <3>4, <3>5, <3>6
    <3>7. CASE q[n] \notin S
      <4>1. q[n] \notin Range(p)
        <5>1. \A j \in 1..(n - 1) : j \in DOMAIN q /\ n \in DOMAIN q /\ j # n
          BY <1>1, <3>1
        <5> QED BY <3>3, <5>1 DEF IsInjective, q
      <4>2. g[n] = Append(p, q[n])
        BY <3>4, <3>7
      <4>3. /\ Append(p, q[n]) \in Seq(Threads) /\ IsInjective(Append(p, q[n]))
            /\ Range(Append(p, q[n])) = Range(p) \union {q[n]}
        BY <3>3, <3>4, <4>1, AppendFacts
      <4>4. \A x : x \in Range(g[n]) <=> x \notin S /\ \E j \in 1..n : q[j] = x
        BY <3>3, <3>5, <3>7, <4>2, <4>3
      <4> QED BY <4>2, <4>3, <4>4
    <3> QED BY <3>6, <3>7
  <2> QED BY <2>1, <2>2
<1>6. \A n \in Nat : n \in T
  <2>1. T \in SUBSET Nat
    OBVIOUS
  <2> HIDE DEF T
  <2> QED BY <1>5, <2>1, CompleteInduction
<1>7. Left(N)
  <2>1. N \in T /\ N <= N
    <3> HIDE DEF T
    <3> QED BY <1>1, <1>6
  <2> QED BY <2>1
<1>8. \A x : x \in Range(wait_q) <=> \E j \in 1..N : q[j] = x
  BY RangeMembers DEF q
<1>9. Range(g[N]) = Range(wait_q) \ S
  BY <1>7, <1>8
<1> QED BY <1>3, <1>7, <1>9

EventInv ==
    /\ WaitOK(th, wait_q, (SUBSET EventBits) \union {NULL}, Ops)
    /\ obj \in SUBSET EventBits
    /\ held \in [Threads -> SUBSET EventBits]
    /\ \A t \in Threads : Pends(t) => th[t].data = held[t] /\ th[t].ret = "EAGAIN"
    /\ EventNobodyStranded /\ EventResults

\* At first no event is set and nobody waits.
LEMMA EventStart ==
    EventInit => EventInv
<1> SUFFICES ASSUME EventInit PROVE EventInv
  OBVIOUS
<1>1. WaitOK(th, wait_q, (SUBSET EventBits) \union {NULL}, Ops)
  BY RunningOK DEF EventInit
<1>2. obj \in SUBSET EventBits /\ held \in [Threads -> SUBSET EventBits]
  BY DEF EventInit
<1>3. Range(wait_q) = {} /\ \A t \in Threads : th[t].st = "run"
  BY EmptyRange DEF EventInit, WaitInit, Running
<1> QED BY <1>1, <1>2, <1>3 DEF EventInv, EventNobodyStranded, EventResults, Waiters, Pends, Woken

\* What fewer events meet more events meet.
LEMMA MoreEvents ==
    ASSUME NEW A, NEW B, NEW C, B \subseteq C, NEW op, are_wait_conditions_met(A, B, op)
    PROVE  are_wait_conditions_met(A, C, op)
BY DEF are_wait_conditions_met

\* Every operation keeps the invariant.
LEMMA EventStep ==
    ASSUME EventInv, EventNext
    PROVE  EventInv'
<1> DEFINE D == (SUBSET EventBits) \union {NULL}
           Waiting == \A t \in Threads : Pends(t) => th[t].data = held[t] /\ th[t].ret = "EAGAIN"
<1> USE DEF Pends, Woken, Runs, Waiters
<1>1. /\ WaitOK(th, wait_q, D, Ops) /\ obj \in SUBSET EventBits /\ held \in [Threads -> SUBSET EventBits]
      /\ Waiting /\ EventNobodyStranded /\ EventResults
  BY DEF EventInv
<1>2. /\ th \in [Threads -> ThreadType(D)] /\ wait_q \in Seq(Threads) /\ IsInjective(wait_q)
      /\ \A t \in Threads : t \in Range(wait_q) <=> Waits(th[t], Ops)
      /\ \A t \in Threads : t \in Range(wait_q) => Pends(t)
      /\ Range(wait_q) \subseteq Threads
  BY <1>1, RangeMembers DEF WaitOK, Waits
<1>3. NULL \in D /\ SUBSET EventBits \subseteq D /\ "0" \in Rets
  BY DEF Rets
<1>4. \A t \in Threads : th[t].op \in Ops /\ th[t].data \in D
  BY <1>2 DEF ThreadType
<1>5. /\ WaitOK(th', wait_q', D, Ops) /\ obj' \in SUBSET EventBits /\ held' \in [Threads -> SUBSET EventBits]
      /\ Waiting' /\ EventNobodyStranded' /\ EventResults'
      => EventInv'
  BY DEF EventInv
<1> HIDE DEF D
<1>6. CASE EventReset
  <2>1. obj' = {} /\ th' = th /\ wait_q' = wait_q /\ held' = held
    BY <1>6 DEF EventReset
  <2>2. WaitOK(th', wait_q', D, Ops) /\ obj' \in SUBSET EventBits /\ held' \in [Threads -> SUBSET EventBits]
    BY <1>1, <2>1
  <2>3. Waiting' /\ EventResults'
    BY <1>1, <2>1 DEF EventResults
  <2>4. obj' \subseteq obj
    BY <2>1
  <2>5. EventNobodyStranded'
    BY <1>1, <2>1, <2>4, MoreEvents DEF EventNobodyStranded
  <2> QED BY <1>5, <2>2, <2>3, <2>5
<1>7. ASSUME NEW S \in EventSets, NEW accumulate \in BOOLEAN, Post(S, accumulate) PROVE EventInv'
  <2> DEFINE events == IF accumulate THEN S \union obj ELSE S
             woken  == Matching(S, accumulate)
  <2>1. /\ obj' = events
        /\ th' = [t \in Threads |-> IF t \in woken THEN WokenWith(t, "0", events) ELSE th[t]]
        /\ wait_q' = Unpended(woken) /\ held' = held
    BY <1>7 DEF Post
  <2>2. events \in SUBSET EventBits
    BY <1>1 DEF EventSets
  <2>3. \A t : t \in woken <=> t \in Range(wait_q) /\ are_wait_conditions_met(th[t].data, events, th[t].op)
    BY DEF Matching
  <2> HIDE DEF events, woken
  <2>4. \A t \in Threads :
           IF t \in woken
           THEN /\ th'[t].st = "woken" /\ th'[t].ret = "0" /\ th'[t].data = events /\ th'[t].op = th[t].op
                /\ th'[t] \in ThreadType(D)
           ELSE th'[t] = th[t]
    <3> SUFFICES ASSUME NEW t \in Threads, t \in woken
                 PROVE  /\ th'[t].st = "woken" /\ th'[t].ret = "0" /\ th'[t].data = events
                        /\ th'[t].op = th[t].op /\ th'[t] \in ThreadType(D)
      BY <2>1
    <3>1. th'[t] = WokenWith(t, "0", events) /\ th[t] \in ThreadType(D) /\ events \in D
      BY <1>2, <1>3, <2>1, <2>2
    <3>2. th'[t].st = "woken" /\ th'[t].ret = "0" /\ th'[t].data = events /\ th'[t].op = th[t].op
      BY <3>1 DEF WokenWith, ThreadType
    <3>3. th'[t] \in ThreadType(D)
      BY <3>1 DEF WokenWith, ThreadType, States, Rets
    <3> QED BY <3>2, <3>3
  <2>5. wait_q' \in Seq(Threads) /\ IsInjective(wait_q') /\ Range(wait_q') = Range(wait_q) \ woken
    BY <1>2, <2>1, UnpendedFacts
  <2>6. WaitOK(th', wait_q', D, Ops)
    <3>1. th' \in [Threads -> ThreadType(D)]
      <4>1. \A t \in Threads : th'[t] \in ThreadType(D)
        BY <1>2, <2>4
      <4> QED BY <2>1, <4>1
    <3>2. \A t \in Threads : t \in Range(wait_q') <=> Waits(th'[t], Ops)
      BY <1>2, <2>4, <2>5 DEF Waits
    <3> QED BY <2>5, <3>1, <3>2 DEF WaitOK
  <2>7. Waiting'
    BY <1>1, <2>1, <2>4
  <2>8. EventNobodyStranded'
    BY <1>1, <1>2, <2>1, <2>3, <2>4, <2>5 DEF EventNobodyStranded
  <2>9. EventResults'
    BY <1>1, <1>2, <2>1, <2>3, <2>4 DEF EventResults
  <2> QED BY <1>1, <1>5, <2>1, <2>2, <2>6, <2>7, <2>8, <2>9
<1>8. ASSUME NEW t \in Threads, EventReturn(t) PROVE EventInv'
  <2>1. /\ th' = [th EXCEPT ![t] = Running] /\ wait_q' = wait_q /\ obj' = obj /\ Woken(t)
        /\ held' = [held EXCEPT ![t] = {}]
    BY <1>8 DEF EventReturn
  <2>2. ~Waits(th[t], Ops)
    BY <2>1 DEF Waits
  <2>3. OnlyChanged(t, Running) /\ WaitOK(th', wait_q', D, Ops)
    BY <1>1, <1>3, <2>1, <2>2, ReturnOK
  <2>4. held' \in [Threads -> SUBSET EventBits] /\ \A u \in Threads \ {t} : held'[u] = held[u]
    BY <1>1, <2>1
  <2>5. Waiting' /\ EventResults'
    BY <1>1, <2>3, <2>4 DEF EventResults, OnlyChanged, Running
  <2>6. EventNobodyStranded'
    BY <1>1, <1>2, <2>1, <2>3, <2>4 DEF EventNobodyStranded, OnlyChanged
  <2> QED BY <1>1, <1>5, <2>1, <2>3, <2>4, <2>5, <2>6
<1>9. ASSUME NEW t \in Threads, Timeout(t) PROVE EventInv'
  <2>1. /\ th'[t].st = "woken" /\ th'[t].ret = th[t].ret /\ Pends(t)
        /\ \A u \in Threads \ {t} : th'[u] = th[u]
        /\ obj' = obj /\ held' = held
        /\ WaitOK(th', wait_q', D, Ops) /\ Range(wait_q') = Range(wait_q) \ {t}
    BY <1>1, <1>4, <1>9, TimeoutOK
  <2>2. Waiting' /\ EventResults'
    BY <1>1, <2>1 DEF EventResults
  <2>3. EventNobodyStranded'
    BY <1>1, <1>2, <2>1 DEF EventNobodyStranded
  <2> QED BY <1>1, <1>5, <2>1, <2>2, <2>3
<1>10. ASSUME NEW t \in Threads, NEW S \in EventSets, NEW condition \in {"any", "all"},
              NEW reset \in BOOLEAN, NEW timed \in BOOLEAN, EventWait(t, S, condition, reset, timed)
       PROVE  EventInv'
  <2> DEFINE events == IF reset THEN {} ELSE obj
  <2>1. /\ ~are_wait_conditions_met(S, events, condition) /\ z_pend_curr(t, condition, S, timed)
        /\ obj' = events /\ held' = [held EXCEPT ![t] = S]
    BY <1>10 DEF EventWait
  <2>2. events \subseteq obj /\ S \in SUBSET EventBits /\ S \in D /\ condition \in Ops
    BY <1>3 DEF EventSets, Ops
  <2> HIDE DEF events
  <2>3. /\ OnlyChanged(t, Pended(condition, S, timed)) /\ WaitOK(th', wait_q', D, Ops)
        /\ Range(wait_q') = Range(wait_q) \union {t}
    BY <1>1, <2>1, <2>2, PendCurrOK
  <2>4. /\ held' \in [Threads -> SUBSET EventBits] /\ held'[t] = S
        /\ \A u \in Threads \ {t} : held'[u] = held[u]
    BY <1>1, <2>1, <2>2
  <2>5. Waiting' /\ EventResults'
    BY <1>1, <2>3, <2>4 DEF EventResults, OnlyChanged, Pended
  <2>6. ASSUME NEW u \in Range(wait_q') PROVE ~are_wait_conditions_met(held'[u], obj', th'[u].op)
    <3>1. CASE u = t
      BY <2>1, <2>3, <2>4, <3>1 DEF OnlyChanged, Pended
    <3>2. CASE u # t
      <4>1. u \in Range(wait_q) /\ u \in Threads
        BY <1>2, <2>3, <3>2
      <4>2. ~are_wait_conditions_met(held[u], obj, th[u].op)
        BY <1>1, <4>1 DEF EventNobodyStranded
      <4>3. th'[u] = th[u] /\ held'[u] = held[u] /\ obj' = events
        BY <2>1, <2>3, <2>4, <3>2, <4>1 DEF OnlyChanged
      <4> QED BY <2>2, <4>2, <4>3, MoreEvents
    <3> QED BY <3>1, <3>2
  <2>7. EventNobodyStranded'
    BY <2>6 DEF EventNobodyStranded
  <2> QED BY <1>1, <1>5, <2>1, <2>2, <2>3, <2>4, <2>5, <2>7
<1> QED BY <1>6, <1>7, <1>8, <1>9, <1>10 DEF EventNext

-----------------------------------------------------------------------------
(* Mailboxes. *)

Messages == [src : Threads, to : Threads \union {NULL}, async : AsyncMsgs \union {NULL}]
MboxData == Threads \union {NULL} \union Messages

\* A thread in k_mbox_get has got a message.
Got(r) == r.st = "woken" /\ r.op = "get" /\ r.ret = "0"

\* Where a message is: waiting, with a receiver, or left open by one.
Places == [at : {"tx", "got", "open"}, by : Threads \union {NULL}, msg : Messages]
PlaceOf(at, by, msg) == [at |-> at, by |-> by, msg |-> msg]

\* The places of the messages, with T in tx_msg_queue, f the threads and S left open.
OutOf(T, f, S) ==
    {p \in Places :
        \/ p.at = "tx" /\ p.by = NULL /\ p.msg \in T
        \/ p.at = "got" /\ p.by \in Threads /\ Got(f[p.by]) /\ p.msg = f[p.by].data
        \/ p.at = "open" /\ p.by = NULL /\ p.msg \in S}
Out == OutOf(Range(obj.tx), th, obj.open)

\* Two messages of one sender that waits, or with one descriptor.
Same(m, n) == m.async = n.async /\ (m.async = NULL => m.src = n.src)
Mine(m, t) == m.src = t /\ m.async = NULL

\* How a thread stands as a sender.
InTx(r) == r.st = "pend" /\ r.op = "put"
InSync(r) == r.st = "sync"

\* Every message is in one place, and its sender or its descriptor knows.
Known(P, f, pool) ==
    /\ \A p, q \in P : Same(p.msg, q.msg) => p = q
    /\ \A t \in Threads : (\E p \in P : p.at = "tx" /\ Mine(p.msg, t)) <=> InTx(f[t])
    /\ \A t \in Threads : (\E p \in P : p.at # "tx" /\ Mine(p.msg, t)) <=> InSync(f[t])
    /\ \A a \in AsyncMsgs : a \in pool <=> \A p \in P : p.msg.async # a

\* A thread stands as before.
Stands(f, g, t) == InTx(g[t]) = InTx(f[t]) /\ InSync(g[t]) = InSync(f[t])
\* All do but the sender of m, who waits for a message at x, or for none.
Stand(f, g, m, x) ==
    /\ \A t \in Threads : ~Mine(m, t) => Stands(f, g, t)
    /\ m.async = NULL => /\ InTx(g[m.src]) <=> x = "tx"
                         /\ InSync(g[m.src]) <=> x \in {"got", "open"}
\* So does the pool but for the descriptor of m.
Pooled(pool, new, m, free) ==
    \A a \in AsyncMsgs : a \in new <=> IF a = m.async THEN free ELSE a \in pool

\* A message is sent.
LEMMA KnownSent ==
    ASSUME NEW P \in SUBSET Places, NEW f, NEW g, NEW pool, NEW new, NEW q \in Places,
           Known(P, f, pool), Stand(f, g, q.msg, q.at), Pooled(pool, new, q.msg, FALSE),
           q.msg.async = NULL => ~InTx(f[q.msg.src]) /\ ~InSync(f[q.msg.src]),
           q.msg.async # NULL => q.msg.async \in pool
    PROVE  Known(P \union {q}, g, new)
<1>1. q.msg.src \in Threads /\ q.msg.async \in AsyncMsgs \union {NULL} /\ q.at \in {"tx", "got", "open"}
  BY DEF Places, Messages
<1>2. \A p \in P : ~Same(p.msg, q.msg)
  <2>1. CASE q.msg.async = NULL
    BY <1>1, <2>1 DEF Known, Same, Mine
  <2>2. CASE q.msg.async # NULL
    BY <1>1, <2>2 DEF Known, Same
  <2> QED BY <2>1, <2>2
<1>3. \A p \in P : ~Same(q.msg, p.msg)
  BY <1>2 DEF Same
<1>4. \A p, r \in P \union {q} : Same(p.msg, r.msg) => p = r
  BY <1>2, <1>3 DEF Known
<1>5. ASSUME NEW t \in Threads
      PROVE  /\ (\E p \in P \union {q} : p.at = "tx" /\ Mine(p.msg, t)) <=> InTx(g[t])
             /\ (\E p \in P \union {q} : p.at # "tx" /\ Mine(p.msg, t)) <=> InSync(g[t])
  <2>1. CASE Mine(q.msg, t)
    <3>1. \A p \in P : ~Mine(p.msg, t)
      BY <1>2, <2>1 DEF Mine, Same
    <3> QED BY <1>1, <2>1, <3>1 DEF Stand, Mine
  <2>2. CASE ~Mine(q.msg, t)
    BY <2>2 DEF Stand, Stands, Known
  <2> QED BY <2>1, <2>2
<1>6. \A a \in AsyncMsgs : a \in new <=> \A p \in P \union {q} : p.msg.async # a
  BY DEF Known, Pooled
<1> QED BY <1>4, <1>5, <1>6 DEF Known

\* A message is taken and is in no place.
LEMMA KnownTaken ==
    ASSUME NEW P \in SUBSET Places, NEW f, NEW g, NEW pool, NEW new, NEW q \in P,
           Known(P, f, pool), Stand(f, g, q.msg, "none"), Pooled(pool, new, q.msg, TRUE)
    PROVE  Known(P \ {q}, g, new)
<1>1. q.msg.src \in Threads /\ q.msg.async \in AsyncMsgs \union {NULL} /\ q.at \in {"tx", "got", "open"}
  BY DEF Places, Messages
<1>2. \A p \in P \ {q} : ~Same(p.msg, q.msg)
  BY DEF Known
<1>3. ASSUME NEW t \in Threads
      PROVE  /\ (\E p \in P \ {q} : p.at = "tx" /\ Mine(p.msg, t)) <=> InTx(g[t])
             /\ (\E p \in P \ {q} : p.at # "tx" /\ Mine(p.msg, t)) <=> InSync(g[t])
  <2>1. CASE Mine(q.msg, t)
    <3>1. \A p \in P \ {q} : ~Mine(p.msg, t)
      BY <1>2, <2>1 DEF Mine, Same
    <3> QED BY <1>1, <2>1, <3>1 DEF Stand, Mine
  <2>2. CASE ~Mine(q.msg, t)
    BY <2>2 DEF Stand, Stands, Known
  <2> QED BY <2>1, <2>2
<1>4. ASSUME NEW a \in AsyncMsgs PROVE a \in new <=> \A p \in P \ {q} : p.msg.async # a
  <2>1. CASE a = q.msg.async
    <3>1. \A p \in P \ {q} : p.msg.async # a
      BY <1>2, <2>1, MboxAssumption DEF Same
    <3> QED BY <2>1, <3>1 DEF Pooled
  <2>2. CASE a # q.msg.async
    BY <2>2 DEF Known, Pooled
  <2> QED BY <2>1, <2>2
<1> QED BY <1>3, <1>4 DEF Known

\* A message goes from one place to another.
LEMMA KnownMoved ==
    ASSUME NEW P \in SUBSET Places, NEW f, NEW g, NEW pool, NEW q \in P, NEW r \in Places,
           Known(P, f, pool), Same(q.msg, r.msg), Stand(f, g, r.msg, r.at)
    PROVE  Known((P \ {q}) \union {r}, g, pool)
<1>1. r.msg.src \in Threads /\ r.msg.async \in AsyncMsgs \union {NULL} /\ r.at \in {"tx", "got", "open"}
  BY DEF Places, Messages
<1>2. \A p \in P \ {q} : ~Same(p.msg, r.msg) /\ ~Same(r.msg, p.msg)
  BY DEF Known, Same
<1>3. \A p, s \in (P \ {q}) \union {r} : Same(p.msg, s.msg) => p = s
  BY <1>2 DEF Known
<1>4. ASSUME NEW t \in Threads
      PROVE  /\ (\E p \in (P \ {q}) \union {r} : p.at = "tx" /\ Mine(p.msg, t)) <=> InTx(g[t])
             /\ (\E p \in (P \ {q}) \union {r} : p.at # "tx" /\ Mine(p.msg, t)) <=> InSync(g[t])
  <2>1. CASE Mine(r.msg, t)
    <3>1. \A p \in P \ {q} : ~Mine(p.msg, t)
      BY <1>2, <2>1 DEF Mine, Same
    <3> QED BY <1>1, <2>1, <3>1 DEF Stand, Mine
  <2>2. CASE ~Mine(r.msg, t)
    <3>1. ~Mine(q.msg, t)
      BY <2>2 DEF Mine, Same
    <3> QED BY <2>2, <3>1 DEF Stand, Stands, Known
  <2> QED BY <2>1, <2>2
<1>5. \A a \in AsyncMsgs : a \in pool <=> \A p \in (P \ {q}) \union {r} : p.msg.async # a
  BY DEF Known, Same
<1> QED BY <1>3, <1>4, <1>5 DEF Known

\* Nothing about the messages changes.
LEMMA KnownStays ==
    ASSUME NEW P, NEW f, NEW g, NEW pool, Known(P, f, pool), \A t \in Threads : Stands(f, g, t)
    PROVE  Known(P, g, pool)
BY DEF Known, Stands

\* A place is what its parts say.
LEMMA PlaceIs ==
    ASSUME NEW at \in {"tx", "got", "open"}, NEW by \in Threads \union {NULL}, NEW m \in Messages
    PROVE  /\ PlaceOf(at, by, m) \in Places
           /\ PlaceOf(at, by, m).at = at /\ PlaceOf(at, by, m).by = by /\ PlaceOf(at, by, m).msg = m
           /\ \A p \in Places : p.at = at /\ p.by = by /\ p.msg = m <=> p = PlaceOf(at, by, m)
BY DEF PlaceOf, Places

\* A set without one of its elements, and with one more.
Less(P, q) == P \ {q}
More(P, q) == P \union {q}

\* The places change where a message comes to tx_msg_queue,
LEMMA OutTx ==
    ASSUME NEW T, NEW f, NEW g, NEW S, NEW m \in Messages,
           \A t \in Threads : Got(f[t]) \/ Got(g[t]) => f[t] = g[t]
    PROVE  OutOf(T \union {m}, g, S) = OutOf(T, f, S) \union {PlaceOf("tx", NULL, m)}
<1> DEFINE q == PlaceOf("tx", NULL, m)
<1>1. q \in Places /\ q.at = "tx" /\ q.by = NULL /\ q.msg = m
  /\ \A p \in Places : p.at = "tx" /\ p.by = NULL /\ p.msg = m <=> p = q
  BY PlaceIs
<1> HIDE DEF q
<1>2. \A p \in Places : p \in OutOf(T \union {m}, g, S) <=> p \in OutOf(T, f, S) \/ p = q
  BY <1>1 DEF OutOf
<1>3. OutOf(T \union {m}, g, S) \subseteq Places /\ OutOf(T, f, S) \subseteq Places
  BY DEF OutOf
<1> QED BY <1>1, <1>2, <1>3 DEF q

\* or leaves it,
LEMMA OutUntx ==
    ASSUME NEW T, NEW f, NEW g, NEW S, NEW m \in T, NEW U, U = Less(T, m), m \in Messages,
           \A t \in Threads : Got(f[t]) \/ Got(g[t]) => f[t] = g[t]
    PROVE  /\ PlaceOf("tx", NULL, m) \in OutOf(T, f, S)
           /\ OutOf(U, g, S) = Less(OutOf(T, f, S), PlaceOf("tx", NULL, m))
<1> DEFINE q == PlaceOf("tx", NULL, m)
<1>1. q \in Places /\ q.at = "tx" /\ q.by = NULL /\ q.msg = m
  /\ \A p \in Places : p.at = "tx" /\ p.by = NULL /\ p.msg = m <=> p = q
  BY PlaceIs
<1> HIDE DEF q
<1>2. \A p \in Places : p \in OutOf(U, g, S) <=> p \in OutOf(T, f, S) /\ p # q
  BY <1>1 DEF OutOf, Less
<1>3. OutOf(U, g, S) \subseteq Places /\ OutOf(T, f, S) \subseteq Places
  BY DEF OutOf
<1>4. q \in OutOf(T, f, S)
  BY <1>1 DEF OutOf
<1> QED BY <1>1, <1>2, <1>3, <1>4 DEF q, Less

\* where a thread gets a message,
LEMMA OutGot ==
    ASSUME NEW T, NEW f, NEW g, NEW S, NEW m \in Messages, NEW t \in Threads,
           ~Got(f[t]), Got(g[t]), g[t].data = m,
           \A u \in Threads \ {t} : Got(f[u]) \/ Got(g[u]) => f[u] = g[u]
    PROVE  OutOf(T, g, S) = More(OutOf(T, f, S), PlaceOf("got", t, m))
<1> DEFINE q == PlaceOf("got", t, m)
<1>1. q \in Places /\ q.at = "got" /\ q.by = t /\ q.msg = m
  /\ \A p \in Places : p.at = "got" /\ p.by = t /\ p.msg = m <=> p = q
  BY PlaceIs
<1> HIDE DEF q
<1>2. \A p \in Places : p \in OutOf(T, g, S) <=> p \in OutOf(T, f, S) \/ p = q
  BY <1>1 DEF OutOf
<1>3. OutOf(T, g, S) \subseteq Places /\ OutOf(T, f, S) \subseteq Places
  BY DEF OutOf
<1> QED BY <1>1, <1>2, <1>3 DEF q, More

\* or is done with it,
LEMMA OutUngot ==
    ASSUME NEW T, NEW f, NEW g, NEW S, NEW t \in Threads,
           Got(f[t]), ~Got(g[t]), f[t].data \in Messages,
           \A u \in Threads \ {t} : Got(f[u]) \/ Got(g[u]) => f[u] = g[u]
    PROVE  /\ PlaceOf("got", t, f[t].data) \in OutOf(T, f, S)
           /\ OutOf(T, g, S) = Less(OutOf(T, f, S), PlaceOf("got", t, f[t].data))
<1> DEFINE q == PlaceOf("got", t, f[t].data)
<1>1. q \in Places /\ q.at = "got" /\ q.by = t /\ q.msg = f[t].data
  /\ \A p \in Places : p.at = "got" /\ p.by = t /\ p.msg = f[t].data <=> p = q
  BY PlaceIs
<1> HIDE DEF q
<1>2. \A p \in Places : p \in OutOf(T, g, S) <=> p \in OutOf(T, f, S) /\ p # q
  BY <1>1 DEF OutOf
<1>3. OutOf(T, g, S) \subseteq Places /\ OutOf(T, f, S) \subseteq Places
  BY DEF OutOf
<1>4. q \in OutOf(T, f, S)
  BY <1>1 DEF OutOf
<1> QED BY <1>1, <1>2, <1>3, <1>4 DEF q, Less

\* where one is left open,
LEMMA OutOpen ==
    ASSUME NEW T, NEW f, NEW S, NEW U, NEW m \in Messages, U = More(S, m)
    PROVE  OutOf(T, f, U) = More(OutOf(T, f, S), PlaceOf("open", NULL, m))
<1> DEFINE q == PlaceOf("open", NULL, m)
<1>1. q \in Places /\ q.at = "open" /\ q.by = NULL /\ q.msg = m
  /\ \A p \in Places : p.at = "open" /\ p.by = NULL /\ p.msg = m <=> p = q
  BY PlaceIs
<1> HIDE DEF q
<1>2. \A p \in Places : p \in OutOf(T, f, U) <=> p \in OutOf(T, f, S) \/ p = q
  BY <1>1 DEF OutOf, More
<1>3. OutOf(T, f, U) \subseteq Places /\ OutOf(T, f, S) \subseteq Places
  BY DEF OutOf
<1> QED BY <1>1, <1>2, <1>3 DEF q, More

\* and where such a one is taken.
LEMMA OutTaken ==
    ASSUME NEW T, NEW f, NEW g, NEW S, NEW m \in S, NEW U, U = Less(S, m), m \in Messages,
           \A t \in Threads : Got(f[t]) \/ Got(g[t]) => f[t] = g[t]
    PROVE  /\ PlaceOf("open", NULL, m) \in OutOf(T, f, S)
           /\ OutOf(T, g, U) = Less(OutOf(T, f, S), PlaceOf("open", NULL, m))
<1> DEFINE q == PlaceOf("open", NULL, m)
<1>1. q \in Places /\ q.at = "open" /\ q.by = NULL /\ q.msg = m
  /\ \A p \in Places : p.at = "open" /\ p.by = NULL /\ p.msg = m <=> p = q
  BY PlaceIs
<1> HIDE DEF q
<1>2. \A p \in Places : p \in OutOf(T, g, U) <=> p \in OutOf(T, f, S) /\ p # q
  BY <1>1 DEF OutOf, Less
<1>3. OutOf(T, g, U) \subseteq Places /\ OutOf(T, f, S) \subseteq Places
  BY DEF OutOf
<1>4. q \in OutOf(T, f, S)
  BY <1>1 DEF OutOf
<1> QED BY <1>1, <1>2, <1>3, <1>4 DEF q, Less

\* Nothing about the messages of the threads changes.
LEMMA OutStays ==
    ASSUME NEW T, NEW f, NEW g, NEW S, \A t \in Threads : Got(f[t]) \/ Got(g[t]) => f[t] = g[t]
    PROVE  OutOf(T, g, S) = OutOf(T, f, S)
<1>1. \A p \in Places : p \in OutOf(T, g, S) <=> p \in OutOf(T, f, S)
  BY DEF OutOf
<1> QED BY <1>1 DEF OutOf

\* A message is inserted somewhere in tx_msg_queue.
LEMMA InsertMsgFacts ==
    ASSUME NEW s \in Seq(Messages), NEW m \in Messages
    PROVE  /\ InsertMsg(s, m) \in Seq(Messages)
           /\ Range(InsertMsg(s, m)) = Range(s) \union {m}
           /\ IsInjective(s) /\ m \notin Range(s) => IsInjective(InsertMsg(s, m))
<1> DEFINE worse == {i \in 1..Len(s) : Prio[m.src] < Prio[s[i].src]}
           place == IF worse = {} THEN Len(s) + 1 ELSE Min(worse)
<1>1. Len(s) \in Nat /\ worse \in SUBSET (1..Len(s))
  BY LenProperties
<1>2. place \in 1..(Len(s) + 1)
  BY <1>1, PlaceFacts
<1>3. InsertMsg(s, m) = InsertAt(s, place, m)
  BY DEF InsertMsg
<1> HIDE DEF place
<1> QED BY <1>2, <1>3, InsertAtElements, InsertAtRange

MboxObj == [tx : Seq(Messages), pool : SUBSET AsyncMsgs, open : SUBSET Messages]
MboxType ==
    /\ WaitOK(th, wait_q, MboxData, {"get"})
    /\ obj \in MboxObj /\ IsInjective(obj.tx) /\ IsFiniteSet(obj.open)
    /\ held \in [Threads -> Threads \union {NULL}]

\* What a receiver that waits asks for, and what it has got; a sender whose
\* message was received is not a receiver.
MboxCall(r, t, h) ==
    /\ r.st = "pend" => r.ret = "EAGAIN" /\ (r.op = "get" => r.data = h)
    /\ r.st = "sync" => r.op \in {"put", "sync"}
    /\ Got(r) => r.data \in Messages /\ r.data.to \in {NULL, t} /\ h \in {NULL, r.data.src}
MboxCalls == \A t \in Threads : MboxCall(th[t], t, held[t])

MboxInv == MboxType /\ MboxCalls /\ Known(Out, th, obj.pool) /\ MboxNobodyStranded

\* What the invariant says of a state.
LEMMA MboxFacts ==
    ASSUME MboxInv
    PROVE  /\ WaitOK(th, wait_q, MboxData, {"get"})
           /\ th \in [Threads -> ThreadType(MboxData)] /\ wait_q \in Seq(Threads)
           /\ \A t \in Threads : t \in Range(wait_q) <=> Pends(t) /\ th[t].op = "get"
           /\ obj.tx \in Seq(Messages) /\ obj.pool \in SUBSET AsyncMsgs /\ obj.open \in SUBSET Messages
           /\ IsInjective(obj.tx) /\ IsFiniteSet(obj.open) /\ Range(obj.tx) \subseteq Messages
           /\ held \in [Threads -> Threads \union {NULL}]
           /\ Out \in SUBSET Places
<1>1. MboxType
  BY DEF MboxInv
<1>2. obj.tx \in Seq(Messages)
  BY <1>1 DEF MboxType, MboxObj
<1> QED BY <1>1, <1>2, RangeMembers DEF MboxType, MboxObj, WaitOK, Waits, Pends, Out, OutOf

\* At first there are no messages.
LEMMA MboxStart ==
    MboxInit => MboxInv
<1> SUFFICES ASSUME MboxInit PROVE MboxInv
  OBVIOUS
<1>1. NULL \in MboxData
  BY DEF MboxData
<1>2. WaitOK(th, wait_q, MboxData, {"get"})
  BY <1>1, RunningOK DEF MboxInit
<1>3. obj = [tx |-> <<>>, pool |-> AsyncMsgs, open |-> {}] /\ held = [t \in Threads |-> NULL] /\ wait_q = <<>>
  BY DEF MboxInit, WaitInit
<1>4. \A t \in Threads : th[t].st = "run"
  BY DEF MboxInit, WaitInit, Running
<1>5. <<>> \in Seq(Messages) /\ IsInjective(<<>>) /\ Range(<<>>) = {} /\ IsFiniteSet({})
  BY EmptyRange, FS_EmptySet
<1>6. MboxType
  BY <1>2, <1>3, <1>5 DEF MboxType, MboxObj
<1>7. MboxCalls /\ MboxNobodyStranded
  BY <1>3, <1>4, <1>5 DEF MboxCalls, MboxCall, Got, MboxNobodyStranded, Waiters
<1>8. Out = {}
  BY <1>3, <1>4, <1>5 DEF Out, OutOf, Got
<1>9. Known({}, th, obj.pool)
  BY <1>3, <1>4 DEF Known, InTx, InSync
<1> QED BY <1>6, <1>7, <1>8, <1>9 DEF MboxInv

\* A waiting receiver gets the message.
LEMMA PutMatchOK ==
    ASSUME MboxInv, NEW m \in Messages, Runs(m.src), PutMatch(m)
    PROVE  \E r \in Threads :
              /\ r # m.src /\ Pends(r) /\ th[r].op = "get" /\ Matches(m, r, th[r].data)
              /\ th'[r].st = "woken" /\ th'[r].op = "get" /\ th'[r].ret = "0" /\ th'[r].data = m
              /\ \A u \in Threads \ {r} : ~Mine(m, u) => th'[u] = th[u]
              /\ m.async = NULL => th'[m.src].st = "sync" /\ th'[m.src].op = "sync"
              /\ WaitOK(th', wait_q', MboxData, {"get"}) /\ Range(wait_q') = Range(wait_q) \ {r}
<1> DEFINE W == {i \in 1..Len(wait_q) : Matches(m, wait_q[i], th[wait_q[i]].data)}
           i == ReceiverFor(m)
           r == wait_q[i]
           a == WokenWith(r, "0", m)
           b == [Pended("sync", NULL, FALSE) EXCEPT !.st = "sync"]
<1>1. /\ th \in [Threads -> ThreadType(MboxData)] /\ wait_q \in Seq(Threads) /\ IsInjective(wait_q)
      /\ \A t \in Threads : t \in Range(wait_q) <=> Pends(t) /\ th[t].op = "get"
      /\ m.src \in Threads /\ m \in MboxData /\ NULL \in MboxData
  BY MboxFacts DEF Messages, MboxData, WaitOK
<1>2. Len(wait_q) \in Nat /\ W \in SUBSET (1..Len(wait_q)) /\ i = FirstOf(W)
  BY <1>1, LenProperties DEF ReceiverFor
<1>3. i # 0
  BY DEF PutMatch
<1>4. i \in W
  BY <1>2, <1>3, PlaceFacts
<1>5. i \in 1..Len(wait_q) /\ Matches(m, r, th[r].data)
  BY <1>4
<1>6. /\ wait_q' = RemoveAt(wait_q, i)
      /\ th' = [t \in Threads |-> IF t = r THEN a ELSE IF t = m.src /\ m.async = NULL THEN b ELSE th[t]]
  BY DEF PutMatch
<1> HIDE DEF i
<1>7. r \in Range(wait_q) /\ r \in Threads
  BY <1>1, <1>5, RangeMembers
<1>8. /\ wait_q' \in Seq(Threads) /\ IsInjective(wait_q')
      /\ Range(wait_q') = Range(wait_q) \ {r}
  BY <1>1, <1>5, <1>6, RemoveAtElements, RemoveAtRange
<1> HIDE DEF r
<1>9. th[r] \in ThreadType(MboxData) /\ Pends(r) /\ th[r].op = "get" /\ r # m.src
  BY <1>1, <1>7 DEF Pends, Runs
<1>10. /\ a \in ThreadType(MboxData)
       /\ a.st = "woken" /\ a.op = "get" /\ a.ret = "0" /\ a.data = m
  <2> DEFINE r0 == th[r]
  <2>1. r0 \in ThreadType(MboxData) /\ r0.op = "get" /\ m \in MboxData
    BY <1>1, <1>9
  <2>2. a = [r0 EXCEPT !.st = "woken", !.ret = "0", !.data = m, !.armed = FALSE]
    BY DEF WokenWith
  <2> HIDE DEF r0, a
  <2> QED BY <2>1, <2>2 DEF ThreadType, States, Rets
<1>11. b \in ThreadType(MboxData) /\ b.st = "sync" /\ b.op = "sync"
  BY <1>1 DEF Pended, ThreadType, States, Rets, Ops
<1> HIDE DEF a, b
<1>12. /\ th'[r] = a
       /\ m.async = NULL => th'[m.src] = b
       /\ \A u \in Threads \ {r} : ~Mine(m, u) => th'[u] = th[u]
  BY <1>1, <1>6, <1>7, <1>9 DEF Mine
<1>13. th' \in [Threads -> ThreadType(MboxData)]
  BY <1>1, <1>6, <1>10, <1>11
<1>14. \A t \in Threads : t \in Range(wait_q') <=> th'[t].st = "pend" /\ th'[t].op = "get"
  BY <1>1, <1>6, <1>7, <1>8, <1>10, <1>11, <1>12 DEF Pends, Runs
<1>15. WaitOK(th', wait_q', MboxData, {"get"})
  BY <1>8, <1>13, <1>14 DEF WaitOK, Waits
<1>16. /\ th'[r].st = "woken" /\ th'[r].op = "get" /\ th'[r].ret = "0" /\ th'[r].data = m
       /\ m.async = NULL => th'[m.src].st = "sync" /\ th'[m.src].op = "sync"
  BY <1>10, <1>11, <1>12
<1> QED BY <1>5, <1>7, <1>8, <1>9, <1>12, <1>15, <1>16

\* A message that is sent and matches no receiver, or one.
LEMMA PutMatchStep ==
    ASSUME MboxInv, NEW m \in Messages, Runs(m.src), PutMatch(m), held' = held,
           obj' \in MboxObj, obj'.tx = obj.tx, obj'.open = obj.open,
           Pooled(obj.pool, obj'.pool, m, FALSE), m.async # NULL => m.async \in obj.pool
    PROVE  MboxInv'
<1>1. PICK r \in Threads :
              /\ r # m.src /\ Pends(r) /\ th[r].op = "get" /\ Matches(m, r, th[r].data)
              /\ th'[r].st = "woken" /\ th'[r].op = "get" /\ th'[r].ret = "0" /\ th'[r].data = m
              /\ \A u \in Threads \ {r} : ~Mine(m, u) => th'[u] = th[u]
              /\ m.async = NULL => th'[m.src].st = "sync" /\ th'[m.src].op = "sync"
              /\ WaitOK(th', wait_q', MboxData, {"get"}) /\ Range(wait_q') = Range(wait_q) \ {r}
  BY PutMatchOK
<1>2. /\ IsInjective(obj.tx) /\ IsFiniteSet(obj.open) /\ held \in [Threads -> Threads \union {NULL}]
      /\ wait_q \in Seq(Threads) /\ Out \in SUBSET Places /\ m.src \in Threads
      /\ \A t \in Threads : t \in Range(wait_q) <=> Pends(t) /\ th[t].op = "get"
  BY MboxFacts DEF Messages
<1>3. MboxType'
  BY <1>1, <1>2 DEF MboxType
<1>4. MboxCalls'
  <2> SUFFICES ASSUME NEW t \in Threads PROVE MboxCall(th'[t], t, held[t])
    BY DEF MboxCalls
  <2>1. MboxCall(th[t], t, held[t])
    BY DEF MboxInv, MboxCalls
  <2>2. CASE t = r
    BY <1>1, <2>1, <2>2 DEF MboxCall, Matches, Pends, Got
  <2>3. CASE t # r /\ Mine(m, t)
    BY <1>1, <2>3 DEF MboxCall, Mine, Got
  <2>4. CASE t # r /\ ~Mine(m, t)
    BY <1>1, <2>1, <2>4
  <2> QED BY <2>2, <2>3, <2>4
<1>5. MboxNobodyStranded'
  <2>1. \A t \in Range(wait_q) \ {r} : th'[t] = th[t]
    BY <1>1, <1>2, RangeMembers DEF Pends, Runs, Mine
  <2> QED BY <1>1, <2>1 DEF MboxInv, MboxNobodyStranded, Waiters
<1>6. Known(Out, th, obj.pool)'
  <2> DEFINE q == PlaceOf("got", r, m)
  <2>1. q \in Places /\ q.at = "got" /\ q.msg = m
    BY PlaceIs
  <2>2. \A u \in Threads \ {r} : Got(th[u]) \/ Got(th'[u]) => th[u] = th'[u]
    BY <1>1 DEF Got, Mine, Runs
  <2>3. ~Got(th[r]) /\ Got(th'[r]) /\ th'[r].data = m
    BY <1>1 DEF Got, Pends
  <2>4. OutOf(Range(obj.tx), th', obj.open) = Out \union {q}
    <3>1. OutOf(Range(obj.tx), th', obj.open) = More(OutOf(Range(obj.tx), th, obj.open), q)
      BY <2>2, <2>3, OutGot
    <3> QED BY <3>1 DEF Out, More
  <2> HIDE DEF q
  <2>5. Stand(th, th', m, "got")
    <3>1. \A u \in Threads : ~Mine(m, u) => Stands(th, th', u)
      BY <1>1 DEF Stands, InTx, InSync, Pends
    <3> QED BY <1>1, <3>1 DEF Stand, InTx, InSync
  <2>6. m.async = NULL => ~InTx(th[m.src]) /\ ~InSync(th[m.src])
    BY DEF InTx, InSync, Runs
  <2>7. Known(Out, th, obj.pool)
    BY DEF MboxInv
  <2>8. Known(Out \union {q}, th', obj'.pool)
    BY <1>2, <2>1, <2>5, <2>6, <2>7, KnownSent
  <2> QED BY <2>4, <2>8 DEF Out
<1> QED BY <1>3, <1>4, <1>5, <1>6 DEF MboxInv

\* A message is sent that no receiver waits for.
LEMMA PutWaitStep ==
    ASSUME MboxInv, NEW m \in Messages, Runs(m.src), ReceiverFor(m) = 0, held' = held,
           obj' \in MboxObj, obj'.tx = InsertMsg(obj.tx, m), obj'.open = obj.open, wait_q' = wait_q,
           m.async # NULL => th' = th /\ m.async \in obj.pool,
           m.async = NULL => th' = [th EXCEPT ![m.src] = Pended("put", NULL, TRUE)],
           Pooled(obj.pool, obj'.pool, m, FALSE)
    PROVE  MboxInv'
<1> DEFINE b == Pended("put", NULL, TRUE)
           T == Range(obj.tx)
<1>1. /\ WaitOK(th, wait_q, MboxData, {"get"})
      /\ th \in [Threads -> ThreadType(MboxData)] /\ wait_q \in Seq(Threads)
      /\ \A t \in Threads : t \in Range(wait_q) <=> Pends(t) /\ th[t].op = "get"
      /\ obj.tx \in Seq(Messages) /\ IsInjective(obj.tx) /\ IsFiniteSet(obj.open)
      /\ held \in [Threads -> Threads \union {NULL}] /\ Out \in SUBSET Places
      /\ m.src \in Threads
  BY MboxFacts DEF Messages
<1>2. b \in ThreadType(MboxData) /\ b.st = "pend" /\ b.op = "put" /\ b.ret = "EAGAIN"
  BY DEF Pended, ThreadType, States, Rets, Ops, MboxData
<1> HIDE DEF b
<1>3. /\ m.async = NULL => th'[m.src] = b
      /\ \A u \in Threads : ~Mine(m, u) => th'[u] = th[u]
  BY <1>1 DEF Mine, b
<1>4. WaitOK(th', wait_q', MboxData, {"get"})
  <2>1. CASE m.async = NULL
    <3>1. ~Waits(th[m.src], {"get"}) /\ ~Waits(b, {"get"})
      BY <1>2 DEF Waits, Runs
    <3>2. WaitOK([th EXCEPT ![m.src] = b], wait_q, MboxData, {"get"})
      BY <1>1, <1>2, <3>1, StayOK
    <3> QED BY <2>1, <3>2 DEF b
  <2>2. CASE m.async # NULL
    BY <1>1, <2>2
  <2> QED BY <2>1, <2>2
<1>5. Known(Out, th, obj.pool)
  BY DEF MboxInv
<1> DEFINE q == PlaceOf("tx", NULL, m)
<1>6. q \in Places /\ q.at = "tx" /\ q.by = NULL /\ q.msg = m
  BY PlaceIs
<1> HIDE DEF q
<1>7. m \notin T
  <2> SUFFICES ASSUME m \in T PROVE FALSE
    OBVIOUS
  <2>1. q \in Out
    BY <1>6 DEF Out, OutOf
  <2>2. CASE m.async = NULL
    <3>1. InTx(th[m.src])
      BY <1>1, <1>5, <1>6, <2>1, <2>2 DEF Known, Mine
    <3> QED BY <3>1 DEF InTx, Runs
  <2>3. CASE m.async # NULL
    <3>1. m.async \in AsyncMsgs /\ m.async \in obj.pool
      BY <2>3 DEF Messages
    <3> QED BY <1>5, <1>6, <2>1, <3>1 DEF Known
  <2> QED BY <2>2, <2>3
<1>8. Range(obj'.tx) = T \union {m} /\ IsInjective(obj'.tx)
  BY <1>1, <1>7, InsertMsgFacts
<1>9. MboxType'
  BY <1>1, <1>4, <1>8 DEF MboxType
<1>10. MboxCalls'
  <2> SUFFICES ASSUME NEW t \in Threads PROVE MboxCall(th'[t], t, held[t])
    BY DEF MboxCalls
  <2>1. MboxCall(th[t], t, held[t])
    BY DEF MboxInv, MboxCalls
  <2>2. CASE Mine(m, t)
    BY <1>2, <1>3, <2>2 DEF MboxCall, Mine, Got
  <2>3. CASE ~Mine(m, t)
    BY <1>3, <2>1, <2>3
  <2> QED BY <2>2, <2>3
<1>11. \A t \in Range(wait_q) : t \in Threads /\ th'[t] = th[t] /\ ~Matches(m, t, th[t].data)
  <2> SUFFICES ASSUME NEW t \in Range(wait_q)
               PROVE  t \in Threads /\ th'[t] = th[t] /\ ~Matches(m, t, th[t].data)
    OBVIOUS
  <2>1. t \in Threads /\ Pends(t)
    BY <1>1, RangeMembers
  <2>2. th'[t] = th[t]
    BY <1>3, <2>1 DEF Mine, Pends, Runs
  <2> DEFINE W == {i \in 1..Len(wait_q) : Matches(m, wait_q[i], th[wait_q[i]].data)}
  <2>3. Len(wait_q) \in Nat /\ W \in SUBSET (1..Len(wait_q)) /\ FirstOf(W) = 0
    BY <1>1, LenProperties DEF ReceiverFor
  <2>4. W = {}
    BY <2>3, PlaceFacts
  <2>5. PICK i \in 1..Len(wait_q) : wait_q[i] = t
    BY <1>1, RangeMembers
  <2>6. ~Matches(m, t, th[t].data)
    BY <2>4, <2>5
  <2> QED BY <2>1, <2>2, <2>6
<1>12. MboxNobodyStranded'
  BY <1>8, <1>11 DEF MboxInv, MboxNobodyStranded, Waiters
<1>13. Known(Out, th, obj.pool)'
  <2>1. \A u \in Threads : Got(th[u]) \/ Got(th'[u]) => th[u] = th'[u]
    BY <1>2, <1>3 DEF Got, Mine, Runs
  <2>2. OutOf(T \union {m}, th', obj.open) = Out \union {q}
    BY <2>1, OutTx DEF Out, q
  <2>3. Stand(th, th', m, "tx")
    BY <1>2, <1>3 DEF Stand, Stands, InTx, InSync
  <2>4. m.async = NULL => ~InTx(th[m.src]) /\ ~InSync(th[m.src])
    BY DEF InTx, InSync, Runs
  <2>5. Known(Out \union {q}, th', obj'.pool)
    BY <1>1, <1>5, <1>6, <2>3, <2>4, KnownSent
  <2> QED BY <1>8, <2>2, <2>5 DEF Out
<1> QED BY <1>9, <1>10, <1>12, <1>13 DEF MboxInv

\* k_mbox_put and k_mbox_async_put.
LEMMA MboxSendStep ==
    ASSUME MboxInv, NEW t \in Threads, NEW to \in Threads \union {NULL}
    PROVE  /\ k_mbox_put(t, to) => MboxInv'
           /\ \A a \in AsyncMsgs : k_mbox_async_put(t, to, a) => MboxInv'
<1>1. obj \in MboxObj /\ obj.pool \in SUBSET AsyncMsgs /\ obj.tx \in Seq(Messages)
  BY MboxFacts DEF MboxInv, MboxType
<1>2. ASSUME k_mbox_put(t, to) PROVE MboxInv'
  <2> DEFINE m == Message(t, to, NULL)
  <2>1. m \in Messages /\ m.src = t /\ m.async = NULL
    BY DEF Message, Messages
  <2>2. /\ Runs(t) /\ held' = held
        /\ \/ PutMatch(m) /\ obj' = obj
           \/ /\ ReceiverFor(m) = 0 /\ wait_q' = wait_q
              /\ th' = [th EXCEPT ![t] = Pended("put", NULL, TRUE)]
              /\ obj' = [obj EXCEPT !.tx = InsertMsg(@, m)]
    BY <1>2 DEF k_mbox_put
  <2> HIDE DEF m
  <2>3. Pooled(obj.pool, obj.pool, m, FALSE)
    BY <2>1, MboxAssumption DEF Pooled
  <2>4. CASE PutMatch(m) /\ obj' = obj
    BY <1>1, <2>1, <2>2, <2>3, <2>4, PutMatchStep
  <2>5. CASE ~(PutMatch(m) /\ obj' = obj)
    <3> DEFINE x == InsertMsg(obj.tx, m)
    <3>1. x \in Seq(Messages) /\ obj' = [obj EXCEPT !.tx = x]
      BY <1>1, <2>1, <2>2, <2>5, InsertMsgFacts
    <3> HIDE DEF x
    <3>2. obj' \in MboxObj /\ obj'.tx = x /\ obj'.pool = obj.pool /\ obj'.open = obj.open
      BY <1>1, <3>1 DEF MboxObj
    <3> QED BY <2>1, <2>2, <2>3, <2>5, <3>2, PutWaitStep DEF x
  <2> QED BY <2>4, <2>5
<1>3. ASSUME NEW a \in AsyncMsgs, k_mbox_async_put(t, to, a) PROVE MboxInv'
  <2> DEFINE m == Message(t, to, a)
  <2>1. m \in Messages /\ m.src = t /\ m.async = a /\ a # NULL
    BY MboxAssumption DEF Message, Messages
  <2>2. /\ Runs(t) /\ held' = held /\ a \in obj.pool
        /\ \/ PutMatch(m) /\ obj' = [obj EXCEPT !.pool = @ \ {a}]
           \/ /\ ReceiverFor(m) = 0 /\ wait_q' = wait_q /\ th' = th
              /\ obj' = [obj EXCEPT !.tx = InsertMsg(@, m), !.pool = @ \ {a}]
    BY <1>3 DEF k_mbox_async_put
  <2> HIDE DEF m
  <2>3. Pooled(obj.pool, obj.pool \ {a}, m, FALSE)
    BY <2>1 DEF Pooled
  <2>4. CASE PutMatch(m) /\ obj' = [obj EXCEPT !.pool = @ \ {a}]
    <3>1. obj' \in MboxObj /\ obj'.tx = obj.tx /\ obj'.pool = obj.pool \ {a} /\ obj'.open = obj.open
      BY <1>1, <2>4 DEF MboxObj
    <3> QED BY <2>1, <2>2, <2>3, <2>4, <3>1, PutMatchStep
  <2>5. CASE ~(PutMatch(m) /\ obj' = [obj EXCEPT !.pool = @ \ {a}])
    <3> DEFINE x == InsertMsg(obj.tx, m)
    <3>1. x \in Seq(Messages) /\ obj' = [obj EXCEPT !.tx = x, !.pool = @ \ {a}]
      BY <1>1, <2>1, <2>2, <2>5, InsertMsgFacts
    <3> HIDE DEF x
    <3>2. obj' \in MboxObj /\ obj'.tx = x /\ obj'.pool = obj.pool \ {a} /\ obj'.open = obj.open
      BY <1>1, <3>1 DEF MboxObj
    <3> QED BY <2>1, <2>2, <2>3, <2>5, <3>2, PutWaitStep DEF x
  <2> QED BY <2>4, <2>5
<1> QED BY <1>2, <1>3

\* The timeout of a sender whose message waits takes the message away.
LEMMA PutTimeoutStep ==
    ASSUME MboxInv, NEW t \in Threads, PutTimeout(t)
    PROVE  MboxInv'
<1> DEFINE W == {i \in 1..Len(obj.tx) : obj.tx[i].src = t /\ obj.tx[i].async = NULL}
           i == MessageOf(t)
           m == obj.tx[i]
           q == PlaceOf("tx", NULL, m)
           T == Range(obj.tx)
           b == [th[t] EXCEPT !.st = "woken", !.armed = FALSE]
<1>1. /\ WaitOK(th, wait_q, MboxData, {"get"})
      /\ th \in [Threads -> ThreadType(MboxData)] /\ wait_q \in Seq(Threads)
      /\ \A u \in Threads : u \in Range(wait_q) <=> Pends(u) /\ th[u].op = "get"
      /\ obj.tx \in Seq(Messages) /\ IsInjective(obj.tx) /\ IsFiniteSet(obj.open)
      /\ T \subseteq Messages
      /\ held \in [Threads -> Threads \union {NULL}] /\ Out \in SUBSET Places
      /\ obj \in MboxObj
  BY MboxFacts DEF MboxInv, MboxType
<1>2. /\ Pends(t) /\ th[t].op = "put" /\ th' = [th EXCEPT ![t] = b] /\ held' = held /\ wait_q' = wait_q
      /\ obj' = [obj EXCEPT !.tx = RemoveAt(@, i)]
  BY <1>1 DEF PutTimeout
<1>3. Known(Out, th, obj.pool)
  BY DEF MboxInv
<1>4. \E x \in T : Mine(x, t)
  <2>1. InTx(th[t])
    BY <1>2 DEF InTx, Pends
  <2>2. PICK p \in Out : p.at = "tx" /\ Mine(p.msg, t)
    BY <1>3, <2>1 DEF Known
  <2> QED BY <2>2 DEF Out, OutOf
<1>5. Len(obj.tx) \in Nat /\ W \in SUBSET (1..Len(obj.tx)) /\ i = FirstOf(W) /\ W # {}
  BY <1>1, <1>4, LenProperties, RangeMembers DEF MessageOf, Mine
<1>6. i \in W
  BY <1>5, PlaceFacts
<1>7. i \in 1..Len(obj.tx) /\ Mine(m, t)
  BY <1>6 DEF Mine
<1> HIDE DEF i
<1>8. /\ m \in T /\ m \in Messages
      /\ RemoveAt(obj.tx, i) \in Seq(Messages) /\ IsInjective(RemoveAt(obj.tx, i))
      /\ Range(RemoveAt(obj.tx, i)) = T \ {m}
  BY <1>1, <1>7, RangeMembers, RemoveAtElements, RemoveAtRange
<1> DEFINE y == RemoveAt(obj.tx, i)
<1> HIDE DEF y
<1>9. obj' \in MboxObj /\ obj'.tx = y /\ obj'.pool = obj.pool /\ obj'.open = obj.open
  BY <1>1, <1>2, <1>8 DEF MboxObj, y
<1> HIDE DEF m
<1>10. /\ b \in ThreadType(MboxData) /\ b.st = "woken" /\ b.op = "put"
  <2> DEFINE r0 == th[t]
  <2>1. r0 \in ThreadType(MboxData) /\ r0.op = "put" /\ b = [r0 EXCEPT !.st = "woken", !.armed = FALSE]
    BY <1>1, <1>2
  <2> HIDE DEF r0, b
  <2> QED BY <2>1 DEF ThreadType, States
<1> HIDE DEF b
<1>11. th'[t] = b /\ \A u \in Threads \ {t} : th'[u] = th[u]
  BY <1>1, <1>2
<1>12. WaitOK(th', wait_q', MboxData, {"get"})
  <2>1. ~Waits(th[t], {"get"}) /\ ~Waits(b, {"get"})
    BY <1>2, <1>10 DEF Waits
  <2>2. WaitOK([th EXCEPT ![t] = b], wait_q, MboxData, {"get"})
    BY <1>1, <1>10, <2>1, StayOK
  <2> QED BY <1>2, <2>2
<1>13. MboxType'
  BY <1>1, <1>2, <1>8, <1>9, <1>12 DEF MboxType, y
<1>14. MboxCalls'
  BY <1>2, <1>10, <1>11 DEF MboxInv, MboxCalls, MboxCall, Got
<1>15. MboxNobodyStranded'
  <2>1. \A u \in Range(wait_q) : th'[u] = th[u]
    BY <1>1, <1>2, <1>11, RangeMembers
  <2> QED BY <1>2, <1>8, <1>9, <2>1 DEF MboxInv, MboxNobodyStranded, Waiters, y
<1>16. Known(Out, th, obj.pool)'
  <2>1. \A u \in Threads : Got(th[u]) \/ Got(th'[u]) => th[u] = th'[u]
    BY <1>2, <1>10, <1>11 DEF Got
  <2> HIDE DEF q, T
  <2>2. q \in Out /\ OutOf(T \ {m}, th', obj.open) = Out \ {q}
    <3> DEFINE S == obj.open
    <3>1. m \in T /\ m \in Messages
      BY <1>8
    <3> HIDE DEF S
    <3> DEFINE U == T \ {m}
    <3>2. U = Less(T, m)
      BY DEF Less
    <3> HIDE DEF U
    <3>3. /\ PlaceOf("tx", NULL, m) \in OutOf(T, th, S)
          /\ OutOf(U, th', S) = Less(OutOf(T, th, S), PlaceOf("tx", NULL, m))
      BY <2>1, <3>1, <3>2, OutUntx
    <3> QED BY <3>3 DEF Out, q, S, T, U, Less
  <2>3. q.msg = m
    BY DEF PlaceOf, q
  <2>4. Stand(th, th', m, "none")
    BY <1>7, <1>10, <1>11 DEF Stand, Stands, InTx, InSync, Mine
  <2>5. Pooled(obj.pool, obj'.pool, m, TRUE)
    BY <1>7, <1>9, MboxAssumption DEF Pooled, Mine
  <2>6. Known(Out \ {q}, th', obj'.pool)
    BY <1>1, <1>3, <2>2, <2>3, <2>4, <2>5, KnownTaken
  <2> QED BY <1>8, <1>9, <2>2, <2>6 DEF Out, y, T
<1> QED BY <1>13, <1>14, <1>15, <1>16 DEF MboxInv

\* A step that concerns no message.
LEMMA MboxQuiet ==
    ASSUME MboxInv, NEW t \in Threads, obj' = obj, WaitOK(th', wait_q', MboxData, {"get"}),
           held' \in [Threads -> Threads \union {NULL}],
           \A u \in Threads \ {t} : th'[u] = th[u] /\ held'[u] = held[u],
           ~Got(th[t]), ~Got(th'[t]), Stands(th, th', t), MboxCall(th'[t], t, held'[t]),
           Range(wait_q') \subseteq Range(wait_q) \union {t},
           t \in Range(wait_q') => \A x \in Range(obj.tx) : ~Matches(x, t, th'[t].data)
    PROVE  MboxInv'
<1>1. wait_q \in Seq(Threads) /\ MboxType
  BY MboxFacts DEF MboxInv
<1>2. MboxType'
  BY <1>1 DEF MboxType
<1>3. MboxCalls'
  BY DEF MboxInv, MboxCalls
<1>4. MboxNobodyStranded'
  <2> SUFFICES ASSUME NEW u \in Range(wait_q'), NEW x \in Range(obj.tx) PROVE ~Matches(x, u, th'[u].data)
    BY DEF MboxNobodyStranded, Waiters
  <2>1. CASE u = t
    BY <2>1
  <2>2. CASE u # t
    <3>1. u \in Range(wait_q) /\ u \in Threads
      BY <1>1, <2>2, RangeMembers
    <3>2. th'[u] = th[u]
      BY <2>2, <3>1
    <3>3. ~Matches(x, u, th[u].data)
      BY <3>1 DEF MboxInv, MboxNobodyStranded, Waiters
    <3> QED BY <3>2, <3>3
  <2> QED BY <2>1, <2>2
<1>5. Known(Out, th, obj.pool)'
  <2>1. \A u \in Threads : Got(th[u]) \/ Got(th'[u]) => th[u] = th'[u]
    OBVIOUS
  <2>2. OutOf(Range(obj.tx), th', obj.open) = Out
    BY <2>1, OutStays DEF Out
  <2>3. Known(Out, th, obj.pool) /\ \A u \in Threads : Stands(th, th', u)
    BY DEF MboxInv, Stands
  <2>4. Known(Out, th', obj.pool)
    BY <2>3, KnownStays
  <2> QED BY <2>2, <2>4 DEF Out
<1> QED BY <1>2, <1>3, <1>4, <1>5 DEF MboxInv

\* A call returns without a message, or its timeout ends its wait for one.
LEMMA MboxReturnStep ==
    ASSUME MboxInv, NEW t \in Threads, PutReturn(t) \/ GetTimedOut(t) \/ (th[t].op = "get" /\ Timeout(t))
    PROVE  MboxInv'
<1>1. /\ WaitOK(th, wait_q, MboxData, {"get"}) /\ NULL \in MboxData
      /\ \A u \in Threads : u \in Range(wait_q) <=> Pends(u) /\ th[u].op = "get"
      /\ held \in [Threads -> Threads \union {NULL}]
  BY MboxFacts DEF MboxData
<1>2. MboxCall(th[t], t, held[t])
  BY DEF MboxInv, MboxCalls
<1>3. CASE PutReturn(t) \/ GetTimedOut(t)
  <2>1. /\ Woken(t) /\ ~Got(th[t]) /\ th' = [th EXCEPT ![t] = Running] /\ wait_q' = wait_q /\ obj' = obj
        /\ held' = held \/ held' = [held EXCEPT ![t] = NULL]
    BY <1>3 DEF PutReturn, GetTimedOut, Got
  <2>2. ~Waits(th[t], {"get"})
    BY <2>1 DEF Waits, Woken
  <2>3. OnlyChanged(t, Running) /\ WaitOK(th', wait_q', MboxData, {"get"})
    BY <1>1, <2>1, <2>2, ReturnOK
  <2>4. /\ held' \in [Threads -> Threads \union {NULL}]
        /\ \A u \in Threads \ {t} : th'[u] = th[u] /\ held'[u] = held[u]
    BY <1>1, <2>1, <2>3 DEF OnlyChanged
  <2>5. ~Got(th'[t]) /\ Stands(th, th', t) /\ MboxCall(th'[t], t, held'[t])
    BY <2>1, <2>3 DEF OnlyChanged, Running, Got, Stands, InTx, InSync, Woken, MboxCall
  <2>6. t \notin Range(wait_q)
    BY <1>1, <2>1 DEF Pends, Woken
  <2> QED BY <2>1, <2>3, <2>4, <2>5, <2>6, MboxQuiet
<1>4. CASE th[t].op = "get" /\ Timeout(t)
  <2>1. th[t].op \in {"get"}
    BY <1>4
  <2>2. /\ th'[t].st = "woken" /\ th'[t].op = th[t].op
        /\ th'[t].data = th[t].data /\ th'[t].ret = th[t].ret
        /\ \A u \in Threads \ {t} : th'[u] = th[u]
        /\ obj' = obj /\ held' = held
        /\ Pends(t) /\ t \in Range(wait_q)
        /\ WaitOK(th', wait_q', MboxData, {"get"}) /\ Range(wait_q') = Range(wait_q) \ {t}
    BY <1>1, <1>4, <2>1, TimeoutOK
  <2>3. ~Got(th[t]) /\ ~Got(th'[t]) /\ Stands(th, th', t) /\ MboxCall(th'[t], t, held'[t])
    BY <1>2, <2>1, <2>2 DEF Got, Stands, InTx, InSync, Pends, MboxCall
  <2>4. /\ held' \in [Threads -> Threads \union {NULL}] /\ t \notin Range(wait_q')
        /\ \A u \in Threads \ {t} : th'[u] = th[u] /\ held'[u] = held[u]
    BY <1>1, <2>2
  <2>5. Range(wait_q') \subseteq Range(wait_q) \union {t}
    BY <2>2
  <2> QED BY <2>2, <2>3, <2>4, <2>5, MboxQuiet
<1> QED BY <1>3, <1>4

\* k_mbox_get: the caller waits,
LEMMA MboxGetWait ==
    ASSUME MboxInv, NEW t \in Threads, NEW from \in Threads \union {NULL},
           k_mbox_get(t, from), MessageFor(t, from) = 0
    PROVE  MboxInv'
<1> DEFINE W == {i \in 1..Len(obj.tx) : Matches(obj.tx[i], t, from)}
<1>1. /\ WaitOK(th, wait_q, MboxData, {"get"}) /\ from \in MboxData
      /\ \A u \in Threads : u \in Range(wait_q) <=> Pends(u) /\ th[u].op = "get"
      /\ held \in [Threads -> Threads \union {NULL}] /\ obj.tx \in Seq(Messages)
  BY MboxFacts DEF MboxData
<1>2. z_pend_curr(t, "get", from, TRUE) /\ obj' = obj /\ held' = [held EXCEPT ![t] = from]
  BY DEF k_mbox_get
<1>3. "get" \in Ops /\ "get" \in {"get"} /\ TRUE \in BOOLEAN
  BY DEF Ops
<1>4. /\ Runs(t) /\ OnlyChanged(t, Pended("get", from, TRUE))
      /\ WaitOK(th', wait_q', MboxData, {"get"}) /\ Range(wait_q') = Range(wait_q) \union {t}
  BY <1>1, <1>2, <1>3, PendCurrOK
<1>5. ~Got(th[t]) /\ ~Got(th'[t]) /\ Stands(th, th', t) /\ MboxCall(th'[t], t, held'[t])
  BY <1>1, <1>2, <1>4 DEF OnlyChanged, Pended, Got, Stands, InTx, InSync, Runs, MboxCall
<1>6. \A x \in Range(obj.tx) : ~Matches(x, t, from)
  <2>1. Len(obj.tx) \in Nat /\ W \in SUBSET (1..Len(obj.tx)) /\ FirstOf(W) = 0
    BY <1>1, LenProperties DEF MessageFor
  <2>2. W = {}
    BY <2>1, PlaceFacts
  <2>3. \A x \in Range(obj.tx) : \E j \in 1..Len(obj.tx) : obj.tx[j] = x
    BY <1>1, RangeMembers
  <2> QED BY <2>2, <2>3
<1>7. th'[t].data = from
  BY <1>4 DEF OnlyChanged, Pended
<1>8. /\ held' \in [Threads -> Threads \union {NULL}]
      /\ \A u \in Threads \ {t} : th'[u] = th[u] /\ held'[u] = held[u]
  BY <1>1, <1>2, <1>4 DEF OnlyChanged
<1> QED BY <1>2, <1>4, <1>5, <1>6, <1>7, <1>8, MboxQuiet

\* or takes a message that waits.
LEMMA MboxGetTakes ==
    ASSUME MboxInv, NEW t \in Threads, NEW from \in Threads \union {NULL},
           k_mbox_get(t, from), MessageFor(t, from) # 0
    PROVE  MboxInv'
<1> DEFINE W == {j \in 1..Len(obj.tx) : Matches(obj.tx[j], t, from)}
           i == MessageFor(t, from)
           m == obj.tx[i]
           T == Range(obj.tx)
           a == [Running EXCEPT !.st = "woken", !.op = "get", !.data = m]
           b == [th[m.src] EXCEPT !.st = "sync", !.armed = FALSE]
           y == RemoveAt(obj.tx, i)
<1>1. /\ WaitOK(th, wait_q, MboxData, {"get"})
      /\ th \in [Threads -> ThreadType(MboxData)] /\ wait_q \in Seq(Threads) /\ IsInjective(wait_q)
      /\ \A u \in Threads : u \in Range(wait_q) <=> Pends(u) /\ th[u].op = "get"
      /\ obj.tx \in Seq(Messages) /\ IsInjective(obj.tx) /\ IsFiniteSet(obj.open)
      /\ T \subseteq Messages
      /\ held \in [Threads -> Threads \union {NULL}] /\ Out \in SUBSET Places
      /\ obj \in MboxObj
  BY MboxFacts DEF MboxInv, MboxType, WaitOK
<1>2. Len(obj.tx) \in Nat /\ W \in SUBSET (1..Len(obj.tx)) /\ i = FirstOf(W) /\ i # 0
  BY <1>1, LenProperties DEF MessageFor
<1>3. i \in W
  BY <1>2, PlaceFacts
<1>4. i \in 1..Len(obj.tx) /\ Matches(m, t, from)
  BY <1>3
<1>5. /\ Runs(t) /\ held' = [held EXCEPT ![t] = from] /\ wait_q' = wait_q
      /\ obj' = [obj EXCEPT !.tx = y]
      /\ th' = [u \in Threads |-> IF u = t THEN a ELSE IF u = m.src /\ m.async = NULL THEN b ELSE th[u]]
  BY DEF k_mbox_get
<1> HIDE DEF i
<1>6. /\ m \in T /\ m \in Messages /\ m.src \in Threads
      /\ y \in Seq(Messages) /\ IsInjective(y) /\ Range(y) = Less(T, m)
  <2>1. m \in T /\ m \in Messages
    BY <1>1, <1>4, RangeMembers
  <2>2. y \in Seq(Messages) /\ IsInjective(y) /\ Range(y) = T \ {m}
    BY <1>1, <1>4, RemoveAtElements, RemoveAtRange
  <2> QED BY <2>1, <2>2 DEF Messages, Less
<1> HIDE DEF y
<1>7. obj' \in MboxObj /\ obj'.tx = y /\ obj'.pool = obj.pool /\ obj'.open = obj.open
  BY <1>1, <1>5, <1>6 DEF MboxObj
<1> HIDE DEF m, T
<1>8. Known(Out, th, obj.pool)
  BY DEF MboxInv
<1>9. m.async = NULL => InTx(th[m.src]) /\ m.src # t
  <2> SUFFICES ASSUME m.async = NULL PROVE InTx(th[m.src]) /\ m.src # t
    OBVIOUS
  <2> DEFINE q == PlaceOf("tx", NULL, m)
  <2>1. q \in Places /\ q.at = "tx" /\ q.by = NULL /\ q.msg = m
    BY <1>6, PlaceIs
  <2> HIDE DEF q
  <2>2. q \in Out
    BY <1>6, <2>1 DEF Out, OutOf, T
  <2>3. InTx(th[m.src])
    BY <1>6, <1>8, <2>1, <2>2 DEF Known, Mine
  <2> QED BY <1>5, <2>3 DEF InTx, Runs
<1>10. /\ a \in ThreadType(MboxData) /\ a.st = "woken" /\ a.op = "get" /\ a.ret = "0" /\ a.data = m
  BY <1>6 DEF Running, ThreadType, States, Rets, Ops, MboxData
<1>11. b \in ThreadType(MboxData) /\ b.st = "sync" /\ b.op = th[m.src].op
  <2> DEFINE r0 == th[m.src]
  <2>1. r0 \in ThreadType(MboxData) /\ b = [r0 EXCEPT !.st = "sync", !.armed = FALSE]
    BY <1>1, <1>6
  <2>2. b.op = r0.op /\ b.st = "sync" /\ b \in ThreadType(MboxData)
    <3> HIDE DEF r0, b
    <3> QED BY <2>1 DEF ThreadType, States
  <2> QED BY <2>2
<1> HIDE DEF a, b
<1>12. /\ th'[t] = a
       /\ m.async = NULL => th'[m.src] = b
       /\ \A u \in Threads \ {t} : ~Mine(m, u) => th'[u] = th[u]
       /\ th' \in [Threads -> ThreadType(MboxData)]
  BY <1>1, <1>5, <1>6, <1>9, <1>10, <1>11 DEF Mine
<1>13. \A u \in Threads : u # t => th'[u] = th[u] \/ (u = m.src /\ m.async = NULL /\ th'[u] = b)
  BY <1>12 DEF Mine
<1>14. \A u \in Threads : u \in Range(wait_q) <=> th'[u].st = "pend" /\ th'[u].op = "get"
  <2> SUFFICES ASSUME NEW u \in Threads
               PROVE  u \in Range(wait_q) <=> th'[u].st = "pend" /\ th'[u].op = "get"
    OBVIOUS
  <2>1. CASE u = t
    BY <1>1, <1>5, <1>10, <1>12, <2>1 DEF Pends, Runs
  <2>2. CASE u # t /\ Mine(m, u)
    BY <1>1, <1>9, <1>11, <1>12, <2>2 DEF Pends, InTx, Mine
  <2>3. CASE u # t /\ ~Mine(m, u)
    BY <1>1, <1>12, <2>3 DEF Pends
  <2> QED BY <2>1, <2>2, <2>3
<1>15. WaitOK(th', wait_q', MboxData, {"get"})
  BY <1>1, <1>5, <1>12, <1>14 DEF WaitOK, Waits
<1>16. MboxType'
  BY <1>1, <1>5, <1>6, <1>7, <1>15 DEF MboxType
<1>17. MboxCalls'
  <2> SUFFICES ASSUME NEW u \in Threads PROVE MboxCall(th'[u], u, held'[u])
    BY DEF MboxCalls
  <2>1. MboxCall(th[u], u, held[u])
    BY DEF MboxInv, MboxCalls
  <2>2. CASE u = t
    <3>1. held'[t] = from
      BY <1>1, <1>5
    <3> QED BY <1>4, <1>6, <1>10, <1>12, <2>2, <3>1 DEF MboxCall, Matches, Got
  <2>3. CASE u # t
    <3>1. held'[u] = held[u]
      BY <1>1, <1>5, <2>3
    <3>2. CASE th'[u] = th[u]
      BY <2>1, <3>1, <3>2
    <3>3. CASE u = m.src /\ m.async = NULL /\ th'[u] = b
      BY <1>9, <1>11, <3>3 DEF MboxCall, InTx, Got
    <3> QED BY <1>13, <2>3, <3>2, <3>3
  <2> QED BY <2>2, <2>3
<1>18. MboxNobodyStranded'
  <2>1. \A u \in Range(wait_q) : th'[u] = th[u]
    <3> SUFFICES ASSUME NEW u \in Range(wait_q) PROVE th'[u] = th[u]
      OBVIOUS
    <3>1. u \in Threads /\ Pends(u) /\ th[u].op = "get"
      BY <1>1, RangeMembers
    <3>2. u # t /\ ~Mine(m, u)
      BY <1>5, <1>9, <3>1 DEF Runs, Pends, InTx, Mine
    <3> QED BY <1>12, <3>1, <3>2
  <2> QED BY <1>5, <1>6, <1>7, <2>1 DEF MboxInv, MboxNobodyStranded, Waiters, Less, T
<1>19. Known(Out, th, obj.pool)'
  <2> DEFINE S == obj.open
             U == Less(T, m)
             q == PlaceOf("tx", NULL, m)
             r == PlaceOf("got", t, m)
  <2>0. q.msg = m /\ r \in Places /\ r.msg = m /\ r.at = "got"
    BY <1>6, PlaceIs
  <2>1. Out = OutOf(T, th, S) /\ U = Less(T, m) /\ m \in T /\ m \in Messages
    BY <1>6 DEF Out, T
  <2> HIDE DEF S, U, q, r
  <2>2. \A u \in Threads : Got(th[u]) \/ Got(th[u]) => th[u] = th[u]
    OBVIOUS
  <2>3. /\ PlaceOf("tx", NULL, m) \in OutOf(T, th, S)
        /\ OutOf(U, th, S) = Less(OutOf(T, th, S), PlaceOf("tx", NULL, m))
    BY <2>1, <2>2, OutUntx
  <2>4. \A u \in Threads \ {t} : Got(th[u]) \/ Got(th'[u]) => th[u] = th'[u]
    <3> SUFFICES ASSUME NEW u \in Threads \ {t}, Got(th[u]) \/ Got(th'[u]) PROVE th[u] = th'[u]
      OBVIOUS
    <3>1. CASE Mine(m, u)
      BY <1>9, <1>11, <1>12, <3>1 DEF Got, Mine, InTx
    <3>2. CASE ~Mine(m, u)
      BY <1>12, <3>2
    <3> QED BY <3>1, <3>2
  <2>5. ~Got(th[t]) /\ Got(th'[t]) /\ th'[t].data = m
    BY <1>5, <1>10, <1>12 DEF Got, Runs
  <2>6. OutOf(U, th', S) = More(OutOf(U, th, S), PlaceOf("got", t, m))
    BY <1>6, <2>4, <2>5, OutGot
  <2>7. q \in Out /\ OutOf(U, th', S) = (Out \ {q}) \union {r}
    BY <2>1, <2>3, <2>6 DEF Less, More, q, r
  <2>8. Stand(th, th', m, "got")
    <3>1. \A u \in Threads : ~Mine(m, u) => Stands(th, th', u)
      <4>1. Stands(th, th', t)
        BY <1>5, <1>10, <1>12 DEF Stands, InTx, InSync, Runs
      <4> QED BY <1>12, <4>1 DEF Stands
    <3> QED BY <1>11, <1>12, <3>1 DEF Stand, InTx, InSync
  <2>9. Same(q.msg, r.msg)
    BY <2>0 DEF Same, q, r
  <2>10. Known((Out \ {q}) \union {r}, th', obj.pool)
    BY <1>1, <1>8, <2>0, <2>7, <2>8, <2>9, KnownMoved DEF q, r
  <2> QED BY <1>6, <1>7, <2>7, <2>10 DEF Out, S, U
<1> QED BY <1>16, <1>17, <1>18, <1>19 DEF MboxInv

\* The sender of a message that was received waits for it to be taken.
LEMMA SenderWaits ==
    ASSUME MboxInv, NEW p \in Out, p.at # "tx", p.msg.async = NULL
    PROVE  InSync(th[p.msg.src]) /\ p.msg.src \in Threads
<1>1. p.msg.src \in Threads
  BY MboxFacts DEF Places, Messages
<1>2. Known(Out, th, obj.pool) /\ Mine(p.msg, p.msg.src)
  BY DEF MboxInv, Mine
<1> QED BY <1>1, <1>2 DEF Known

\* The data of a message at p is taken and the message disposed of; f are the
\* threads with the caller's return done.
LEMMA TakenStep ==
    ASSUME MboxInv, NEW p \in Out, p.at # "tx", NEW f, WaitOK(f, wait_q, MboxData, {"get"}),
           \A t \in Threads : MboxCall(f[t], t, held'[t]),
           \A t \in Threads : Stands(th, f, t) /\ (f[t] = th[t] \/ (Woken(t) /\ f[t].st = "run")),
           held' \in [Threads -> Threads \union {NULL}], wait_q' = wait_q,
           th' = Dispose(p.msg, f),
           obj' \in MboxObj, obj'.tx = obj.tx, obj'.pool = DisposePool(p.msg), IsFiniteSet(obj'.open),
           \A g : (\A t \in Threads : Got(g[t]) \/ Got(f[t]) => g[t] = f[t]) =>
                     OutOf(Range(obj.tx), g, obj'.open) = Less(Out, p)
    PROVE  MboxInv'
<1> DEFINE m == p.msg
           b == WokenWith(m.src, "0", NULL)
<1>1. /\ WaitOK(th, wait_q, MboxData, {"get"})
      /\ th \in [Threads -> ThreadType(MboxData)] /\ wait_q \in Seq(Threads)
      /\ f \in [Threads -> ThreadType(MboxData)]
      /\ \A u \in Threads : u \in Range(wait_q) <=> Pends(u) /\ th[u].op = "get"
      /\ Out \in SUBSET Places /\ m.src \in Threads /\ m.async \in AsyncMsgs \union {NULL}
      /\ MboxType
  BY MboxFacts DEF MboxInv, WaitOK, Places, Messages
<1>2. m.async = NULL => InSync(th[m.src])
  BY SenderWaits
<1>3. m.async = NULL => f[m.src] = th[m.src]
  BY <1>1, <1>2 DEF InSync, Woken
<1>4. b \in ThreadType(MboxData) /\ b.st = "woken" /\ b.op = th[m.src].op
  <2> DEFINE r0 == th[m.src]
  <2>1. /\ r0 \in ThreadType(MboxData) /\ NULL \in MboxData
        /\ b = [r0 EXCEPT !.st = "woken", !.ret = "0", !.data = NULL, !.armed = FALSE]
    BY <1>1 DEF WokenWith, MboxData
  <2>2. b.op = r0.op /\ b.st = "woken" /\ b \in ThreadType(MboxData)
    <3> HIDE DEF r0, b
    <3> QED BY <2>1 DEF ThreadType, States, Rets
  <2> QED BY <2>2
<1>5. m.async = NULL => th[m.src].op \in {"put", "sync"}
  BY <1>1, <1>2 DEF MboxInv, MboxCalls, MboxCall, InSync
<1>6. th' = IF m.async # NULL THEN f ELSE [f EXCEPT ![m.src] = b]
  BY DEF Dispose
<1> HIDE DEF b, m
<1>7. /\ m.async = NULL => th'[m.src] = b
      /\ \A u \in Threads : ~Mine(m, u) => th'[u] = f[u]
  BY <1>1, <1>6 DEF Mine
<1>8. WaitOK(th', wait_q', MboxData, {"get"})
  <2>1. CASE m.async # NULL
    BY <1>6, <2>1
  <2>2. CASE m.async = NULL
    <3>1. ~Waits(f[m.src], {"get"}) /\ ~Waits(b, {"get"})
      BY <1>2, <1>3, <1>4, <2>2 DEF Waits, InSync
    <3>2. WaitOK([f EXCEPT ![m.src] = b], wait_q, MboxData, {"get"})
      BY <1>1, <1>4, <3>1, StayOK
    <3> QED BY <1>6, <2>2, <3>2
  <2> QED BY <2>1, <2>2
<1>9. MboxType'
  BY <1>1, <1>8 DEF MboxType
<1>10. MboxCalls'
  <2> SUFFICES ASSUME NEW t \in Threads PROVE MboxCall(th'[t], t, held'[t])
    BY DEF MboxCalls
  <2>1. CASE Mine(m, t)
    BY <1>4, <1>5, <1>7, <2>1 DEF MboxCall, Mine, Got
  <2>2. CASE ~Mine(m, t)
    BY <1>7, <2>2
  <2> QED BY <2>1, <2>2
<1>11. MboxNobodyStranded'
  <2>1. \A u \in Range(wait_q) : th'[u] = th[u]
    <3> SUFFICES ASSUME NEW u \in Range(wait_q) PROVE th'[u] = th[u]
      OBVIOUS
    <3>1. u \in Threads /\ Pends(u)
      BY <1>1, RangeMembers
    <3>2. ~Mine(m, u) /\ f[u] = th[u]
      BY <1>2, <3>1 DEF Pends, Woken, InSync, Mine
    <3> QED BY <1>7, <3>1, <3>2
  <2> QED BY <2>1 DEF MboxInv, MboxNobodyStranded, Waiters
<1>12. Known(Out, th, obj.pool)'
  <2>1. \A t \in Threads : Got(th'[t]) \/ Got(f[t]) => th'[t] = f[t]
    <3> SUFFICES ASSUME NEW t \in Threads, Got(th'[t]) \/ Got(f[t]) PROVE th'[t] = f[t]
      OBVIOUS
    <3>1. CASE Mine(m, t)
      BY <1>2, <1>3, <1>4, <1>5, <1>7, <3>1 DEF Got, Mine, InSync
    <3>2. CASE ~Mine(m, t)
      BY <1>7, <3>2
    <3> QED BY <3>1, <3>2
  <2> DEFINE g == th'
  <2>2. \A t \in Threads : Got(g[t]) \/ Got(f[t]) => g[t] = f[t]
    BY <2>1
  <2> HIDE DEF g
  <2>3. OutOf(Range(obj.tx), g, obj'.open) = Less(Out, p)
    BY <2>2
  <2>4. Stand(th, th', m, "none")
    <3>1. \A t \in Threads : ~Mine(m, t) => Stands(th, th', t)
      BY <1>7 DEF Stands
    <3> QED BY <1>4, <1>7, <3>1 DEF Stand, InTx, InSync
  <2>5. Pooled(obj.pool, obj'.pool, m, TRUE)
    BY MboxAssumption DEF Pooled, DisposePool, m
  <2>6. Known(Out, th, obj.pool)
    BY DEF MboxInv
  <2>7. Known(Out \ {p}, th', obj'.pool)
    BY <1>1, <2>4, <2>5, <2>6, KnownTaken DEF m
  <2> QED BY <2>3, <2>7 DEF Out, Less, g
<1> QED BY <1>9, <1>10, <1>11, <1>12 DEF MboxInv

\* The returned pool is one of descriptors.
LEMMA DisposePoolType ==
    ASSUME MboxInv, NEW m \in Messages
    PROVE  DisposePool(m) \in SUBSET AsyncMsgs
BY MboxFacts DEF DisposePool, Messages

\* mbox_message_data_check with the data taken.
LEMMA GetDataStep ==
    ASSUME MboxInv, NEW t \in Threads, GetData(t)
    PROVE  MboxInv'
<1> DEFINE m == th[t].data
           p == PlaceOf("got", t, m)
           f == [th EXCEPT ![t] = Running]
           T == Range(obj.tx)
           S == obj.open
<1>1. /\ WaitOK(th, wait_q, MboxData, {"get"}) /\ NULL \in MboxData
      /\ th \in [Threads -> ThreadType(MboxData)]
      /\ held \in [Threads -> Threads \union {NULL}]
      /\ obj \in MboxObj /\ IsFiniteSet(obj.open)
  BY MboxFacts DEF MboxInv, MboxType, MboxData
<1>2. /\ Woken(t) /\ Got(th[t]) /\ th' = Dispose(m, f) /\ wait_q' = wait_q
      /\ obj' = [obj EXCEPT !.pool = DisposePool(m)] /\ held' = [held EXCEPT ![t] = NULL]
  BY DEF GetData, Got, Woken
<1>3. m \in Messages
  BY <1>2 DEF MboxInv, MboxCalls, MboxCall
<1>4. p.msg = m /\ p.at = "got"
  BY <1>3, PlaceIs
<1> HIDE DEF m
<1>5. WaitOK(f, wait_q, MboxData, {"get"}) /\ f[t] = Running /\ \A u \in Threads \ {t} : f[u] = th[u]
  <2>1. ~Waits(th[t], {"get"})
    BY <1>2 DEF Waits, Woken
  <2>2. Running \in ThreadType(MboxData) /\ ~Waits(Running, {"get"})
    BY <1>1, RunningOK
  <2>3. WaitOK(f, wait_q, MboxData, {"get"})
    BY <1>1, <2>1, <2>2, StayOK
  <2> QED BY <1>1, <2>3
<1> HIDE DEF f
<1>6. \A u \in Threads : MboxCall(f[u], u, held'[u])
  <2> SUFFICES ASSUME NEW u \in Threads PROVE MboxCall(f[u], u, held'[u])
    OBVIOUS
  <2>1. CASE u = t
    BY <1>5, <2>1 DEF MboxCall, Running, Got
  <2>2. CASE u # t
    <3>1. held'[u] = held[u] /\ f[u] = th[u]
      BY <1>1, <1>2, <1>5, <2>2
    <3> QED BY <3>1 DEF MboxInv, MboxCalls
  <2> QED BY <2>1, <2>2
<1>7. \A u \in Threads : Stands(th, f, u) /\ (f[u] = th[u] \/ (Woken(u) /\ f[u].st = "run"))
  BY <1>2, <1>5 DEF Stands, InTx, InSync, Woken, Running
<1>8. DisposePool(m) \in SUBSET AsyncMsgs
  BY <1>3, DisposePoolType
<1>9. /\ obj' \in MboxObj /\ obj'.tx = obj.tx /\ obj'.pool = DisposePool(m) /\ obj'.open = S
      /\ IsFiniteSet(obj'.open)
  <2> DEFINE x == DisposePool(m)
  <2>1. x \in SUBSET AsyncMsgs /\ obj' = [obj EXCEPT !.pool = x]
    BY <1>2, <1>8
  <2>2. obj' \in MboxObj /\ obj'.tx = obj.tx /\ obj'.pool = x /\ obj'.open = S
    <3> HIDE DEF x
    <3> QED BY <1>1, <2>1 DEF MboxObj
  <2> QED BY <1>1, <2>2
<1>10. held' \in [Threads -> Threads \union {NULL}]
  BY <1>1, <1>2
<1> DEFINE old == th[t]
<1> HIDE DEF old, S, T, p
<1>11. ASSUME NEW g, \A u \in Threads : Got(g[u]) \/ Got(f[u]) => g[u] = f[u]
       PROVE  p \in OutOf(T, th, S) /\ OutOf(T, g, S) = Less(OutOf(T, th, S), p)
  <2>1. \A u \in Threads \ {t} : Got(th[u]) \/ Got(g[u]) => th[u] = g[u]
    BY <1>5, <1>11
  <2>2. Got(th[t]) /\ ~Got(g[t]) /\ th[t].data \in Messages
    <3>1. ~Got(Running)
      BY DEF Got, Running
    <3> QED BY <1>2, <1>3, <1>5, <1>11, <3>1 DEF m
  <2>3. PlaceOf("got", t, th[t].data) \in OutOf(T, th, S)
    BY <2>1, <2>2, OutUngot
  <2>4. OutOf(T, g, S) = Less(OutOf(T, th, S), PlaceOf("got", t, th[t].data))
    BY <2>1, <2>2, OutUngot
  <2> QED BY <2>3, <2>4 DEF p, m
<1>12. p \in Out
  <2>1. p \in OutOf(T, th, S)
    BY <1>11
  <2> QED BY <2>1 DEF Out, T, S
<1>13. \A g : (\A u \in Threads : Got(g[u]) \/ Got(f[u]) => g[u] = f[u]) =>
                     OutOf(Range(obj.tx), g, obj'.open) = Less(Out, p)
  BY <1>9, <1>11 DEF Out, T, S
<1>14. p.msg = m /\ p.at # "tx"
  BY <1>4
<1>15. th' = Dispose(p.msg, f) /\ obj'.pool = DisposePool(p.msg)
  BY <1>2, <1>9, <1>14
<1> QED BY <1>2, <1>5, <1>6, <1>7, <1>9, <1>10, <1>12, <1>13, <1>14, <1>15, TakenStep

\* k_mbox_data_get for a message that was left open.
LEMMA DataGetStep ==
    ASSUME MboxInv, NEW m \in obj.open, k_mbox_data_get(m)
    PROVE  MboxInv'
<1> DEFINE p == PlaceOf("open", NULL, m)
           T == Range(obj.tx)
           S == obj.open
           U == Less(S, m)
<1>1. /\ WaitOK(th, wait_q, MboxData, {"get"})
      /\ held \in [Threads -> Threads \union {NULL}]
      /\ obj \in MboxObj /\ IsFiniteSet(obj.open) /\ m \in Messages
  BY MboxFacts DEF MboxInv, MboxType
<1>2. /\ th' = Dispose(m, th) /\ wait_q' = wait_q /\ held' = held
      /\ obj' = [obj EXCEPT !.open = @ \ {m}, !.pool = DisposePool(m)]
  BY DEF k_mbox_data_get
<1>3. p.msg = m /\ p.at = "open"
  BY <1>1, PlaceIs
<1>4. DisposePool(m) \in SUBSET AsyncMsgs
  BY <1>1, DisposePoolType
<1>5. /\ obj' \in MboxObj /\ obj'.tx = obj.tx /\ obj'.pool = DisposePool(m) /\ obj'.open = U
  <2> DEFINE x == DisposePool(m)
  <2>1. /\ x \in SUBSET AsyncMsgs /\ U \in SUBSET Messages
        /\ obj' = [obj EXCEPT !.open = U, !.pool = x]
    BY <1>1, <1>2, <1>4 DEF Less, MboxObj
  <2>2. obj' \in MboxObj /\ obj'.tx = obj.tx /\ obj'.pool = x /\ obj'.open = U
    <3> HIDE DEF x, U
    <3> QED BY <1>1, <2>1 DEF MboxObj
  <2> QED BY <2>2
<1>6. IsFiniteSet(U)
  BY <1>1, FS_RemoveElement DEF Less
<1>7. U = Less(S, m) /\ m \in S
  OBVIOUS
<1> HIDE DEF U, S, T, p
<1>8. ASSUME NEW g, \A u \in Threads : Got(g[u]) \/ Got(th[u]) => g[u] = th[u]
      PROVE  p \in OutOf(T, th, S) /\ OutOf(T, g, U) = Less(OutOf(T, th, S), p)
  <2>1. \A u \in Threads : Got(th[u]) \/ Got(g[u]) => th[u] = g[u]
    BY <1>8
  <2>2. PlaceOf("open", NULL, m) \in OutOf(T, th, S)
    BY <1>1, <1>7, <2>1, OutTaken
  <2>3. OutOf(T, g, U) = Less(OutOf(T, th, S), PlaceOf("open", NULL, m))
    BY <1>1, <1>7, <2>1, OutTaken
  <2> QED BY <2>2, <2>3 DEF p
<1>9. p \in Out
  <2>1. p \in OutOf(T, th, S)
    BY <1>8
  <2> QED BY <2>1 DEF Out, T, S
<1>10. \A g : (\A u \in Threads : Got(g[u]) \/ Got(th[u]) => g[u] = th[u]) =>
                     OutOf(Range(obj.tx), g, obj'.open) = Less(Out, p)
  BY <1>5, <1>8 DEF Out, T, S
<1>11. /\ \A u \in Threads : MboxCall(th[u], u, held'[u])
       /\ \A u \in Threads : Stands(th, th, u) /\ (th[u] = th[u] \/ (Woken(u) /\ th[u].st = "run"))
  BY <1>2 DEF MboxInv, MboxCalls, Stands
<1>12. p.at # "tx" /\ th' = Dispose(p.msg, th) /\ obj'.pool = DisposePool(p.msg)
  BY <1>2, <1>3, <1>5
<1>13. held' \in [Threads -> Threads \union {NULL}] /\ IsFiniteSet(obj'.open)
  BY <1>1, <1>2, <1>5, <1>6
<1> QED BY <1>1, <1>2, <1>5, <1>9, <1>10, <1>11, <1>12, <1>13, TakenStep

\* k_mbox_get returns without having taken the data.
LEMMA GetOpenStep ==
    ASSUME MboxInv, NEW t \in Threads, GetOpen(t)
    PROVE  MboxInv'
<1> DEFINE m == th[t].data
           n == [m EXCEPT !.to = t]
           p == PlaceOf("got", t, m)
           r == PlaceOf("open", NULL, n)
           T == Range(obj.tx)
           S == obj.open
           U == More(S, n)
<1>1. /\ WaitOK(th, wait_q, MboxData, {"get"}) /\ NULL \in MboxData
      /\ th \in [Threads -> ThreadType(MboxData)] /\ wait_q \in Seq(Threads)
      /\ \A u \in Threads : u \in Range(wait_q) <=> Pends(u) /\ th[u].op = "get"
      /\ held \in [Threads -> Threads \union {NULL}]
      /\ obj \in MboxObj /\ IsFiniteSet(obj.open) /\ IsInjective(obj.tx) /\ Out \in SUBSET Places
  BY MboxFacts DEF MboxInv, MboxType, MboxData
<1>2. /\ Woken(t) /\ Got(th[t]) /\ th' = [th EXCEPT ![t] = Running] /\ wait_q' = wait_q
      /\ obj' = [obj EXCEPT !.open = @ \union {n}] /\ held' = [held EXCEPT ![t] = NULL]
  BY DEF GetOpen, Got, Woken
<1>3. m \in Messages
  BY <1>2 DEF MboxInv, MboxCalls, MboxCall
<1> HIDE DEF m
<1>4. n \in Messages /\ n.src = m.src /\ n.async = m.async
  BY <1>3 DEF Messages
<1>5. obj' \in MboxObj /\ obj'.tx = obj.tx /\ obj'.pool = obj.pool /\ obj'.open = U /\ IsFiniteSet(U)
  <2>1. U \in SUBSET Messages /\ obj' = [obj EXCEPT !.open = U] /\ IsFiniteSet(U)
    BY <1>1, <1>2, <1>4, FS_AddElement DEF More, MboxObj
  <2>2. obj' \in MboxObj /\ obj'.tx = obj.tx /\ obj'.pool = obj.pool /\ obj'.open = U
    <3> HIDE DEF U
    <3> QED BY <1>1, <2>1 DEF MboxObj
  <2> QED BY <2>1, <2>2
<1> HIDE DEF n
<1>6. /\ p.msg = m /\ p.at = "got" /\ r \in Places /\ r.msg = n /\ r.at = "open"
  BY <1>3, <1>4, PlaceIs
<1>7. OnlyChanged(t, Running) /\ WaitOK(th', wait_q', MboxData, {"get"})
  <2>1. ~Waits(th[t], {"get"})
    BY <1>2 DEF Waits, Woken
  <2> QED BY <1>1, <1>2, <2>1, ReturnOK
<1>8. MboxType'
  BY <1>1, <1>2, <1>5, <1>7 DEF MboxType
<1>9. MboxCalls'
  <2> SUFFICES ASSUME NEW u \in Threads PROVE MboxCall(th'[u], u, held'[u])
    BY DEF MboxCalls
  <2>1. CASE u = t
    BY <1>7, <2>1 DEF MboxCall, Running, Got, OnlyChanged
  <2>2. CASE u # t
    <3>1. held'[u] = held[u] /\ th'[u] = th[u]
      BY <1>1, <1>2, <1>7, <2>2 DEF OnlyChanged
    <3> QED BY <3>1 DEF MboxInv, MboxCalls
  <2> QED BY <2>1, <2>2
<1>10. MboxNobodyStranded'
  <2>1. \A u \in Range(wait_q) : th'[u] = th[u]
    BY <1>1, <1>2, <1>7, RangeMembers DEF Pends, Woken, OnlyChanged
  <2> QED BY <1>2, <1>5, <2>1 DEF MboxInv, MboxNobodyStranded, Waiters
<1>11. U = More(S, n)
  OBVIOUS
<1> HIDE DEF T, S, U, p, r
<1>12. p \in OutOf(T, th, S) /\ OutOf(T, th', S) = Less(OutOf(T, th, S), p)
  <2>1. \A u \in Threads \ {t} : Got(th[u]) \/ Got(th'[u]) => th[u] = th'[u]
    BY <1>7 DEF OnlyChanged
  <2>2. Got(th[t]) /\ ~Got(th'[t]) /\ th[t].data \in Messages
    BY <1>2, <1>3, <1>7 DEF Got, Running, OnlyChanged, m
  <2> DEFINE g == th'
  <2>3. /\ \A u \in Threads \ {t} : Got(th[u]) \/ Got(g[u]) => th[u] = g[u]
        /\ ~Got(g[t])
    BY <2>1, <2>2
  <2> HIDE DEF g
  <2>4. PlaceOf("got", t, th[t].data) \in OutOf(T, th, S)
    BY <2>2, <2>3, OutUngot
  <2>5. OutOf(T, g, S) = Less(OutOf(T, th, S), PlaceOf("got", t, th[t].data))
    BY <2>2, <2>3, OutUngot
  <2> QED BY <2>4, <2>5 DEF p, m, g
<1>13. OutOf(T, th', U) = More(OutOf(T, th', S), r)
  BY <1>4, <1>11, OutOpen DEF r
<1>14. p \in Out /\ OutOf(T, th', U) = (Out \ {p}) \union {r}
  BY <1>12, <1>13 DEF Out, T, S, Less, More
<1>15. Stand(th, th', n, "open")
  <2>1. Stands(th, th', t)
    BY <1>2, <1>7 DEF Stands, InTx, InSync, Woken, Running, OnlyChanged
  <2>2. \A u \in Threads : Stands(th, th', u)
    BY <1>7, <2>1 DEF Stands, OnlyChanged
  <2>3. n.async = NULL => InSync(th[n.src]) /\ n.src \in Threads
    BY <1>4, <1>6, <1>14, SenderWaits
  <2>4. n.async = NULL => InSync(th'[n.src]) /\ ~InTx(th'[n.src])
    BY <2>2, <2>3 DEF Stands, InSync, InTx
  <2> QED BY <2>2, <2>4 DEF Stand
<1>16. Known((Out \ {p}) \union {r}, th', obj.pool)
  <2>1. Same(p.msg, r.msg)
    BY <1>4, <1>6 DEF Same
  <2>2. Known(Out, th, obj.pool)
    BY DEF MboxInv
  <2> QED BY <1>1, <1>6, <1>14, <1>15, <2>1, <2>2, KnownMoved
<1>17. Known(Out, th, obj.pool)'
  BY <1>5, <1>14, <1>16 DEF Out, T
<1> QED BY <1>8, <1>9, <1>10, <1>17 DEF MboxInv

\* Every operation keeps the invariant.
LEMMA MboxStep ==
    ASSUME MboxInv, MboxNext
    PROVE  MboxInv'
<1>1. CASE \E m \in obj.open : k_mbox_data_get(m)
  BY <1>1, DataGetStep
<1>2. ASSUME NEW t \in Threads, PutTimeout(t) \/ GetData(t) \/ GetOpen(t) PROVE MboxInv'
  BY <1>2, PutTimeoutStep, GetDataStep, GetOpenStep
<1>3. ASSUME NEW t \in Threads, PutReturn(t) \/ GetTimedOut(t) \/ (th[t].op = "get" /\ Timeout(t))
      PROVE MboxInv'
  BY <1>3, MboxReturnStep
<1>4. ASSUME NEW t \in Threads, NEW u \in Threads \union {NULL}, k_mbox_get(t, u) PROVE MboxInv'
  BY <1>4, MboxGetWait, MboxGetTakes
<1>5. ASSUME NEW t \in Threads, NEW u \in Threads \union {NULL},
             k_mbox_put(t, u) \/ \E a \in AsyncMsgs : k_mbox_async_put(t, u, a)
      PROVE  MboxInv'
  BY <1>5, MboxSendStep
<1> QED BY <1>1, <1>2, <1>3, <1>4, <1>5 DEF MboxNext

\* The properties of a mailbox follow.
LEMMA MboxMeans ==
    ASSUME MboxInv
    PROVE  MboxContents /\ MboxNobodyStranded /\ MboxResults
<1> DEFINE T == Range(obj.tx)
           S == obj.open
           G == {t \in Threads : Woken(t) /\ th[t].op = "get" /\ th[t].ret = "0"}
           V == {th[t].data : t \in G}
           f == [t \in G |-> th[t].data]
<1>1. /\ obj.tx \in Seq(Messages) /\ IsInjective(obj.tx) /\ IsFiniteSet(S)
      /\ T \subseteq Messages /\ S \subseteq Messages /\ Out \in SUBSET Places
  BY MboxFacts
<1>2. /\ \A t \in Threads : t \in G <=> Got(th[t])
      /\ G \subseteq Threads /\ \A t \in G : th[t].data \in Messages
  BY DEF Got, Woken, MboxInv, MboxCalls, MboxCall
<1>3. Received = V
  BY DEF Received
<1> HIDE DEF G
<1>4. /\ \A m \in T : PlaceOf("tx", NULL, m) \in Out /\ PlaceOf("tx", NULL, m).msg = m /\ PlaceOf("tx", NULL, m).at = "tx"
      /\ \A m \in S : PlaceOf("open", NULL, m) \in Out /\ PlaceOf("open", NULL, m).msg = m /\ PlaceOf("open", NULL, m).at = "open"
  <2>1. \A m \in Messages : /\ PlaceOf("tx", NULL, m) \in Places /\ PlaceOf("tx", NULL, m).at = "tx"
                            /\ PlaceOf("tx", NULL, m).by = NULL /\ PlaceOf("tx", NULL, m).msg = m
    BY PlaceIs
  <2>2. \A m \in Messages : /\ PlaceOf("open", NULL, m) \in Places /\ PlaceOf("open", NULL, m).at = "open"
                            /\ PlaceOf("open", NULL, m).by = NULL /\ PlaceOf("open", NULL, m).msg = m
    BY PlaceIs
  <2>3. \A p \in Places : /\ p.at = "tx" /\ p.by = NULL /\ p.msg \in T => p \in Out
                          /\ p.at = "open" /\ p.by = NULL /\ p.msg \in S => p \in Out
    BY DEF Out, OutOf
  <2> HIDE DEF T, S
  <2> QED BY <1>1, <2>1, <2>2, <2>3
<1>5. \A t \in G : /\ PlaceOf("got", t, th[t].data) \in Out
                   /\ PlaceOf("got", t, th[t].data).msg = th[t].data
                   /\ PlaceOf("got", t, th[t].data).at = "got"
                   /\ PlaceOf("got", t, th[t].data).by = t
  <2> SUFFICES ASSUME NEW t \in G
               PROVE  /\ PlaceOf("got", t, th[t].data) \in Out
                      /\ PlaceOf("got", t, th[t].data).msg = th[t].data
                      /\ PlaceOf("got", t, th[t].data).at = "got"
                      /\ PlaceOf("got", t, th[t].data).by = t
    OBVIOUS
  <2> DEFINE q == PlaceOf("got", t, th[t].data)
  <2>1. q \in Places /\ q.at = "got" /\ q.by = t /\ q.msg = th[t].data /\ t \in Threads /\ Got(th[t])
    BY <1>2, PlaceIs
  <2> HIDE DEF q
  <2>2. q \in Out
    BY <2>1 DEF Out, OutOf
  <2> QED BY <2>1, <2>2 DEF q
<1>6. \A q \in Out : \/ q.at = "tx" /\ q.msg \in T
                     \/ q.at = "got" /\ q.by \in G /\ q.msg = th[q.by].data
                     \/ q.at = "open" /\ q.msg \in S
  BY <1>2 DEF Out, OutOf
<1>7. Known(Out, th, obj.pool)
  BY DEF MboxInv
<1>8. \A p, q \in Out : p.msg = q.msg => p = q
  BY <1>7 DEF Known, Same
<1>9. T \intersect V = {} /\ (T \union V) \intersect S = {}
  <2>1. ASSUME NEW m \in T, m \in V PROVE FALSE
    <3>1. PICK t \in G : m = th[t].data
      BY <2>1
    <3> QED BY <1>4, <1>5, <1>8, <3>1
  <2>2. ASSUME NEW m \in T, m \in S PROVE FALSE
    BY <1>4, <1>8, <2>2
  <2>3. ASSUME NEW m \in S, m \in V PROVE FALSE
    <3>1. PICK t \in G : m = th[t].data
      BY <2>3
    <3> QED BY <1>4, <1>5, <1>8, <3>1
  <2> QED BY <2>1, <2>2, <2>3
<1>10. \A t, u \in G : th[t].data = th[u].data => t = u
  BY <1>5, <1>8
<1>11. IsFiniteSet(G) /\ Cardinality(G) \in Nat
  BY <1>2, WaitQAssumption, FS_Subset, FS_CardinalityType
<1>12. IsFiniteSet(V) /\ Cardinality(V) = Cardinality(G)
  <2>1. f \in Bijection(G, V)
    BY <1>10 DEF Bijection, Injection, Surjection, IsInjective
  <2> HIDE DEF V, f
  <2> QED BY <1>11, <2>1, FS_Bijection DEF ExistsBijection
<1>13. IsFiniteSet(T) /\ Cardinality(T) = Len(obj.tx) /\ Len(obj.tx) \in Nat /\ Cardinality(S) \in Nat
  BY <1>1, RangeCount, LenProperties, FS_CardinalityType
<1> HIDE DEF T, V, S, f
<1>14. IsFiniteSet(T \union V) /\ Cardinality(T \union V) = Cardinality(T) + Cardinality(V)
  <2>1. /\ IsFiniteSet(T \union V)
        /\ Cardinality(T \union V) = Cardinality(T) + Cardinality(V) - Cardinality(T \intersect V)
    BY <1>12, <1>13, FS_Union
  <2>2. Cardinality(T \intersect V) = 0
    BY <1>9, FS_EmptySet
  <2> QED BY <1>11, <1>12, <1>13, <2>1, <2>2
<1>15. Cardinality(T \union V \union S) = Len(obj.tx) + Cardinality(S) + Cardinality(G)
  <2> DEFINE X == T \union V
  <2>1. IsFiniteSet(X) /\ Cardinality(X) = Len(obj.tx) + Cardinality(G) /\ X \intersect S = {}
    BY <1>9, <1>12, <1>13, <1>14
  <2> HIDE DEF X
  <2>2. Cardinality(X \union S) = Cardinality(X) + Cardinality(S) - Cardinality(X \intersect S)
    BY <1>1, <2>1, FS_Union
  <2>3. Cardinality(X \intersect S) = 0
    BY <2>1, FS_EmptySet
  <2> QED BY <1>11, <1>13, <2>1, <2>2, <2>3 DEF X
<1>16. ASSUME NEW t \in Threads
       PROVE  /\ (\E m \in T : m.src = t /\ m.async = NULL) <=> Pends(t) /\ th[t].op = "put"
              /\ (\E m \in V \union S : m.src = t /\ m.async = NULL) <=> th[t].st = "sync"
  <2>1. (\E m \in T : m.src = t /\ m.async = NULL) <=> (\E p \in Out : p.at = "tx" /\ Mine(p.msg, t))
    BY <1>4, <1>6 DEF Mine
  <2>2. (\E m \in V \union S : m.src = t /\ m.async = NULL) <=> (\E p \in Out : p.at # "tx" /\ Mine(p.msg, t))
    <3>1. ASSUME NEW m \in V \union S, m.src = t, m.async = NULL
          PROVE  \E p \in Out : p.at # "tx" /\ Mine(p.msg, t)
      <4>1. CASE m \in S
        BY <1>4, <3>1, <4>1 DEF Mine
      <4>2. CASE m \in V
        <5>1. PICK u \in G : m = th[u].data
          BY <4>2 DEF V
        <5> QED BY <1>5, <3>1, <5>1 DEF Mine
      <4> QED BY <4>1, <4>2
    <3>2. ASSUME NEW p \in Out, p.at # "tx", Mine(p.msg, t)
          PROVE  \E m \in V \union S : m.src = t /\ m.async = NULL
      <4>1. p.msg \in V \union S
        BY <1>6, <3>2 DEF V
      <4> QED BY <3>2, <4>1 DEF Mine
    <3> QED BY <3>1, <3>2
  <2> QED BY <1>7, <2>1, <2>2 DEF Known, InTx, InSync, Pends
<1>17. ASSUME NEW a \in AsyncMsgs
       PROVE  a \in obj.pool <=> \A m \in T \union V \union S : m.async # a
  <2>1. ASSUME \A p \in Out : p.msg.async # a PROVE \A m \in T \union V \union S : m.async # a
    <3>1. \A m \in T : m.async # a
      BY <1>4, <2>1
    <3>2. \A m \in S : m.async # a
      BY <1>4, <2>1
    <3>3. \A u \in G : th[u].data.async # a
      BY <1>5, <2>1
    <3> QED BY <3>1, <3>2, <3>3 DEF V
  <2>2. ASSUME \A m \in T \union V \union S : m.async # a PROVE \A p \in Out : p.msg.async # a
    <3>1. \A p \in Out : p.msg \in T \union V \union S
      BY <1>6 DEF V
    <3> QED BY <2>2, <3>1
  <2>3. a \in obj.pool <=> \A p \in Out : p.msg.async # a
    BY <1>7 DEF Known
  <2> QED BY <2>1, <2>2, <2>3
<1>18. MboxContents
  <2>1. Outstanding = T \union V \union S
    BY <1>3 DEF Outstanding, T, S
  <2> QED BY <1>1, <1>3, <1>15, <1>16, <1>17, <2>1 DEF MboxContents, T, S, G
<1>19. MboxResults
  BY DEF MboxInv, MboxCalls, MboxCall, MboxResults, Got, Woken
<1> QED BY <1>18, <1>19 DEF MboxInv

-----------------------------------------------------------------------------
(* Polling. *)

PollData == [events : EventArrays, next : 1..3, registered : 0..2, ready : SUBSET (1..2),
             cancelled : SUBSET (1..2), is_polling : BOOLEAN]
PollEvents == [thread : Threads, index : 1..2]
PollObj == [met : [PollObjects -> BOOLEAN], events : [PollObjects -> Seq(PollEvents)]]

\* A thread that is told when an event it has registered comes.
Listens(r) == r.st = "pend" \/ (r.st = "register" /\ r.data.is_polling)

\* What a thread that is told to stop has.
Told(d) == d.ready \union d.cancelled # {}
PollEnd(r) ==
    /\ r.op = "wait" /\ r.ret = "0" => r.data.ready # {}
    /\ r.op = "wait" /\ r.ret = "EINTR" => r.data.cancelled # {}
    /\ r.op = "poll" => r.ret = "0" /\ Told(r.data)

\* A thread in k_poll: as long as it polls it has registered all events so far,
\* and it stops because one is ready or cancelled.
PollCall(r) ==
    /\ r.st = "run" => r.ret = "0"
    /\ r.st # "run" => r.data \in PollData
    /\ r.st = "register" =>
          /\ r.op = "poll" /\ r.ret = "0"
          /\ IF r.data.is_polling THEN r.data.registered = r.data.next - 1 ELSE Told(r.data)
    /\ r.st = "pend" => r.op = "wait" /\ r.ret = "EAGAIN" /\ r.data.registered = 2
    /\ r.st = "woken" => PollEnd(r)

\* An event in the list of o is one that its thread has registered.
PollListed(e, o) ==
    /\ th[e.thread].st # "run" /\ e.index <= th[e.thread].data.registered
    /\ th[e.thread].data.events[e.index] = o
PollLists == \A o \in PollObjects : \A e \in Range(obj.events[o]) : PollListed(e, o)

\* The i-th event of a thread is in its list, and if its condition is met then
\* another poller was told.
PollTold(t, i) ==
    LET o == th[t].data.events[i]
    IN  Event(t, i) \in Range(obj.events[o]) /\ (obj.met[o] => held[o] \ {t} # {})
PollListeners ==
    \A t \in Threads : Listens(th[t]) => \A i \in 1..2 : i <= th[t].data.registered => PollTold(t, i)

PollType ==
    /\ WaitOK(th, wait_q, PollData \union {NULL}, Ops)
    /\ obj \in PollObj /\ \A o \in PollObjects : IsInjective(obj.events[o])
    /\ held \in [PollObjects -> SUBSET Threads]

PollInv ==
    /\ PollType
    /\ \A t \in Threads : PollCall(th[t])
    /\ PollLists /\ PollListeners

\* An array of events is a sequence of two.
LEMMA ArrayFacts ==
    ASSUME NEW s \in EventArrays
    PROVE  s \in Seq(PollObjects) /\ Len(s) = 2 /\ \A i \in 1..2 : s[i] \in PollObjects
<1>1. s \in [1..2 -> PollObjects] /\ 2 \in Nat
  BY DEF EventArrays
<1> QED BY <1>1, FunctionIsSeq

\* An event is inserted somewhere in a list.
LEMMA InsertEventFacts ==
    ASSUME NEW s \in Seq(PollEvents), NEW e \in PollEvents
    PROVE  /\ InsertEvent(s, e) \in Seq(PollEvents)
           /\ Range(InsertEvent(s, e)) = Range(s) \union {e}
           /\ IsInjective(s) /\ e \notin Range(s) => IsInjective(InsertEvent(s, e))
<1> DEFINE worse == {i \in 1..Len(s) : Prio[e.thread] < Prio[s[i].thread]}
           place == IF worse = {} THEN Len(s) + 1 ELSE Min(worse)
<1>1. Len(s) \in Nat /\ worse \in SUBSET (1..Len(s))
  BY LenProperties
<1>2. place \in 1..(Len(s) + 1)
  BY <1>1, PlaceFacts
<1>3. InsertEvent(s, e) = InsertAt(s, place, e)
  BY DEF InsertEvent
<1> HIDE DEF place
<1> QED BY <1>2, <1>3, InsertAtElements, InsertAtRange

\* What the invariant says of a state.
LEMMA PollFacts ==
    ASSUME PollInv
    PROVE  /\ WaitOK(th, wait_q, PollData \union {NULL}, Ops)
           /\ th \in [Threads -> ThreadType(PollData \union {NULL})] /\ wait_q \in Seq(Threads)
           /\ \A t \in Threads : t \in Range(wait_q) <=> Pends(t)
           /\ \A t \in Threads : th[t].st # "run" => th[t].data \in PollData
           /\ obj \in PollObj /\ obj.met \in [PollObjects -> BOOLEAN]
           /\ obj.events \in [PollObjects -> Seq(PollEvents)]
           /\ held \in [PollObjects -> SUBSET Threads]
           /\ \A o \in PollObjects : /\ obj.events[o] \in Seq(PollEvents) /\ IsInjective(obj.events[o])
                                     /\ Range(obj.events[o]) \subseteq PollEvents
<1>1. PollType
  BY DEF PollInv
<1>2. /\ th \in [Threads -> ThreadType(PollData \union {NULL})] /\ wait_q \in Seq(Threads)
      /\ \A t \in Threads : t \in Range(wait_q) <=> Pends(t)
  BY <1>1 DEF PollType, WaitOK, Waits, Pends, ThreadType
<1>3. obj.events \in [PollObjects -> Seq(PollEvents)] /\ obj.met \in [PollObjects -> BOOLEAN]
  BY <1>1 DEF PollType, PollObj
<1> QED BY <1>1, <1>2, <1>3, RangeMembers DEF PollType, PollInv, PollCall

\* The properties of polling follow.
LEMMA PollMeans ==
    ASSUME PollInv
    PROVE  PollContents /\ PollNobodyStranded /\ PollResults
<1>1. PollContents
  <2> SUFFICES ASSUME NEW o \in PollObjects, NEW i \in 1..Len(obj.events[o])
               PROVE  PollListed(obj.events[o][i], o)
    BY DEF PollContents, PollListed, Runs
  <2>1. obj.events[o][i] \in Range(obj.events[o])
    BY PollFacts, RangeMembers
  <2> QED BY <2>1 DEF PollInv, PollLists
<1>2. PollNobodyStranded
  <2> SUFFICES ASSUME NEW t \in Range(wait_q), NEW i \in 1..Len(th[t].data.events)
               PROVE  obj.met[th[t].data.events[i]] => held[th[t].data.events[i]] \ {t} # {}
    BY DEF PollNobodyStranded, Waiters
  <2>1. t \in Threads /\ th[t].st = "pend"
    BY PollFacts, RangeMembers DEF Pends
  <2>2. th[t].data \in PollData
    BY <2>1, PollFacts
  <2>3. i \in 1..2
    BY <2>2, ArrayFacts DEF PollData
  <2>4. th[t].data.registered = 2 /\ Listens(th[t])
    BY <2>1 DEF PollInv, PollCall, Listens
  <2>5. PollTold(t, i)
    BY <2>1, <2>3, <2>4 DEF PollInv, PollListeners
  <2> QED BY <2>5 DEF PollTold
<1>3. PollResults
  BY DEF PollInv, PollCall, PollEnd, Told, PollResults, Woken
<1> QED BY <1>1, <1>2, <1>3

\* At first no event is registered.
LEMMA PollStart ==
    PollInit => PollInv
<1> SUFFICES ASSUME PollInit PROVE PollInv
  OBVIOUS
<1>1. WaitOK(th, wait_q, PollData \union {NULL}, Ops)
  BY RunningOK DEF PollInit
<1>2. \A t \in Threads : th[t].st = "run" /\ th[t].ret = "0"
  BY DEF PollInit, WaitInit, Running
<1>3. /\ obj = [met |-> [o \in PollObjects |-> FALSE], events |-> [o \in PollObjects |-> <<>>]]
      /\ held = [o \in PollObjects |-> {}]
  BY DEF PollInit
<1>4. <<>> \in Seq(PollEvents) /\ IsInjective(<<>>) /\ Range(<<>>) = {}
  BY EmptyRange
<1>5. PollType
  BY <1>1, <1>3, <1>4 DEF PollType, PollObj
<1>6. PollLists /\ PollListeners
  BY <1>2, <1>3, <1>4 DEF PollLists, PollListeners, Listens
<1> QED BY <1>2, <1>5, <1>6 DEF PollInv, PollCall

\* What a thread has registered, and whether it listens, stays.
Keeps(r, s) ==
    /\ r.st # "run" /\ s.st # "run"
    /\ s.data.events = r.data.events /\ s.data.registered = r.data.registered
    /\ Listens(s) => Listens(r)

\* A step of one thread that leaves the lists alone: what it has registered stays,
\* or it has nothing in the lists.
LEMMA PollQuiet ==
    ASSUME PollInv, NEW t \in Threads, obj' = obj, held' = held,
           WaitOK(th', wait_q', PollData \union {NULL}, Ops),
           \A u \in Threads \ {t} : th'[u] = th[u], PollCall(th'[t]),
           \/ Keeps(th[t], th'[t])
           \/ /\ \A o \in PollObjects : \A e \in Range(obj.events[o]) : e.thread # t
              /\ Listens(th'[t]) => th'[t].data.registered = 0
    PROVE  PollInv'
<1>1. /\ \A o \in PollObjects : \A e \in Range(obj.events[o]) : e \in PollEvents
      /\ PollType
  BY PollFacts DEF PollInv
<1>2. PollType'
  BY <1>1 DEF PollType
<1>3. \A u \in Threads : PollCall(th'[u])
  BY DEF PollInv
<1>4. PollLists'
  <2> SUFFICES ASSUME NEW o \in PollObjects, NEW e \in Range(obj.events[o])
               PROVE  PollListed(e, o)'
    BY DEF PollLists
  <2>1. PollListed(e, o) /\ e.thread \in Threads
    BY <1>1 DEF PollInv, PollLists, PollEvents
  <2>2. CASE e.thread # t
    BY <2>1, <2>2 DEF PollListed
  <2>3. CASE e.thread = t
    BY <2>1, <2>3 DEF PollListed, Keeps
  <2> QED BY <2>2, <2>3
<1>5. PollListeners'
  <2> SUFFICES ASSUME NEW u \in Threads, Listens(th'[u]), NEW i \in 1..2, i <= th'[u].data.registered
               PROVE  PollTold(u, i)'
    BY DEF PollListeners
  <2>1. CASE u # t
    BY <2>1 DEF PollInv, PollListeners, PollTold
  <2>2. CASE u = t
    <3>1. Keeps(th[t], th'[t])
      BY <2>2
    <3>2. PollTold(t, i)
      BY <2>2, <3>1 DEF PollInv, PollListeners, Keeps
    <3> QED BY <2>2, <3>1, <3>2 DEF PollTold, Keeps
  <2> QED BY <2>1, <2>2
<1> QED BY <1>2, <1>3, <1>4, <1>5 DEF PollInv

\* k_poll starts, returns, or comes to wait, and its timeout.
LEMMA PollCallStep ==
    ASSUME PollInv, NEW t \in Threads,
           \/ \E events \in EventArrays : k_poll(t, events)
           \/ PollWait(t) \/ PollReturn(t) \/ Timeout(t)
    PROVE  PollInv'
<1> DEFINE D == PollData \union {NULL}
<1>1. /\ WaitOK(th, wait_q, D, Ops) /\ NULL \in D
      /\ th \in [Threads -> ThreadType(D)] /\ wait_q \in Seq(Threads)
      /\ \A u \in Threads : u \in Range(wait_q) <=> Pends(u)
      /\ \A u \in Threads : th[u].st # "run" => th[u].data \in PollData
      /\ \A o \in PollObjects : \A e \in Range(obj.events[o]) : PollListed(e, o)
      /\ PollCall(th[t])
  BY PollFacts DEF PollInv, PollLists
<1>2. CASE \E events \in EventArrays : k_poll(t, events)
  <2>1. PICK events \in EventArrays : k_poll(t, events)
    BY <1>2
  <2> DEFINE d == [events |-> events, next |-> 1, registered |-> 0, ready |-> {},
                   cancelled |-> {}, is_polling |-> TRUE]
             r0 == th[t]
             r == [r0 EXCEPT !.st = "register", !.op = "poll", !.data = d]
  <2>2. /\ Runs(t) /\ obj' = obj /\ held' = held /\ wait_q' = wait_q /\ r0 \in ThreadType(D)
        /\ th' = [th EXCEPT ![t] = r]
    BY <1>1, <2>1 DEF k_poll
  <2>3. d \in PollData /\ d.registered = 0 /\ d.is_polling /\ d.next = 1
    BY DEF PollData
  <2> HIDE DEF d, r0
  <2>4. r \in ThreadType(D) /\ r.st = "register" /\ r.data = d /\ r.op = "poll" /\ r.ret = r0.ret
    BY <2>2, <2>3 DEF ThreadType, States, Ops
  <2> HIDE DEF r
  <2>5. PollCall(r)
    BY <1>1, <2>2, <2>3, <2>4 DEF PollCall, Runs, r0
  <2>6. ~Waits(th[t], Ops) /\ ~Waits(r, Ops)
    BY <2>2, <2>4 DEF Waits, Runs
  <2>7. WaitOK([th EXCEPT ![t] = r], wait_q, D, Ops)
    <3> HIDE DEF D
    <3> QED BY <1>1, <2>4, <2>6, StayOK
  <2>8. th'[t] = r /\ \A u \in Threads \ {t} : th'[u] = th[u]
    BY <1>1, <2>2
  <2>9. \A o \in PollObjects : \A e \in Range(obj.events[o]) : e.thread # t
    BY <1>1, <2>2 DEF PollListed, Runs
  <2>10. WaitOK(th', wait_q', D, Ops)
    BY <2>2, <2>7
  <2> QED BY <2>2, <2>3, <2>4, <2>5, <2>8, <2>9, <2>10, PollQuiet
<1>3. CASE PollReturn(t)
  <2>1. /\ Woken(t) /\ th[t].data.registered = 0 /\ th' = [th EXCEPT ![t] = Running]
        /\ wait_q' = wait_q /\ obj' = obj /\ held' = held
    BY <1>3 DEF PollReturn
  <2>2. ~Waits(th[t], Ops)
    BY <2>1 DEF Waits, Woken
  <2>3. OnlyChanged(t, Running) /\ WaitOK(th', wait_q', D, Ops)
    <3> HIDE DEF D
    <3> QED BY <1>1, <2>1, <2>2, ReturnOK
  <2>4. \A o \in PollObjects : \A e \in Range(obj.events[o]) : e.thread # t
    <3> SUFFICES ASSUME NEW o \in PollObjects, NEW e \in Range(obj.events[o]), e.thread = t PROVE FALSE
      OBVIOUS
    <3>1. e.index \in 1..2
      BY PollFacts DEF PollEvents
    <3>2. e.index <= 0
      BY <1>1, <2>1 DEF PollListed
    <3> QED BY <3>1, <3>2
  <2>5. PollCall(th'[t]) /\ ~Listens(th'[t]) /\ \A u \in Threads \ {t} : th'[u] = th[u]
    BY <2>3 DEF OnlyChanged, Running, PollCall, Listens
  <2> QED BY <2>1, <2>3, <2>4, <2>5, PollQuiet
<1>4. CASE Timeout(t)
  <2>1. th[t].op \in Ops
    BY <1>1 DEF ThreadType
  <2>2. /\ th'[t].st = "woken" /\ th'[t].op = th[t].op
        /\ th'[t].data = th[t].data /\ th'[t].ret = th[t].ret
        /\ \A u \in Threads \ {t} : th'[u] = th[u]
        /\ obj' = obj /\ held' = held
        /\ Pends(t)
        /\ WaitOK(th', wait_q', D, Ops)
    <3> HIDE DEF D
    <3> QED BY <1>1, <1>4, <2>1, TimeoutOK
  <2>3. PollCall(th'[t]) /\ Keeps(th[t], th'[t])
    BY <1>1, <2>2 DEF PollCall, PollEnd, Keeps, Pends, Listens
  <2> QED BY <2>2, <2>3, PollQuiet
<1>5. CASE PollWait(t)
  <2> DEFINE d == th[t].data
  <2>1. th[t].st = "register" /\ d.next > Len(d.events) /\ obj' = obj /\ held' = held /\ d \in PollData
    BY <1>1, <1>5 DEF PollWait
  <2>2. d.next = 3 /\ d.registered \in 0..2
    <3>1. Len(d.events) = 2
      BY <2>1, ArrayFacts DEF PollData
    <3>2. d.next \in 1..3 /\ d.registered \in 0..2
      BY <2>1 DEF PollData
    <3> QED BY <2>1, <3>1, <3>2
  <2>3. CASE ~d.is_polling
    <3> DEFINE r0 == th[t]
               r == [r0 EXCEPT !.st = "woken"]
    <3>1. r0 \in ThreadType(D) /\ th' = [th EXCEPT ![t] = r] /\ wait_q' = wait_q
      BY <1>1, <1>5, <2>3 DEF PollWait
    <3>2. r \in ThreadType(D) /\ r.st = "woken" /\ r.data = r0.data /\ r.op = r0.op /\ r.ret = r0.ret
      <4> HIDE DEF r0, D
      <4> QED BY <3>1 DEF ThreadType, States
    <3>3. ~Waits(th[t], Ops) /\ ~Waits(r, Ops)
      BY <2>1, <3>2 DEF Waits
    <3> HIDE DEF r
    <3>4. WaitOK([th EXCEPT ![t] = r], wait_q, D, Ops)
      <4> HIDE DEF D, r0
      <4> QED BY <1>1, <3>2, <3>3, StayOK
    <3>5. th'[t] = r /\ \A u \in Threads \ {t} : th'[u] = th[u]
      BY <1>1, <3>1
    <3>6. PollCall(th'[t]) /\ Keeps(th[t], th'[t])
      BY <1>1, <2>1, <2>3, <3>2, <3>5 DEF PollCall, PollEnd, Keeps, Listens
    <3>7. WaitOK(th', wait_q', D, Ops)
      BY <3>1, <3>4
    <3> QED BY <2>1, <3>5, <3>6, <3>7, PollQuiet
  <2>4. CASE d.is_polling
    <3> DEFINE n == [d EXCEPT !.is_polling = FALSE]
               r == Pended("wait", n, TRUE)
    <3>1. th' = [th EXCEPT ![t] = r] /\ wait_q' = InsertByPrio(wait_q, t)
      BY <1>5, <2>4 DEF PollWait
    <3>2. n \in PollData /\ n.events = d.events /\ n.registered = d.registered
      <4> HIDE DEF d
      <4> QED BY <2>1 DEF PollData
    <3>3. d.registered = 2
      BY <1>1, <2>1, <2>2, <2>4 DEF PollCall
    <3> HIDE DEF n
    <3>4. r \in ThreadType(D) /\ r.st = "pend" /\ r.op = "wait" /\ r.data = n /\ r.ret = "EAGAIN"
      BY <3>2 DEF Pended, ThreadType, States, Ops, Rets
    <3> HIDE DEF r
    <3>5. ~Waits(th[t], Ops) /\ Waits(r, Ops)
      BY <2>1, <3>4 DEF Waits, Ops
    <3>6. WaitOK([th EXCEPT ![t] = r], InsertByPrio(wait_q, t), D, Ops)
      <4> HIDE DEF D
      <4> QED BY <1>1, <3>4, <3>5, PendOK
    <3>7. th'[t] = r /\ \A u \in Threads \ {t} : th'[u] = th[u]
      BY <1>1, <3>1
    <3>8. PollCall(th'[t]) /\ Keeps(th[t], th'[t])
      BY <2>1, <2>4, <3>2, <3>3, <3>4, <3>7 DEF PollCall, Keeps, Listens
    <3>9. WaitOK(th', wait_q', D, Ops)
      BY <3>1, <3>6
    <3> QED BY <2>1, <3>7, <3>8, <3>9, PollQuiet
  <2> QED BY <2>3, <2>4
<1> QED BY <1>2, <1>3, <1>4, <1>5

\* One turn of register_events without a registration.
LEMMA PollSkipStep ==
    ASSUME PollInv, NEW t \in Threads, RegisterEvent(t),
           obj.met[th[t].data.events[th[t].data.next]] \/ ~th[t].data.is_polling
    PROVE  PollInv'
<1> DEFINE D == PollData \union {NULL}
           d == th[t].data
           o == d.events[d.next]
<1>1. /\ WaitOK(th, wait_q, D, Ops)
      /\ th \in [Threads -> ThreadType(D)]
      /\ \A u \in Threads : th[u].st # "run" => th[u].data \in PollData
      /\ PollCall(th[t])
  BY PollFacts DEF PollInv
<1>2. /\ th[t].st = "register" /\ d.next <= Len(d.events) /\ held' = held /\ wait_q' = wait_q
      /\ d \in PollData /\ obj' = obj
  BY <1>1 DEF RegisterEvent
<1>3. d.next \in 1..2 /\ o \in PollObjects /\ d.events \in EventArrays
  <2>1. d.events \in EventArrays /\ d.next \in 1..3
    BY <1>2 DEF PollData
  <2>2. Len(d.events) = 2 /\ \A i \in 1..2 : d.events[i] \in PollObjects
    BY <2>1, ArrayFacts
  <2> QED BY <1>2, <2>1, <2>2
<1>4. \E n \in PollData :
         /\ th' = [th EXCEPT ![t] = [th[t] EXCEPT !.data = n]]
         /\ n.events = d.events /\ n.registered = d.registered /\ ~n.is_polling /\ Told(n)
  <2>1. CASE obj.met[o]
    <3> DEFINE n == [d EXCEPT !.ready = @ \union {d.next}, !.is_polling = FALSE, !.next = @ + 1]
    <3>1. th' = [th EXCEPT ![t] = [th[t] EXCEPT !.data = n]]
      BY <1>1, <2>1 DEF RegisterEvent, ThreadType
    <3>2. /\ n \in PollData /\ n.events = d.events /\ n.registered = d.registered
          /\ n.is_polling = FALSE /\ Told(n)
      <4> DEFINE x == d.ready \union {d.next}
                 y == d.next + 1
      <4>1. x \in SUBSET (1..2) /\ x # {} /\ y \in 1..3
        <5>1. d.ready \in SUBSET (1..2)
          <6> HIDE DEF d
          <6> QED BY <1>2 DEF PollData
        <5> QED BY <1>3, <5>1
      <4>2. n = [d EXCEPT !.ready = x, !.is_polling = FALSE, !.next = y]
        BY <1>2 DEF PollData
      <4> HIDE DEF x, y, d, n
      <4>3. n \in PollData /\ n.events = d.events /\ n.registered = d.registered
            /\ n.is_polling = FALSE /\ n.ready = x
        BY <1>2, <4>1, <4>2 DEF PollData
      <4> QED BY <4>1, <4>3 DEF Told
    <3> QED BY <3>1, <3>2
  <2>3. CASE ~obj.met[o] /\ ~d.is_polling
    <3> DEFINE n == [d EXCEPT !.next = @ + 1]
    <3>1. th' = [th EXCEPT ![t] = [th[t] EXCEPT !.data = n]]
      BY <1>1, <2>3 DEF RegisterEvent, ThreadType
    <3>2. Told(d)
      BY <1>1, <1>2, <2>3 DEF PollCall
    <3>3. /\ n \in PollData /\ n.events = d.events /\ n.registered = d.registered
          /\ n.is_polling = d.is_polling /\ n.ready = d.ready /\ n.cancelled = d.cancelled
      <4> DEFINE y == d.next + 1
      <4>1. y \in 1..3
        BY <1>3
      <4>2. n = [d EXCEPT !.next = y]
        BY <1>2 DEF PollData
      <4> HIDE DEF y, d, n
      <4> QED BY <1>2, <4>1, <4>2 DEF PollData
    <3> QED BY <2>3, <3>1, <3>2, <3>3 DEF Told
  <2> QED BY <2>1, <2>3
<1>5. PICK n \in PollData :
         /\ th' = [th EXCEPT ![t] = [th[t] EXCEPT !.data = n]]
         /\ n.events = d.events /\ n.registered = d.registered /\ ~n.is_polling /\ Told(n)
  BY <1>4
<1> DEFINE r0 == th[t]
           r == [r0 EXCEPT !.data = n]
<1>6. r0 \in ThreadType(D) /\ n \in D /\ r0.st = "register" /\ th' = [th EXCEPT ![t] = r]
  BY <1>1, <1>2, <1>5
<1>7. r \in ThreadType(D) /\ r.st = "register" /\ r.data = n /\ r.op = r0.op /\ r.ret = r0.ret
  <2> HIDE DEF r0, D
  <2> QED BY <1>6 DEF ThreadType
<1> HIDE DEF r
<1>8. ~Waits(th[t], Ops) /\ ~Waits(r, Ops)
  BY <1>2, <1>7 DEF Waits
<1>9. WaitOK([th EXCEPT ![t] = r], wait_q, D, Ops)
  <2> HIDE DEF D, r0
  <2> QED BY <1>1, <1>7, <1>8, StayOK
<1>10. th'[t] = r /\ \A u \in Threads \ {t} : th'[u] = th[u]
  BY <1>1, <1>6
<1>11. PollCall(th'[t]) /\ Keeps(th[t], th'[t])
  BY <1>1, <1>2, <1>5, <1>7, <1>10 DEF PollCall, Keeps, Listens
<1>12. WaitOK(th', wait_q', D, Ops)
  BY <1>2, <1>6, <1>9
<1> QED BY <1>2, <1>10, <1>11, <1>12, PollQuiet

\* One turn of register_events with a registration.
LEMMA PollRegisterStep ==
    ASSUME PollInv, NEW t \in Threads, RegisterEvent(t),
           ~obj.met[th[t].data.events[th[t].data.next]], th[t].data.is_polling
    PROVE  PollInv'
<1> DEFINE D == PollData \union {NULL}
           d == th[t].data
           o == d.events[d.next]
           s == obj.events[o]
           e == Event(t, d.next)
           z == InsertEvent(s, e)
           n == [d EXCEPT !.registered = @ + 1, !.next = @ + 1]
           r0 == th[t]
           r == [r0 EXCEPT !.data = n]
<1>1. /\ WaitOK(th, wait_q, D, Ops)
      /\ th \in [Threads -> ThreadType(D)]
      /\ \A u \in Threads : th[u].st # "run" => th[u].data \in PollData
      /\ PollCall(th[t]) /\ obj \in PollObj
      /\ obj.events \in [PollObjects -> Seq(PollEvents)] /\ held \in [PollObjects -> SUBSET Threads]
      /\ \A x \in PollObjects : /\ obj.events[x] \in Seq(PollEvents) /\ IsInjective(obj.events[x])
                                /\ Range(obj.events[x]) \subseteq PollEvents
      /\ \A x \in PollObjects : \A y \in Range(obj.events[x]) : PollListed(y, x)
  BY PollFacts DEF PollInv, PollLists
<1>2. /\ th[t].st = "register" /\ d.next <= Len(d.events) /\ held' = held /\ wait_q' = wait_q
      /\ d \in PollData
      /\ obj' = [obj EXCEPT !.events[o] = z]
      /\ th' = [th EXCEPT ![t] = r]
  BY <1>1 DEF RegisterEvent, ThreadType
<1>3. d.next \in 1..2 /\ o \in PollObjects /\ d.events \in EventArrays /\ d.registered = d.next - 1
  <2>1. d.events \in EventArrays /\ d.next \in 1..3
    BY <1>2 DEF PollData
  <2>2. Len(d.events) = 2 /\ \A i \in 1..2 : d.events[i] \in PollObjects
    BY <2>1, ArrayFacts
  <2> QED BY <1>1, <1>2, <2>1, <2>2 DEF PollCall
<1>4. e \in PollEvents /\ e.thread = t /\ e.index = d.next
  BY <1>3 DEF Event, PollEvents
<1>5. e \notin Range(s)
  <2> SUFFICES ASSUME e \in Range(s) PROVE FALSE
    OBVIOUS
  <2>1. d.next <= d.registered
    BY <1>1, <1>3, <1>4 DEF PollListed
  <2> QED BY <1>3, <2>1
<1>6. z \in Seq(PollEvents) /\ Range(z) = Range(s) \union {e} /\ IsInjective(z)
  BY <1>1, <1>3, <1>4, <1>5, InsertEventFacts
<1>7. n \in PollData /\ n.events = d.events /\ n.registered = d.next /\ n.next = d.next + 1 /\ n.is_polling
  <2> DEFINE x == d.registered + 1
             y == d.next + 1
  <2>1. x \in 0..2 /\ y \in 1..3 /\ x = d.next
    BY <1>3
  <2>2. n = [d EXCEPT !.registered = x, !.next = y]
    BY <1>2 DEF PollData
  <2>3. n \in PollData /\ n.events = d.events /\ n.registered = x /\ n.next = y /\ n.is_polling = d.is_polling
    <3> HIDE DEF x, y, d, n
    <3> QED BY <1>2, <2>1, <2>2 DEF PollData
  <2> QED BY <2>1, <2>3
<1> HIDE DEF n
<1>8. r \in ThreadType(D) /\ r.st = "register" /\ r.data = n /\ r.op = r0.op /\ r.ret = r0.ret
  <2>1. r0 \in ThreadType(D) /\ n \in D /\ r0.st = "register"
    BY <1>1, <1>2, <1>7
  <2> HIDE DEF r0, D
  <2> QED BY <2>1 DEF ThreadType
<1> HIDE DEF r
<1>9. WaitOK(th', wait_q', D, Ops)
  <2>1. ~Waits(th[t], Ops) /\ ~Waits(r, Ops)
    BY <1>2, <1>8 DEF Waits
  <2>2. WaitOK([th EXCEPT ![t] = r], wait_q, D, Ops)
    <3> HIDE DEF D, r0
    <3> QED BY <1>1, <1>8, <2>1, StayOK
  <2> QED BY <1>2, <2>2
<1>10. th'[t] = r /\ \A u \in Threads \ {t} : th'[u] = th[u]
  BY <1>1, <1>2
<1> HIDE DEF z, e, s
<1>11. /\ obj' \in PollObj /\ obj'.met = obj.met /\ obj'.events = [obj.events EXCEPT ![o] = z]
  <2> DEFINE E == [obj.events EXCEPT ![o] = z]
  <2>1. E \in [PollObjects -> Seq(PollEvents)] /\ obj' = [obj EXCEPT !.events = E]
    BY <1>1, <1>2, <1>3, <1>6 DEF PollObj
  <2> HIDE DEF E
  <2>2. obj' \in PollObj /\ obj'.met = obj.met /\ obj'.events = E
    BY <1>1, <2>1 DEF PollObj
  <2> QED BY <2>2 DEF E
<1>12. obj'.events[o] = z /\ \A x \in PollObjects \ {o} : obj'.events[x] = obj.events[x]
  BY <1>1, <1>3, <1>11
<1>13. PollType'
  <2>1. \A x \in PollObjects : IsInjective(obj'.events[x])
    BY <1>1, <1>6, <1>12
  <2> QED BY <1>1, <1>2, <1>9, <1>11, <2>1 DEF PollType
<1>14. \A u \in Threads : PollCall(th'[u])
  <2>1. PollCall(r)
    BY <1>1, <1>2, <1>3, <1>7, <1>8 DEF PollCall
  <2> QED BY <1>10, <2>1 DEF PollInv
<1>15. PollLists'
  <2> SUFFICES ASSUME NEW x \in PollObjects, NEW y \in Range(obj'.events[x])
               PROVE  PollListed(y, x)'
    BY DEF PollLists
  <2>1. CASE y = e /\ x = o
    BY <1>4, <1>7, <1>8, <1>10, <1>3, <2>1 DEF PollListed
  <2>2. CASE ~(y = e /\ x = o)
    <3>1. y \in Range(obj.events[x])
      BY <1>6, <1>12, <2>2 DEF s
    <3>2. PollListed(y, x) /\ y \in PollEvents
      BY <1>1, <3>1
    <3>3. y.thread \in Threads /\ y.index \in 1..2
      BY <3>2 DEF PollEvents
    <3>4. CASE y.thread # t
      BY <1>10, <3>2, <3>3, <3>4 DEF PollListed
    <3>5. CASE y.thread = t
      <4>1. y.index <= d.registered /\ d.events[y.index] = x
        BY <3>2, <3>5 DEF PollListed
      <4>2. y.index <= d.next
        BY <1>3, <3>3, <4>1
      <4> QED BY <1>7, <1>8, <1>10, <3>5, <4>1, <4>2 DEF PollListed
    <3> QED BY <3>4, <3>5
  <2> QED BY <2>1, <2>2
<1>16. PollListeners'
  <2> SUFFICES ASSUME NEW u \in Threads, Listens(th'[u]), NEW i \in 1..2, i <= th'[u].data.registered
               PROVE  PollTold(u, i)'
    BY DEF PollListeners
  <2>0. \A x \in PollObjects : Range(obj.events[x]) \subseteq Range(obj'.events[x])
    BY <1>6, <1>12 DEF s
  <2>1. CASE u # t
    <3>1. th'[u] = th[u] /\ PollTold(u, i)
      BY <1>10, <2>1 DEF PollInv, PollListeners
    <3>2. th[u].data.events[i] \in PollObjects
      <4>1. th[u].data \in PollData
        BY <1>1, <3>1 DEF Listens
      <4> QED BY <4>1, ArrayFacts DEF PollData
    <3> QED BY <1>2, <1>11, <2>0, <3>1, <3>2 DEF PollTold
  <2>2. CASE u = t /\ i # d.next
    <3>1. i <= d.registered /\ Listens(th[t])
      BY <1>2, <1>3, <1>7, <1>8, <1>10, <2>2 DEF Listens
    <3>2. PollTold(t, i)
      BY <3>1 DEF PollInv, PollListeners
    <3>3. d.events[i] \in PollObjects
      BY <1>3, ArrayFacts
    <3>4. th'[u].data.events = d.events /\ held' = held /\ obj'.met = obj.met
      BY <1>2, <1>7, <1>8, <1>10, <1>11, <2>2
    <3> QED BY <2>0, <2>2, <3>2, <3>3, <3>4 DEF PollTold
  <2>3. CASE u = t /\ i = d.next
    <3>1. th'[u].data.events[i] = o /\ Event(u, i) \in Range(obj'.events[o])
      BY <1>6, <1>7, <1>8, <1>10, <1>12, <2>3 DEF e
    <3> QED BY <1>11, <3>1 DEF PollTold
  <2> QED BY <2>1, <2>2, <2>3
<1> QED BY <1>13, <1>14, <1>15, <1>16 DEF PollInv

\* One turn of clear_event_registrations.
LEMMA PollClearStep ==
    ASSUME PollInv, NEW t \in Threads, ClearEvent(t)
    PROVE  PollInv'
<1> DEFINE D == PollData \union {NULL}
           d == th[t].data
           k == d.registered
           o == d.events[k]
           s == obj.events[o]
           e == Event(t, k)
           z == Without(s, e)
           n == [d EXCEPT !.registered = @ - 1]
           r0 == th[t]
           r == [r0 EXCEPT !.data = n]
<1>1. /\ WaitOK(th, wait_q, D, Ops)
      /\ th \in [Threads -> ThreadType(D)]
      /\ \A u \in Threads : th[u].st # "run" => th[u].data \in PollData
      /\ PollCall(th[t]) /\ obj \in PollObj
      /\ obj.events \in [PollObjects -> Seq(PollEvents)] /\ held \in [PollObjects -> SUBSET Threads]
      /\ \A x \in PollObjects : /\ obj.events[x] \in Seq(PollEvents) /\ IsInjective(obj.events[x])
                                /\ Range(obj.events[x]) \subseteq PollEvents
      /\ \A x \in PollObjects : \A y \in Range(obj.events[x]) : PollListed(y, x)
  BY PollFacts DEF PollInv, PollLists
<1>2. /\ th[t].st = "woken" /\ k > 0 /\ held' = held /\ wait_q' = wait_q
      /\ d \in PollData
      /\ obj' = [obj EXCEPT !.events[o] = z]
      /\ th' = [th EXCEPT ![t] = r]
  BY <1>1 DEF ClearEvent, ThreadType, Woken
<1>3. k \in 1..2 /\ o \in PollObjects /\ d.events \in EventArrays
  <2>1. d.events \in EventArrays /\ k \in 0..2
    BY <1>2 DEF PollData
  <2>2. \A i \in 1..2 : d.events[i] \in PollObjects
    BY <2>1, ArrayFacts
  <2> QED BY <1>2, <2>1, <2>2
<1>4. z \in Seq(PollEvents) /\ Range(z) = Range(s) \ {e} /\ IsInjective(z)
  BY <1>1, <1>3, WithoutFacts
<1>5. n \in PollData /\ n.events = d.events /\ n.registered = k - 1 /\ n.ready = d.ready
      /\ n.cancelled = d.cancelled
  <2> DEFINE x == k - 1
  <2>1. x \in 0..2
    BY <1>3
  <2>2. n = [d EXCEPT !.registered = x]
    BY <1>2 DEF PollData
  <2>3. n \in PollData /\ n.events = d.events /\ n.registered = x /\ n.ready = d.ready
        /\ n.cancelled = d.cancelled
    <3> HIDE DEF x, d, n
    <3> QED BY <1>2, <2>1, <2>2 DEF PollData
  <2> QED BY <2>3
<1> HIDE DEF n
<1>6. r \in ThreadType(D) /\ r.st = "woken" /\ r.data = n /\ r.ret = r0.ret /\ r.op = r0.op
  <2>1. r0 \in ThreadType(D) /\ n \in D /\ r0.st = "woken"
    BY <1>1, <1>2, <1>5
  <2> HIDE DEF r0, D
  <2> QED BY <2>1 DEF ThreadType
<1> HIDE DEF r
<1>7. WaitOK(th', wait_q', D, Ops)
  <2>1. ~Waits(th[t], Ops) /\ ~Waits(r, Ops)
    BY <1>2, <1>6 DEF Waits
  <2>2. WaitOK([th EXCEPT ![t] = r], wait_q, D, Ops)
    <3> HIDE DEF D, r0
    <3> QED BY <1>1, <1>6, <2>1, StayOK
  <2> QED BY <1>2, <2>2
<1>8. th'[t] = r /\ \A u \in Threads \ {t} : th'[u] = th[u]
  BY <1>1, <1>2
<1> HIDE DEF z, s
<1>9. /\ obj' \in PollObj /\ obj'.met = obj.met /\ obj'.events = [obj.events EXCEPT ![o] = z]
  <2> DEFINE E == [obj.events EXCEPT ![o] = z]
  <2>1. E \in [PollObjects -> Seq(PollEvents)] /\ obj' = [obj EXCEPT !.events = E]
    BY <1>1, <1>2, <1>3, <1>4 DEF PollObj
  <2> HIDE DEF E
  <2>2. obj' \in PollObj /\ obj'.met = obj.met /\ obj'.events = E
    BY <1>1, <2>1 DEF PollObj
  <2> QED BY <2>2 DEF E
<1>10. obj'.events[o] = z /\ \A x \in PollObjects \ {o} : obj'.events[x] = obj.events[x]
  BY <1>1, <1>3, <1>9
<1>11. PollType'
  <2>1. \A x \in PollObjects : IsInjective(obj'.events[x])
    BY <1>1, <1>4, <1>10
  <2> QED BY <1>1, <1>2, <1>7, <1>9, <2>1 DEF PollType
<1>12. \A u \in Threads : PollCall(th'[u])
  <2>1. PollCall(r)
    BY <1>1, <1>2, <1>5, <1>6 DEF PollCall, PollEnd, Told
  <2> QED BY <1>8, <2>1 DEF PollInv
<1>13. PollLists'
  <2> SUFFICES ASSUME NEW x \in PollObjects, NEW y \in Range(obj'.events[x])
               PROVE  PollListed(y, x)'
    BY DEF PollLists
  <2>1. y \in Range(obj.events[x]) /\ (x = o => y # e)
    BY <1>4, <1>10 DEF s
  <2>2. PollListed(y, x) /\ y \in PollEvents
    BY <1>1, <2>1
  <2>3. y.thread \in Threads /\ y.index \in 1..2 /\ y = Event(y.thread, y.index)
    BY <2>2 DEF PollEvents, Event
  <2>4. CASE y.thread # t
    BY <1>8, <2>2, <2>3, <2>4 DEF PollListed
  <2>5. CASE y.thread = t
    <3>1. y.index <= k /\ d.events[y.index] = x
      BY <2>2, <2>5 DEF PollListed
    <3>2. y.index # k
      BY <2>1, <2>3, <2>5, <3>1
    <3>3. y.index <= k - 1
      BY <1>3, <2>3, <3>1, <3>2
    <3> QED BY <1>5, <1>6, <1>8, <2>5, <3>1, <3>3 DEF PollListed
  <2> QED BY <2>4, <2>5
<1>14. PollListeners'
  <2> SUFFICES ASSUME NEW u \in Threads, Listens(th'[u]), NEW i \in 1..2, i <= th'[u].data.registered
               PROVE  PollTold(u, i)'
    BY DEF PollListeners
  <2>1. u # t
    BY <1>6, <1>8 DEF Listens
  <2>2. th'[u] = th[u] /\ PollTold(u, i)
    BY <1>8, <2>1 DEF PollInv, PollListeners
  <2>3. th[u].data.events[i] \in PollObjects
    <3>1. th[u].data \in PollData
      BY <1>1, <2>2 DEF Listens
    <3> QED BY <3>1, ArrayFacts DEF PollData
  <2>4. Event(u, i) # e
    BY <2>1 DEF Event
  <2>5. \A x \in PollObjects : Event(u, i) \in Range(obj.events[x]) => Event(u, i) \in Range(obj'.events[x])
    <3> HIDE DEF e
    <3> QED BY <1>4, <1>10, <2>4 DEF s
  <2> QED BY <1>2, <1>9, <2>2, <2>3, <2>5 DEF PollTold
<1> QED BY <1>11, <1>12, <1>13, <1>14 DEF PollInv

\* The condition of an object is no longer met.
LEMMA PollConsumeStep ==
    ASSUME PollInv, NEW o \in PollObjects, Consume(o)
    PROVE  PollInv'
<1>1. /\ WaitOK(th, wait_q, PollData \union {NULL}, Ops)
      /\ obj \in PollObj /\ obj.met \in [PollObjects -> BOOLEAN]
      /\ held \in [PollObjects -> SUBSET Threads]
      /\ PollType
      /\ \A u \in Threads : th[u].st # "run" => th[u].data \in PollData
  BY PollFacts DEF PollInv
<1>2. /\ th' = th /\ wait_q' = wait_q /\ held' = [held EXCEPT ![o] = {}]
      /\ obj' = [obj EXCEPT !.met[o] = FALSE]
  BY DEF Consume
<1>3. obj' \in PollObj /\ obj'.events = obj.events /\ obj'.met = [obj.met EXCEPT ![o] = FALSE]
  <2> DEFINE M == [obj.met EXCEPT ![o] = FALSE]
  <2>1. M \in [PollObjects -> BOOLEAN] /\ obj' = [obj EXCEPT !.met = M]
    BY <1>1, <1>2 DEF PollObj
  <2> HIDE DEF M
  <2>2. obj' \in PollObj /\ obj'.events = obj.events /\ obj'.met = M
    BY <1>1, <2>1 DEF PollObj
  <2> QED BY <2>2 DEF M
<1>4. PollType'
  BY <1>1, <1>2, <1>3 DEF PollType
<1>5. PollLists'
  BY <1>2, <1>3 DEF PollInv, PollLists, PollListed
<1>6. PollListeners'
  <2> SUFFICES ASSUME NEW u \in Threads, Listens(th[u]), NEW i \in 1..2, i <= th[u].data.registered
               PROVE  PollTold(u, i)'
    BY <1>2 DEF PollListeners
  <2>1. PollTold(u, i)
    BY DEF PollInv, PollListeners
  <2>2. th[u].data.events[i] \in PollObjects
    <3>1. th[u].data \in PollData
      BY <1>1 DEF Listens
    <3> QED BY <3>1, ArrayFacts DEF PollData
  <2> DEFINE x == th[u].data.events[i]
  <2>3. obj'.met[x] => obj.met[x] /\ held'[x] = held[x]
    BY <1>1, <1>2, <1>3, <2>2
  <2> QED BY <1>2, <1>3, <2>1, <2>3 DEF PollTold
<1> QED BY <1>2, <1>4, <1>5, <1>6 DEF PollInv

\* The thread of an event is told: it no longer listens.
LEMMA SignalledFacts ==
    ASSUME PollInv, NEW o \in PollObjects, NEW e \in Range(obj.events[o]), NEW cancel \in BOOLEAN,
           th' = Signalled(e, cancel), wait_q' = Without(wait_q, e.thread)
    PROVE  /\ e.thread \in Threads
           /\ \A u \in Threads \ {e.thread} : th'[u] = th[u]
           /\ Keeps(th[e.thread], th'[e.thread]) /\ ~Listens(th'[e.thread])
           /\ PollCall(th'[e.thread])
           /\ WaitOK(th', wait_q', PollData \union {NULL}, Ops)
<1> DEFINE D == PollData \union {NULL}
           t == e.thread
           d == th[t].data
           ret == IF cancel THEN "EINTR" ELSE "0"
           x == IF cancel THEN d.ready ELSE d.ready \union {e.index}
           y == IF cancel THEN d.cancelled \union {e.index} ELSE d.cancelled
           n == [d EXCEPT !.ready = x, !.cancelled = y, !.is_polling = FALSE]
           r0 == th[t]
           a == WokenWith(t, ret, n)
           b == [r0 EXCEPT !.data = n]
           r == IF Pends(t) THEN a ELSE b
<1>1. /\ e \in PollEvents /\ PollListed(e, o)
      /\ WaitOK(th, wait_q, D, Ops) /\ th \in [Threads -> ThreadType(D)]
  BY PollFacts DEF PollInv, PollLists
<1>2. t \in Threads /\ e.index \in 1..2 /\ th[t].st # "run"
  BY <1>1 DEF PollEvents, PollListed
<1>3. d \in PollData /\ r0 \in ThreadType(D) /\ PollCall(r0)
  BY <1>1, <1>2, PollFacts DEF PollInv
<1>4. /\ n \in PollData /\ n.events = d.events /\ n.registered = d.registered
      /\ n.is_polling = FALSE /\ n.ready = x /\ n.cancelled = y
  <2>1. d.ready \in SUBSET (1..2) /\ d.cancelled \in SUBSET (1..2)
    <3> HIDE DEF d
    <3> QED BY <1>3 DEF PollData
  <2>2. x \in SUBSET (1..2) /\ y \in SUBSET (1..2)
    BY <1>2, <2>1
  <2> HIDE DEF x, y, d
  <2> QED BY <1>3, <2>2 DEF PollData
<1>5. /\ d.ready \subseteq n.ready /\ d.cancelled \subseteq n.cancelled
      /\ IF cancel THEN n.cancelled # {} ELSE n.ready # {}
  <2>1. /\ d.ready \subseteq x /\ d.cancelled \subseteq y
        /\ IF cancel THEN y # {} ELSE x # {}
    OBVIOUS
  <2> QED BY <1>4, <2>1
<1> HIDE DEF n
<1>13. th' = [th EXCEPT ![t] = r]
  BY <1>1, <1>2 DEF Signalled, n, ThreadType
<1> HIDE DEF x, y
<1>6. /\ a \in ThreadType(D) /\ a.st = "woken" /\ a.data = n /\ a.ret = ret /\ a.op = r0.op
      /\ b \in ThreadType(D) /\ b.st = r0.st /\ b.data = n /\ b.ret = r0.ret /\ b.op = r0.op
  <2>1. n \in D /\ a = [r0 EXCEPT !.st = "woken", !.ret = ret, !.data = n, !.armed = FALSE]
    BY <1>4 DEF WokenWith
  <2> HIDE DEF r0, D, a
  <2> QED BY <1>3, <2>1 DEF ThreadType, States, Rets
<1> HIDE DEF a, b
<1>7. /\ r \in ThreadType(D) /\ r.data = n /\ r.st \notin {"run", "pend"}
      /\ r.op = r0.op
      /\ Pends(t) => r.st = "woken" /\ r.ret = ret
      /\ ~Pends(t) => r.st = r0.st /\ r.ret = r0.ret
  BY <1>2, <1>6 DEF Pends
<1> HIDE DEF r
<1>8. ~Waits(r, Ops)
  BY <1>7 DEF Waits
<1>9. WaitOK([th EXCEPT ![t] = r], Without(wait_q, t), D, Ops)
  <2> HIDE DEF D, r0, t
  <2> QED BY <1>1, <1>2, <1>7, <1>8, LeaveOK
<1>10. th'[t] = r /\ \A u \in Threads \ {t} : th'[u] = th[u]
  BY <1>1, <1>2, <1>13
<1>11. Keeps(th[t], r) /\ ~Listens(r) /\ PollCall(r)
  <2>1. Keeps(th[t], r) /\ ~Listens(r)
    BY <1>2, <1>4, <1>7 DEF Keeps, Listens
  <2>2. /\ d.ready # {} => n.ready # {}
        /\ d.cancelled # {} => n.cancelled # {}
        /\ Told(n) /\ d = r0.data
    BY <1>5 DEF Told
  <2>3. ASSUME Pends(t) PROVE PollCall(r)
    <3>1. r.st = "woken" /\ r.ret = ret /\ r.op = "wait" /\ r.data = n
      BY <1>3, <1>7, <2>3 DEF PollCall, Pends
    <3>2. n.ready # {} \/ cancel
      BY <1>5
    <3>3. n.cancelled # {} \/ ~cancel
      BY <1>5
    <3>4. PollEnd(r)
      BY <3>1, <3>2, <3>3 DEF PollEnd
    <3> QED BY <1>4, <3>1, <3>4 DEF PollCall
  <2>4. ASSUME ~Pends(t) PROVE PollCall(r)
    <3>1. r.st = r0.st /\ r.ret = r0.ret /\ r.op = r0.op /\ r.data = n /\ r.st # "run" /\ r.st # "pend"
      BY <1>7, <2>4
    <3> HIDE DEF d, r0
    <3>2. ASSUME r.st = "woken" PROVE PollEnd(r)
      <4>1. PollEnd(r0)
        BY <1>3, <3>1, <3>2 DEF PollCall
      <4> QED BY <2>2, <3>1, <4>1 DEF PollEnd
    <3>3. ASSUME r.st = "register" PROVE r.op = "poll" /\ r.ret = "0" /\ ~n.is_polling
      BY <1>3, <1>4, <3>1, <3>3 DEF PollCall
    <3>4. n \in PollData /\ Told(n)
      BY <1>4, <2>2
    <3> QED BY <3>1, <3>2, <3>3, <3>4 DEF PollCall
  <2> QED BY <2>1, <2>3, <2>4
<1>12. WaitOK(th', wait_q', D, Ops)
  BY <1>9, <1>13
<1> QED BY <1>2, <1>10, <1>11, <1>12

\* z_handle_obj_poll_events.
LEMMA HandleStep ==
    ASSUME PollInv, NEW o \in PollObjects, NEW met \in BOOLEAN, NEW cancel \in BOOLEAN,
           HandlePollEvents(o, met, cancel)
    PROVE  PollInv'
<1> DEFINE s == obj.events[o]
           z == IF s = <<>> THEN s ELSE Tail(s)
           e == Head(s)
<1>1. /\ WaitOK(th, wait_q, PollData \union {NULL}, Ops)
      /\ \A u \in Threads : th[u].st # "run" => th[u].data \in PollData
      /\ obj \in PollObj /\ obj.met \in [PollObjects -> BOOLEAN]
      /\ obj.events \in [PollObjects -> Seq(PollEvents)] /\ held \in [PollObjects -> SUBSET Threads]
      /\ \A x \in PollObjects : /\ obj.events[x] \in Seq(PollEvents) /\ IsInjective(obj.events[x])
                                /\ Range(obj.events[x]) \subseteq PollEvents
      /\ \A x \in PollObjects : \A y \in Range(obj.events[x]) : PollListed(y, x)
  BY PollFacts DEF PollInv, PollLists
<1>2. s \in Seq(PollEvents) /\ IsInjective(s)
  BY <1>1
<1>3. /\ obj' = [obj EXCEPT !.met[o] = met, !.events[o] = z]
      /\ s = <<>> => th' = th /\ wait_q' = wait_q /\ held' = held
      /\ s # <<>> => /\ th' = Signalled(e, cancel) /\ wait_q' = Without(wait_q, e.thread)
                     /\ held' = IF met THEN [held EXCEPT ![o] = @ \union {e.thread}] ELSE held
  BY <1>1 DEF HandlePollEvents, PollObj
<1>4. /\ s # <<>> => e \in Range(s) /\ Range(Tail(s)) = Range(s) \ {e}
      /\ z \in Seq(PollEvents) /\ IsInjective(z) /\ Range(z) \subseteq Range(s)
  BY <1>2, TailRange
<1> HIDE DEF z, s
<1>5. /\ obj' \in PollObj /\ obj'.met = [obj.met EXCEPT ![o] = met]
      /\ obj'.events = [obj.events EXCEPT ![o] = z]
  <2> DEFINE E == [obj.events EXCEPT ![o] = z]
             M == [obj.met EXCEPT ![o] = met]
  <2>1. /\ E \in [PollObjects -> Seq(PollEvents)] /\ M \in [PollObjects -> BOOLEAN]
        /\ obj' = [obj EXCEPT !.met = M, !.events = E]
    BY <1>1, <1>3, <1>4 DEF PollObj
  <2> HIDE DEF E, M
  <2>2. obj' \in PollObj /\ obj'.met = M /\ obj'.events = E
    BY <1>1, <2>1 DEF PollObj
  <2> QED BY <2>2 DEF E, M
<1>6. /\ obj'.events[o] = z /\ obj'.met[o] = met
      /\ \A x \in PollObjects \ {o} : obj'.events[x] = obj.events[x] /\ obj'.met[x] = obj.met[x]
  BY <1>1, <1>5
<1>7. \A x \in PollObjects : IsInjective(obj'.events[x]) /\ Range(obj'.events[x]) \subseteq Range(obj.events[x])
  BY <1>1, <1>4, <1>6 DEF s
<1>8. CASE s = <<>>
  <2>1. th' = th /\ wait_q' = wait_q /\ held' = held /\ Range(s) = {}
    BY <1>3, <1>8, EmptyRange
  <2>2. PollType'
    BY <1>1, <1>5, <1>7, <2>1 DEF PollType
  <2>3. PollLists'
    BY <1>1, <1>7, <2>1 DEF PollLists, PollListed
  <2>4. PollListeners'
    <3> SUFFICES ASSUME NEW u \in Threads, Listens(th[u]), NEW i \in 1..2, i <= th[u].data.registered
                 PROVE  PollTold(u, i)'
      BY <2>1 DEF PollListeners
    <3>1. PollTold(u, i)
      BY DEF PollInv, PollListeners
    <3> DEFINE x == th[u].data.events[i]
    <3>2. x \in PollObjects
      <4>1. th[u].data \in PollData
        BY <1>1 DEF Listens
      <4> QED BY <4>1, ArrayFacts DEF PollData
    <3>3. x # o
      BY <2>1, <3>1 DEF PollTold, s
    <3>4. obj'.events[x] = obj.events[x] /\ obj'.met[x] = obj.met[x]
      BY <1>6, <3>2, <3>3
    <3> QED BY <2>1, <3>1, <3>4 DEF PollTold
  <2> QED BY <2>1, <2>2, <2>3, <2>4 DEF PollInv
<1>9. CASE s # <<>>
  <2> DEFINE t == e.thread
  <2>0. /\ e \in Range(obj.events[o]) /\ th' = Signalled(e, cancel) /\ wait_q' = Without(wait_q, t)
        /\ held' = IF met THEN [held EXCEPT ![o] = @ \union {t}] ELSE held
    BY <1>3, <1>4, <1>9 DEF s
  <2> HIDE DEF e
  <2>1. /\ t \in Threads
        /\ \A u \in Threads \ {t} : th'[u] = th[u]
        /\ Keeps(th[t], th'[t]) /\ ~Listens(th'[t])
        /\ PollCall(th'[t])
        /\ WaitOK(th', wait_q', PollData \union {NULL}, Ops)
    BY <2>0, SignalledFacts
  <2> HIDE DEF t
  <2>2. /\ held' \in [PollObjects -> SUBSET Threads]
        /\ \A x \in PollObjects : held[x] \subseteq held'[x]
        /\ met => t \in held'[o]
    BY <1>1, <2>0, <2>1
  <2>3. PollType'
    BY <1>5, <1>7, <2>1, <2>2 DEF PollType
  <2>4. \A u \in Threads : PollCall(th'[u])
    BY <2>1 DEF PollInv
  <2>5. PollLists'
    <3> SUFFICES ASSUME NEW x \in PollObjects, NEW y \in Range(obj'.events[x])
                 PROVE  PollListed(y, x)'
      BY DEF PollLists
    <3>1. PollListed(y, x) /\ y \in PollEvents
      BY <1>1, <1>7
    <3>2. y.thread \in Threads
      BY <3>1 DEF PollEvents
    <3>3. CASE y.thread # t
      BY <2>1, <3>1, <3>2, <3>3 DEF PollListed
    <3>4. CASE y.thread = t
      BY <2>1, <3>1, <3>4 DEF PollListed, Keeps
    <3> QED BY <3>3, <3>4
  <2>6. PollListeners'
    <3> SUFFICES ASSUME NEW u \in Threads, Listens(th'[u]), NEW i \in 1..2, i <= th'[u].data.registered
                 PROVE  PollTold(u, i)'
      BY DEF PollListeners
    <3>1. u # t /\ th'[u] = th[u] /\ PollTold(u, i)
      BY <2>1 DEF PollInv, PollListeners
    <3> DEFINE x == th[u].data.events[i]
    <3>2. x \in PollObjects
      <4>1. th[u].data \in PollData
        BY <1>1, <3>1 DEF Listens
      <4> QED BY <4>1, ArrayFacts DEF PollData
    <3>3. Event(u, i) # e
      BY <3>1 DEF Event, t
    <3> DEFINE v == Event(u, i)
    <3>4. v \in Range(obj.events[x]) /\ (obj.met[x] => held[x] \ {u} # {})
      BY <3>1 DEF PollTold
    <3>5. v # e
      BY <3>3
    <3> HIDE DEF x, v
    <3>6. v \in Range(obj'.events[x]) /\ (obj'.met[x] => held'[x] \ {u} # {})
      <4>1. CASE x = o
        <5>1. Range(z) = Range(s) \ {e}
          BY <1>4, <1>9 DEF e, z
        <5>2. obj'.met[x] => t \in held'[x]
          BY <1>6, <2>2, <4>1
        <5> QED BY <1>6, <3>1, <3>4, <3>5, <4>1, <5>1, <5>2 DEF s
      <4>2. CASE x # o
        <5>1. obj'.events[x] = obj.events[x] /\ obj'.met[x] = obj.met[x] /\ held[x] \subseteq held'[x]
          BY <1>6, <2>2, <3>2, <4>2
        <5> QED BY <3>4, <5>1
      <4> QED BY <4>1, <4>2
    <3> QED BY <3>1, <3>6 DEF PollTold, x, v
  <2> QED BY <2>3, <2>4, <2>5, <2>6 DEF PollInv
<1> QED BY <1>8, <1>9

\* Every operation keeps the invariant.
LEMMA PollStep ==
    ASSUME PollInv, PollNext
    PROVE  PollInv'
<1>1. ASSUME NEW o \in PollObjects, Raise(o) \/ AppendedAndTaken(o) \/ CancelWait(o) \/ Consume(o)
      PROVE  PollInv'
  <2>1. CASE Raise(o)
    BY <2>1, HandleStep DEF Raise
  <2>2. CASE AppendedAndTaken(o) \/ CancelWait(o)
    <3>1. obj.met[o] \in BOOLEAN
      BY PollFacts
    <3>2. \E cancel \in BOOLEAN : HandlePollEvents(o, obj.met[o], cancel)
      BY <2>2 DEF AppendedAndTaken, CancelWait
    <3> QED BY <3>1, <3>2, HandleStep
  <2>3. CASE Consume(o)
    BY <2>3, PollConsumeStep
  <2> QED BY <1>1, <2>1, <2>2, <2>3
<1>2. ASSUME NEW t \in Threads,
             \/ \E events \in EventArrays : k_poll(t, events)
             \/ PollWait(t) \/ PollReturn(t) \/ Timeout(t)
      PROVE  PollInv'
  BY <1>2, PollCallStep
<1>3. ASSUME NEW t \in Threads, RegisterEvent(t) \/ ClearEvent(t) PROVE PollInv'
  BY <1>3, PollSkipStep, PollRegisterStep, PollClearStep
<1> QED BY <1>1, <1>2, <1>3, PollAssumption DEF PollNext

-----------------------------------------------------------------------------
(* Pipes. *)

\* The ring o holds the bytes h in order, and the indices agree.
Bytes == 1..MaxXfer
PipeObj ==
    [buffer : [0..PipeSize - 1 -> Bytes \union {NULL}], size : {0, PipeSize}, bytes_used : Nat,
     read_index : Nat, write_index : Nat, writers : Seq(Threads)]
PipeRing(o, h) ==
    /\ o \in PipeObj
    /\ h \in Seq(Bytes) /\ Len(h) = o.bytes_used /\ o.bytes_used <= o.size
    /\ o.size > 0 => /\ o.read_index < o.size
                     /\ o.write_index = (o.read_index + o.bytes_used) % o.size
                     /\ \A i \in 1..o.bytes_used : h[i] = o.buffer[(o.read_index + (i - 1)) % o.size]

\* Going on and going back in a ring of N places.
LEMMA WrapFacts ==
    ASSUME NEW N \in Nat, N # 0, NEW a \in 0..N - 1
    PROVE  /\ \A b \in 0..N : (a + b) % N = IF a + b < N THEN a + b ELSE a + b - N
           /\ \A b \in 0..N - 1 : (b - a) % N = IF b >= a THEN b - a ELSE b - a + N
<1>1. ASSUME NEW b \in 0..N
      PROVE  (a + b) % N = IF a + b < N THEN a + b ELSE a + b - N
  <2> DEFINE x == a + b
  <2>1. x \in 0..2 * N - 1
    OBVIOUS
  <2> HIDE DEF x
  <2>2. CASE x < N
    BY <2>1, <2>2
  <2>3. CASE x >= N
    BY <2>1, <2>3
  <2>4. x % N = IF x < N THEN x ELSE x - N
    BY <2>1, <2>2, <2>3
  <2> QED BY <2>4 DEF x
<1>2. ASSUME NEW b \in 0..N - 1
      PROVE  (b - a) % N = IF b >= a THEN b - a ELSE b - a + N
  <2> DEFINE x == b - a
  <2>1. x \in Int /\ -N < x /\ x < N /\ (b >= a <=> x >= 0)
    OBVIOUS
  <2> HIDE DEF x
  <2>2. CASE x >= 0
    BY <2>1, <2>2
  <2>3. CASE x < 0
    BY <2>1, <2>3
  <2>4. x % N = IF x >= 0 THEN x ELSE x + N
    BY <2>1, <2>2, <2>3
  <2> QED BY <2>1, <2>4 DEF x
<1> QED BY <1>1, <1>2

\* Where the i-th byte is, seen from where the writing started: u bytes were there,
\* k come, the reading is at r and the writing at w of N places.
Spots(N, r, u, k, w, i, x, z) ==
    /\ N \in Nat /\ r \in 0..N - 1 /\ u \in Nat /\ k \in Nat /\ k # 0 /\ u + k <= N /\ i \in 1..u + k
    /\ w = (IF r + u < N THEN r + u ELSE r + u - N)
    /\ x = (IF r + (i - 1) < N THEN r + (i - 1) ELSE r + (i - 1) - N)
    /\ z = (IF x >= w THEN x - w ELSE x - w + N)

\* It is the byte that was stored there, or one that was there before.
LEMMA PutSpot ==
    ASSUME NEW N, NEW r, NEW u, NEW k, NEW w, NEW i, NEW x, NEW z, Spots(N, r, u, k, w, i, x, z)
    PROVE  /\ x \in 0..N - 1 /\ z \in Nat
           /\ IF i <= u THEN ~(z + 1 <= k) ELSE z + 1 = i - u /\ z + 1 <= k
<1> USE DEF Spots
<1>1. x \in 0..N - 1 /\ w \in 0..N - 1
  OBVIOUS
<1>2. z \in Nat
  BY <1>1
<1>3. CASE i <= u
  BY <1>1, <1>2, <1>3
<1>4. CASE ~(i <= u)
  BY <1>1, <1>2, <1>4
<1> QED BY <1>1, <1>2, <1>3, <1>4

\* Bytes for which there is room are stored behind the others.
LEMMA RingPutOK ==
    ASSUME NEW o, NEW h, PipeRing(o, h), NEW s \in Seq(Bytes), o.bytes_used + Len(s) <= o.size
    PROVE  /\ PipeRing(RingPut(o, s), h \o s) /\ RingPut(o, s).bytes_used = o.bytes_used + Len(s)
           /\ RingPut(o, s).size = o.size /\ RingPut(o, s).writers = o.writers
<1> DEFINE N == o.size
           r == o.read_index
           w == o.write_index
           u == o.bytes_used
           k == Len(s)
           b == [i \in DOMAIN o.buffer |-> IF ((i - w) % N) + 1 <= k THEN s[((i - w) % N) + 1]
                                           ELSE o.buffer[i]]
           g == h \o s
           p == RingPut(o, s)
<1>1. /\ o.buffer \in [0..PipeSize - 1 -> Bytes \union {NULL}] /\ N \in {0, PipeSize} /\ N \in Nat
      /\ u \in Nat /\ r \in Nat /\ w \in Nat /\ o.writers \in Seq(Threads) /\ o \in PipeObj
      /\ PipeSize \in Nat
  BY PipeAssumption DEF PipeRing, PipeObj
<1>2. /\ h \in Seq(Bytes) /\ Len(h) = u /\ u <= N
      /\ N > 0 => /\ r < N /\ w = (r + u) % N
                  /\ \A i \in 1..u : h[i] = o.buffer[(r + (i - 1)) % N]
  BY DEF PipeRing
<1>3. k \in Nat /\ (\A i \in 1..k : s[i] \in Bytes) /\ u + k <= N
  BY LenProperties, ElementOfSeq
<1>6. o.size = N /\ o.read_index = r /\ o.write_index = w /\ o.bytes_used = u /\ Len(s) = k
  OBVIOUS
<1> HIDE DEF N, r, w, u, k
<1>4. CASE s = <<>>
  <2>1. p = o /\ g = h /\ k = 0
    BY <1>2, <1>4, EmptySeq DEF RingPut, k
  <2>2. u + k = u
    BY <1>1, <2>1
  <2> QED BY <1>6, <2>1, <2>2
<1>5. CASE s # <<>>
  <2>1. k > 0 /\ N > 0 /\ N = PipeSize
    <3>1. k # 0
      BY <1>5, EmptySeq DEF k
    <3> QED BY <1>1, <1>3, <3>1
  <2>2. p = [o EXCEPT !.buffer = b, !.write_index = (w + k) % N, !.bytes_used = u + k]
    BY <1>5 DEF RingPut, N, w, u, k
  <2>3. /\ g \in Seq(Bytes) /\ Len(g) = u + k
        /\ \A i \in 1..u + k : g[i] = IF i <= u THEN h[i] ELSE s[i - u]
    <3>1. /\ g \in Seq(Bytes) /\ Len(g) = Len(h) + Len(s)
          /\ \A i \in 1..Len(h) + Len(s) : g[i] = IF i <= Len(h) THEN h[i] ELSE s[i - Len(h)]
      BY <1>2, ConcatFacts
    <3>2. Len(h) = u /\ Len(s) = k
      BY <1>2, <1>6
    <3> HIDE DEF g
    <3> QED BY <3>1, <3>2
  <2>4. r \in 0..N - 1 /\ w \in 0..N - 1 /\ w = (IF r + u < N THEN r + u ELSE r + u - N)
    <3>1. r \in 0..N - 1 /\ u \in 0..N
      BY <1>1, <1>2, <2>1
    <3>5. N \in Nat /\ N # 0 /\ r \in 0..N - 1
      BY <1>1, <2>1, <3>1
    <3>2. \A x \in 0..N : (r + x) % N = IF r + x < N THEN r + x ELSE r + x - N
      BY <3>5, WrapFacts
    <3>3. (r + u) % N = IF r + u < N THEN r + u ELSE r + u - N
      BY <3>1, <3>2
    <3>4. w = IF r + u < N THEN r + u ELSE r + u - N
      BY <1>2, <2>1, <3>3
    <3> QED BY <1>1, <3>1, <3>4
  <2>5. /\ \A x \in 0..N : (r + x) % N = IF r + x < N THEN r + x ELSE r + x - N
        /\ \A x \in 0..N : (w + x) % N = IF w + x < N THEN w + x ELSE w + x - N
        /\ \A x \in 0..N - 1 : (x - w) % N = IF x >= w THEN x - w ELSE x - w + N
    <3>1. N \in Nat /\ N # 0
      BY <1>1, <2>1
    <3>2. \A x \in 0..N : (r + x) % N = IF r + x < N THEN r + x ELSE r + x - N
      BY <2>4, <3>1, WrapFacts
    <3>3. /\ \A x \in 0..N : (w + x) % N = IF w + x < N THEN w + x ELSE w + x - N
          /\ \A x \in 0..N - 1 : (x - w) % N = IF x >= w THEN x - w ELSE x - w + N
      BY <2>4, <3>1, WrapFacts
    <3> QED BY <3>2, <3>3
  <2>6. /\ b \in [0..PipeSize - 1 -> Bytes \union {NULL}]
        /\ \A i \in 0..N - 1 : b[i] = IF ((i - w) % N) + 1 <= k THEN s[((i - w) % N) + 1] ELSE o.buffer[i]
    <3>1. ASSUME NEW i \in 0..N - 1 PROVE (i - w) % N \in Nat
      <4> DEFINE z == (i - w) % N
      <4>1. z = IF i >= w THEN i - w ELSE i - w + N
        BY <2>5
      <4> HIDE DEF z
      <4>2. z \in Nat
        BY <1>1, <2>4, <4>1
      <4> QED BY <4>2 DEF z
    <3>2. DOMAIN o.buffer = 0..N - 1
      BY <1>1, <2>1
    <3>3. ASSUME NEW i \in 0..N - 1, ((i - w) % N) + 1 <= k PROVE s[((i - w) % N) + 1] \in Bytes
      <4> DEFINE z == (i - w) % N
      <4>1. z \in Nat /\ z + 1 <= k
        BY <3>1, <3>3
      <4> HIDE DEF z
      <4>2. z + 1 \in 1..k
        BY <1>3, <4>1
      <4>3. s[z + 1] \in Bytes
        BY <1>3, <4>2
      <4> QED BY <4>3 DEF z
    <3>4. \A i \in 0..N - 1 : o.buffer[i] \in Bytes \union {NULL}
      BY <1>1, <2>1
    <3> QED BY <2>1, <3>2, <3>3, <3>4
  <2>7. (w + k) % N = (r + (u + k)) % N /\ (w + k) % N \in Nat
    <3>1. k \in 0..N /\ u + k \in 0..N
      BY <1>1, <1>3
    <3>2. /\ (w + k) % N = IF w + k < N THEN w + k ELSE w + k - N
          /\ (r + (u + k)) % N = IF r + (u + k) < N THEN r + (u + k) ELSE r + (u + k) - N
      BY <2>5, <3>1
    <3> QED BY <1>1, <1>2, <1>3, <2>4, <3>1, <3>2
  <2> HIDE DEF b, p
  <2>8. /\ p \in PipeObj /\ p.buffer = b /\ p.write_index = (w + k) % N /\ p.bytes_used = u + k
        /\ p.read_index = r /\ p.size = N /\ p.writers = o.writers
    <3> DEFINE wk == (w + k) % N
               uk == u + k
    <3>1. wk \in Nat /\ uk \in Nat /\ p = [o EXCEPT !.buffer = b, !.write_index = wk, !.bytes_used = uk]
      BY <1>1, <1>3, <2>2, <2>7
    <3> HIDE DEF wk, uk
    <3>2. /\ p \in PipeObj /\ p.buffer = b /\ p.write_index = wk /\ p.bytes_used = uk
          /\ p.read_index = o.read_index /\ p.size = o.size /\ p.writers = o.writers
      BY <1>1, <2>6, <3>1 DEF PipeObj
    <3> QED BY <1>6, <3>2 DEF wk, uk
  <2> HIDE DEF g
  <2>9. ASSUME NEW i \in 1..u + k PROVE g[i] = b[(r + (i - 1)) % N]
    <3> DEFINE x == (r + (i - 1)) % N
               z == (x - w) % N
    <3>1. i - 1 \in 0..N
      BY <1>1, <1>3
    <3>2. x = IF r + (i - 1) < N THEN r + (i - 1) ELSE r + (i - 1) - N
      BY <2>5, <3>1
    <3> HIDE DEF x
    <3>3. x \in 0..N - 1
      BY <1>1, <1>3, <2>4, <3>2
    <3>4. z = IF x >= w THEN x - w ELSE x - w + N
      BY <2>5, <3>3
    <3>5. b[x] = IF z + 1 <= k THEN s[z + 1] ELSE o.buffer[x]
      BY <2>6, <3>3
    <3> HIDE DEF z
    <3>8. Spots(N, r, u, k, w, i, x, z)
      BY <1>1, <1>3, <2>1, <2>4, <3>2, <3>4 DEF Spots
    <3>9. IF i <= u THEN ~(z + 1 <= k) ELSE z + 1 = i - u /\ z + 1 <= k
      BY <3>8, PutSpot
    <3>10. g[i] = IF i <= u THEN h[i] ELSE s[i - u]
      BY <2>3
    <3>6. CASE i <= u
      <4>2. i \in 1..u
        BY <1>1, <3>6
      <4>3. h[i] = o.buffer[x]
        BY <1>2, <2>1, <4>2 DEF x
      <4> QED BY <3>5, <3>6, <3>9, <3>10, <4>3 DEF x
    <3>7. CASE ~(i <= u)
      BY <3>5, <3>7, <3>9, <3>10 DEF x
    <3> QED BY <3>6, <3>7
  <2>11. /\ p.size > 0 => /\ p.read_index < p.size
                          /\ p.write_index = (p.read_index + p.bytes_used) % p.size
                          /\ \A i \in 1..p.bytes_used : g[i] = p.buffer[(p.read_index + (i - 1)) % p.size]
    BY <1>2, <2>1, <2>7, <2>8, <2>9
  <2> QED BY <1>3, <1>6, <2>3, <2>8, <2>11 DEF PipeRing, g, p
<1> QED BY <1>4, <1>5

\* Where the byte behind n others is, seen from where the reading started.
GetSpots(N, r, u, n, i, q, x, y, z) ==
    /\ N \in Nat /\ r \in 0..N - 1 /\ u \in 0..N /\ n \in 1..u /\ i \in 1..u - n
    /\ q = (IF r + n < N THEN r + n ELSE r + n - N)
    /\ x = (IF q + (i - 1) < N THEN q + (i - 1) ELSE q + (i - 1) - N)
    /\ y = (IF r + (n + i - 1) < N THEN r + (n + i - 1) ELSE r + (n + i - 1) - N)
    /\ z = (IF x >= r THEN x - r ELSE x - r + N)

\* It stays where it was, and is not among those that were read.
LEMMA GetSpot ==
    ASSUME NEW N, NEW r, NEW u, NEW n, NEW i, NEW q, NEW x, NEW y, NEW z,
           GetSpots(N, r, u, n, i, q, x, y, z)
    PROVE  x = y /\ x \in 0..N - 1 /\ ~(z < n)
<1> USE DEF GetSpots
<1>1. q \in 0..N - 1
  OBVIOUS
<1>2. x \in 0..N - 1 /\ y \in 0..N - 1
  BY <1>1
<1>3. x = y
  BY <1>1, <1>2
<1>4. ~(z < n)
  <2>1. CASE x >= r
    BY <1>2, <1>3, <2>1
  <2>2. CASE ~(x >= r)
    BY <1>2, <1>3, <2>2
  <2> QED BY <2>1, <2>2
<1> QED BY <1>2, <1>3, <1>4

\* The first n bytes are read.
LEMMA RingGetOK ==
    ASSUME NEW o, NEW h, PipeRing(o, h), NEW n \in 0..o.bytes_used
    PROVE  /\ PipeRing(RingGet(o, n), Dropped(h, n)) /\ RingGet(o, n).bytes_used = o.bytes_used - n
           /\ RingGet(o, n).size = o.size /\ RingGet(o, n).writers = o.writers
<1> DEFINE N == o.size
           r == o.read_index
           w == o.write_index
           u == o.bytes_used
           q == (r + n) % N
           b == [i \in DOMAIN o.buffer |-> IF (i - r) % N < n THEN NULL ELSE o.buffer[i]]
           g == Dropped(h, n)
           p == RingGet(o, n)
<1>1. /\ o.buffer \in [0..PipeSize - 1 -> Bytes \union {NULL}] /\ N \in {0, PipeSize} /\ N \in Nat
      /\ u \in Nat /\ r \in Nat /\ w \in Nat /\ o.writers \in Seq(Threads) /\ o \in PipeObj
      /\ PipeSize \in Nat /\ n \in 0..u
  BY PipeAssumption DEF PipeRing, PipeObj
<1>2. /\ h \in Seq(Bytes) /\ Len(h) = u /\ u <= N
      /\ N > 0 => /\ r < N /\ w = (r + u) % N
                  /\ \A i \in 1..u : h[i] = o.buffer[(r + (i - 1)) % N]
  BY DEF PipeRing
<1>6. o.size = N /\ o.read_index = r /\ o.write_index = w /\ o.bytes_used = u
  OBVIOUS
<1>3. /\ g \in Seq(Bytes) /\ Len(g) = u - n
      /\ \A i \in 1..u - n : g[i] = h[n + i]
  <2>1. n \in 0..Len(h)
    BY <1>2
  <2>2. /\ g \in Seq(Bytes) /\ Len(g) = Len(h) - n
        /\ \A i \in 1..Len(h) - n : g[i] = h[n + i]
    BY <1>2, <2>1, SuffixFacts DEF Dropped
  <2> QED BY <1>2, <2>2
<1> HIDE DEF N, r, w, u
<1>4. CASE n = 0
  <2>1. p = o
    BY <1>4 DEF RingGet
  <2>2. g = h
    <3>1. \A i \in 1..u : g[i] = h[i]
      <4>1. \A i \in 1..u : i \in 1..u - n /\ n + i = i
        BY <1>1, <1>4
      <4> QED BY <1>3, <4>1
    <3>2. Len(g) = u /\ DOMAIN g = 1..u /\ DOMAIN h = 1..u
      <4>1. Len(g) = u
        BY <1>1, <1>3, <1>4
      <4> QED BY <1>2, <1>3, <4>1, LenProperties
    <3> HIDE DEF g
    <3> QED BY <1>2, <1>3, <3>1, <3>2, SeqEqual
  <2>3. u - n = u
    BY <1>1, <1>4
  <2> QED BY <1>6, <2>1, <2>2, <2>3
<1>5. CASE n # 0
  <2>1. N # 0 /\ N = PipeSize /\ n \in 1..u /\ u \in 0..N /\ n \in 0..N /\ u - n \in 0..N
    BY <1>1, <1>2, <1>5
  <2>2. p = [o EXCEPT !.buffer = b, !.read_index = q, !.bytes_used = u - n]
    BY <1>5 DEF RingGet, N, r, u
  <2>3. N \in Nat /\ N # 0 /\ r \in 0..N - 1
    BY <1>1, <1>2, <2>1
  <2>4. /\ \A x \in 0..N : (r + x) % N = IF r + x < N THEN r + x ELSE r + x - N
        /\ \A x \in 0..N - 1 : (x - r) % N = IF x >= r THEN x - r ELSE x - r + N
    BY <2>3, WrapFacts
  <2>5. q = IF r + n < N THEN r + n ELSE r + n - N
    BY <2>1, <2>4
  <2>6. /\ b \in [0..PipeSize - 1 -> Bytes \union {NULL}]
        /\ \A i \in 0..N - 1 : b[i] = IF (i - r) % N < n THEN NULL ELSE o.buffer[i]
    <3>1. DOMAIN o.buffer = 0..N - 1
      BY <1>1, <2>1
    <3> QED BY <1>1, <2>1, <3>1
  <2> HIDE DEF b, p, g, q
  <2>7. q \in 0..N - 1 /\ q \in Nat
    BY <2>1, <2>3, <2>5
  <2>8. \A x \in 0..N : (q + x) % N = IF q + x < N THEN q + x ELSE q + x - N
    BY <2>3, <2>7, WrapFacts
  <2>9. w = (q + (u - n)) % N
    <3>1. w = IF r + u < N THEN r + u ELSE r + u - N
      <4>1. (r + u) % N = IF r + u < N THEN r + u ELSE r + u - N
        BY <2>1, <2>4
      <4>2. w = (r + u) % N
        BY <1>1, <1>2, <2>1
      <4> QED BY <4>1, <4>2
    <3>2. (q + (u - n)) % N = IF q + (u - n) < N THEN q + (u - n) ELSE q + (u - n) - N
      BY <2>1, <2>8
    <3> QED BY <1>1, <1>2, <2>1, <2>3, <2>5, <2>7, <3>1, <3>2
  <2>10. /\ p \in PipeObj /\ p.buffer = b /\ p.write_index = w /\ p.bytes_used = u - n
         /\ p.read_index = q /\ p.size = N /\ p.writers = o.writers
    <3> DEFINE v == u - n
    <3>1. v \in Nat /\ p = [o EXCEPT !.buffer = b, !.read_index = q, !.bytes_used = v]
      BY <1>1, <2>1, <2>2
    <3> HIDE DEF v
    <3>2. /\ p \in PipeObj /\ p.buffer = b /\ p.write_index = o.write_index /\ p.bytes_used = v
          /\ p.read_index = q /\ p.size = o.size /\ p.writers = o.writers
      BY <1>1, <2>6, <2>7, <3>1 DEF PipeObj
    <3> QED BY <1>6, <3>2 DEF v
  <2>11. ASSUME NEW i \in 1..u - n PROVE g[i] = b[(q + (i - 1)) % N]
    <3> DEFINE x == (q + (i - 1)) % N
               y == (r + (n + i - 1)) % N
               z == (x - r) % N
    <3>1. i - 1 \in 0..N /\ n + i - 1 \in 0..N /\ n + i \in 1..u
      BY <1>1, <2>1, <2>3
    <3>2. x = IF q + (i - 1) < N THEN q + (i - 1) ELSE q + (i - 1) - N
      BY <2>8, <3>1
    <3>3. y = IF r + (n + i - 1) < N THEN r + (n + i - 1) ELSE r + (n + i - 1) - N
      BY <2>4, <3>1
    <3>4. h[n + i] = o.buffer[y]
      <4>1. N > 0 /\ (n + i) - 1 = n + i - 1
        BY <2>1, <1>1
      <4>2. h[n + i] = o.buffer[(r + ((n + i) - 1)) % N]
        BY <1>2, <3>1, <4>1
      <4> QED BY <4>1, <4>2
    <3> HIDE DEF x, y
    <3>5. x \in 0..N - 1
      BY <2>1, <2>3, <2>7, <3>1, <3>2
    <3>6. z = IF x >= r THEN x - r ELSE x - r + N
      BY <2>4, <3>5
    <3>7. b[x] = IF z < n THEN NULL ELSE o.buffer[x]
      BY <2>6, <3>5
    <3> HIDE DEF z
    <3>8. GetSpots(N, r, u, n, i, q, x, y, z)
      BY <2>1, <2>3, <2>5, <3>2, <3>3, <3>6 DEF GetSpots
    <3>9. x = y /\ ~(z < n)
      BY <3>8, GetSpot
    <3>10. g[i] = h[n + i]
      BY <1>3
    <3>11. g[i] = b[x]
      BY <3>4, <3>7, <3>9, <3>10
    <3> QED BY <3>11 DEF x
  <2>12. q < N /\ u - n <= N
    BY <2>1, <2>3, <2>7
  <2>13. p.size > 0 => /\ p.read_index < p.size
                       /\ p.write_index = (p.read_index + p.bytes_used) % p.size
                       /\ \A i \in 1..p.bytes_used : g[i] = p.buffer[(p.read_index + (i - 1)) % p.size]
    BY <2>9, <2>10, <2>11, <2>12
  <2> QED BY <1>3, <1>6, <2>10, <2>12, <2>13 DEF PipeRing, g, p
<1> QED BY <1>4, <1>5

\* k elements of a sequence behind a others.
LEMMA MiddleFacts ==
    ASSUME NEW S, NEW s \in Seq(S), NEW a \in Nat, NEW k \in Nat, a + k <= Len(s)
    PROVE  SubSeq(s, a + 1, a + k) \in Seq(S) /\ Len(SubSeq(s, a + 1, a + k)) = k
<1> DEFINE b == SubSeq(s, a + 1, a + k)
           N == Len(s)
<1>1. N \in Nat /\ DOMAIN s = 1..N /\ \A j \in a + 1..a + k : s[j] \in S
  <2>1. N \in Nat /\ DOMAIN s = 1..N /\ \A j \in 1..N : s[j] \in S
    BY LenProperties, ElementOfSeq
  <2>2. \A j \in a + 1..a + k : j \in 1..N
    BY <2>1
  <2> QED BY <2>1, <2>2
<1>2. a + 1 \in Int /\ a + k \in Int
  OBVIOUS
<1>3. /\ b \in Seq(S)
      /\ Len(b) = IF a + 1 <= a + k THEN (a + k) - (a + 1) + 1 ELSE 0
  BY <1>1, <1>2, SubSeqProperties
<1> HIDE DEF b
<1>4. Len(b) = k
  BY <1>3
<1> QED BY <1>3, <1>4 DEF b

\* The walk of FlattenSeq over the first n sequences.
IsFlat(q, n, g) == g = [i \in 1..n |-> IF i = 1 THEN q[i] ELSE g[i - 1] \o q[i]]

\* There is such a walk over any number of sequences.
LEMMA FlatExists ==
    ASSUME NEW q
    PROVE  \A n \in Nat : \E g : IsFlat(q, n, g)
<1> DEFINE T == {n \in Nat : \E g : IsFlat(q, n, g)}
           Turn(p, i) == IF i = 1 THEN q[i] ELSE p \o q[i]
<1>1. ASSUME NEW n \in Nat, \A m \in Nat : m < n => m \in T
      PROVE  n \in T
  <2>1. CASE n = 0
    <3> DEFINE g == [i \in 1..0 |-> <<>>]
    <3>1. IsFlat(q, 0, g)
      BY DEF IsFlat
    <3> QED BY <2>1, <3>1
  <2>2. CASE n # 0
    <3>1. n - 1 \in T
      BY <1>1, <2>2
    <3>2. PICK h : IsFlat(q, n - 1, h)
      BY <3>1
    <3> DEFINE last == Turn(h[n - 1], n)
               g == [i \in 1..n |-> IF i = n THEN last ELSE h[i]]
    <3>3. \A i \in 1..(n - 1) : h[i] = Turn(h[i - 1], i)
      BY <3>2 DEF IsFlat
    <3>4. \A i \in 1..(n - 1) : g[i] = h[i]
      BY <2>2
    <3>5. g[n] = last
      BY <2>2
    <3> HIDE DEF last
    <3>6. \A i \in 1..n : g[i] = Turn(g[i - 1], i)
      <4> SUFFICES ASSUME NEW i \in 1..n PROVE g[i] = Turn(g[i - 1], i)
        OBVIOUS
      <4> HIDE DEF g
      <4>1. CASE i = n /\ n # 1
        <5>1. g[n - 1] = h[n - 1]
          BY <2>2, <3>4, <4>1
        <5> QED BY <2>2, <3>5, <4>1, <5>1 DEF last
      <4>2. CASE i = n /\ n = 1
        BY <3>5, <4>2 DEF last
      <4>3. CASE i # n
        <5>1. i \in 1..(n - 1) /\ (i # 1 => i - 1 \in 1..(n - 1))
          BY <4>3
        <5>2. g[i] = h[i] /\ (i # 1 => g[i - 1] = h[i - 1])
          BY <3>4, <5>1
        <5> QED BY <3>3, <5>1, <5>2
      <4> QED BY <4>1, <4>2, <4>3
    <3>7. g = [i \in 1..n |-> g[i]]
      OBVIOUS
    <3> HIDE DEF g
    <3>8. IsFlat(q, n, g)
      BY <3>6, <3>7 DEF IsFlat
    <3> QED BY <3>8
  <2> QED BY <2>1, <2>2
<1>2. T \in SUBSET Nat
  OBVIOUS
<1>3. \A n \in Nat : n \in T
  <2> HIDE DEF T
  <2> QED BY <1>1, <1>2, CompleteInduction
<1> QED BY <1>3

\* Sequences one behind the other are as long as they are together.
LEMMA FlattenFacts ==
    ASSUME NEW S, NEW m \in Nat, NEW q \in [1..m -> Seq(S)], NEW e, \A i \in 1..m : e[i] = Len(q[i])
    PROVE  FlattenSeq(q) \in Seq(S) /\ Len(FlattenSeq(q)) = SumFunctionOnSet(e, 1..m)
<1> DEFINE g == CHOOSE h : IsFlat(q, m, h)
           E(i) == SumFunctionOnSet(e, 1..i)
           T == {i \in Nat : i \in 1..m => g[i] \in Seq(S) /\ Len(g[i]) = E(i)}
<1>1. q \in Seq(Seq(S)) /\ Len(q) = m
  BY FunctionIsSeq
<1>2. \A i \in 1..m : q[i] \in Seq(S) /\ Len(q[i]) \in Nat /\ e[i] \in Nat
  BY LenProperties
<1>3. /\ E(0) = 0 /\ \A i \in 0..m : E(i) \in Int
      /\ \A i \in 1..m : E(i) = E(i - 1) + e[i]
  <2>1. \A i \in 1..m : e[i] \in Int
    BY <1>2
  <2> QED BY <2>1, SumFirst
<1> HIDE DEF E
<1>4. CASE m = 0
  <2>1. FlattenSeq(q) = q /\ q = <<>>
    BY <1>1, <1>4, EmptySeq DEF FlattenSeq
  <2>2. <<>> \in Seq(S) /\ Len(<<>>) = 0
    BY EmptySeq
  <2>3. E(m) = 0
    BY <1>3, <1>4
  <2> QED BY <2>1, <2>2, <2>3 DEF E
<1>5. CASE m # 0
  <2>1. IsFlat(q, m, g)
    BY FlatExists
  <2>2. FlattenSeq(q) = g[m]
    BY <1>1, <1>5 DEF FlattenSeq, IsFlat
  <2> HIDE DEF g
  <2>3. \A i \in 1..m : g[i] = IF i = 1 THEN q[i] ELSE g[i - 1] \o q[i]
    BY <2>1 DEF IsFlat
  <2>4. ASSUME NEW n \in Nat, \A k \in Nat : k < n => k \in T
        PROVE  n \in T
    <3> SUFFICES ASSUME n \in 1..m PROVE g[n] \in Seq(S) /\ Len(g[n]) = E(n)
      OBVIOUS
    <3>1. g[n] = (IF n = 1 THEN q[n] ELSE g[n - 1] \o q[n]) /\ E(n) = E(n - 1) + Len(q[n])
      BY <1>2, <1>3, <2>3
    <3>2. CASE n = 1
      <4>1. n - 1 = 0
        BY <3>2
      <4>2. g[n] = q[n] /\ E(n) = 0 + Len(q[n])
        BY <1>3, <3>1, <3>2, <4>1
      <4> QED BY <1>2, <4>2
    <3>3. CASE n # 1
      <4>1. n - 1 \in 1..m /\ n - 1 < n /\ n - 1 \in Nat
        BY <3>3
      <4>2. g[n - 1] \in Seq(S) /\ Len(g[n - 1]) = E(n - 1)
        BY <2>4, <4>1
      <4> DEFINE a == g[n - 1]
                 b == q[n]
      <4>3. a \in Seq(S) /\ b \in Seq(S) /\ g[n] = a \o b
        BY <1>2, <3>1, <3>3, <4>2
      <4>4. Len(a) + Len(b) = E(n)
        BY <3>1, <4>2
      <4> HIDE DEF a, b
      <4>5. a \o b \in Seq(S) /\ Len(a \o b) = Len(a) + Len(b)
        BY <4>3, ConcatFacts
      <4> QED BY <4>3, <4>4, <4>5
    <3> QED BY <3>2, <3>3
  <2>5. T \in SUBSET Nat
    OBVIOUS
  <2>6. \A n \in Nat : n \in T
    <3> HIDE DEF T
    <3> QED BY <2>4, <2>5, CompleteInduction
  <2>7. m \in T /\ m \in 1..m
    BY <1>5, <2>6
  <2> QED BY <2>2, <2>7 DEF E
<1> QED BY <1>4, <1>5

\* What the threads in front of a place of the queue have to move.
LEMMA BeforeFacts ==
    ASSUME NEW q \in Seq(Threads), \A i \in 1..Len(q) : Rest(q[i]) \in Nat
    PROVE  /\ Before(q, 1) = 0 /\ Total(q) = Before(q, Len(q) + 1)
           /\ \A i \in 1..Len(q) : Before(q, i + 1) = Before(q, i) + Rest(q[i])
           /\ \A i \in 1..Len(q) + 1 : Before(q, i) \in Nat
           /\ \A i \in 1..Len(q) + 1 : \A j \in i..Len(q) + 1 : Before(q, i) <= Before(q, j)
<1> DEFINE N == Len(q)
           e == [j \in 1..N |-> Rest(q[j])]
           E(i) == SumFunctionOnSet(e, 1..i)
<1>1. N \in Nat
  BY LenProperties
<1>2. \A j \in 1..N : e[j] \in Nat /\ e[j] \in Int /\ e[j] = Rest(q[j])
  OBVIOUS
<1>3. \A i : Before(q, i) = E(i - 1)
  BY DEF Before
<1> HIDE DEF e, N
<1>4. /\ E(0) = 0
      /\ \A i \in 1..N : E(i) = E(i - 1) + e[i]
  BY <1>1, <1>2, SumFirst
<1>5. /\ \A i \in 0..N : E(i) \in Nat
      /\ \A i \in 0..N : \A j \in i..N : E(i) <= E(j)
  BY <1>1, <1>2, SumMonotone
<1> HIDE DEF E
<1>6. Before(q, 1) = 0
  BY <1>3, <1>4
<1>7. ASSUME NEW i \in 1..N PROVE Before(q, i + 1) = Before(q, i) + Rest(q[i])
  <2>1. i + 1 - 1 = i
    OBVIOUS
  <2>2. E(i) = E(i - 1) + Rest(q[i])
    BY <1>2, <1>4
  <2> QED BY <1>3, <2>1, <2>2
<1>8. ASSUME NEW i \in 1..N + 1
      PROVE  Before(q, i) \in Nat /\ \A j \in i..N + 1 : Before(q, i) <= Before(q, j)
  <2>1. i - 1 \in 0..N /\ \A j \in i..N + 1 : j - 1 \in i - 1..N
    BY <1>1
  <2> QED BY <1>3, <1>5, <2>1
<1> QED BY <1>6, <1>7, <1>8 DEF N, Total

\* pipe_xfer_prepare: those served in full by n bytes are the first in the queue.
LEMMA ServedFacts ==
    ASSUME NEW q \in Seq(Threads), \A i \in 1..Len(q) : Rest(q[i]) \in Nat, NEW n \in Nat
    PROVE  /\ Served(q, n) \in 0..Len(q)
           /\ \A i \in 1..Len(q) : i <= Served(q, n) <=> Before(q, i + 1) <= n
<1> DEFINE N == Len(q)
           C == {j \in 1..N + 1 : j = N + 1 \/ ~(Before(q, j + 1) <= n)}
           M == {i \in 1..N : Before(q, i + 1) <= n}
<1>1. N \in Nat
  BY LenProperties
<1>2. /\ \A i \in 1..N + 1 : Before(q, i) \in Nat
      /\ \A i \in 1..N + 1 : \A j \in i..N + 1 : Before(q, i) <= Before(q, j)
  BY BeforeFacts
<1> HIDE DEF N
<1>3. N + 1 \in C /\ C \in SUBSET Nat
  BY <1>1
<1>4. \E x \in C : \A y \in C : x <= y
  <2>1. C # {}
    BY <1>3
  <2> HIDE DEF C
  <2> QED BY <1>3, <2>1, LeastNatural
<1>5. PICK c \in C : \A y \in C : c <= y
  BY <1>4
<1> DEFINE m == c - 1
<1>6. m \in 0..N /\ m \in Nat
  BY <1>1, <1>5
<1>7. ASSUME NEW i \in 1..N PROVE i <= m <=> Before(q, i + 1) <= n
  <2>1. CASE i <= m
    <3>1. i \in 1..N + 1 /\ ~(c <= i) /\ i # N + 1
      BY <1>1, <1>5, <2>1
    <3>2. i \notin C
      BY <1>5, <3>1
    <3> QED BY <2>1, <3>1, <3>2
  <2>2. CASE ~(i <= m)
    <3>1. c \in 1..N /\ c + 1 \in 1..N + 1 /\ i + 1 \in c + 1..N + 1 /\ i + 1 \in 1..N + 1 /\ c # N + 1
      BY <1>1, <1>5, <2>2
    <3>2. ~(Before(q, c + 1) <= n)
      BY <1>5, <3>1
    <3>3. Before(q, c + 1) <= Before(q, i + 1) /\ Before(q, c + 1) \in Nat /\ Before(q, i + 1) \in Nat
      BY <1>2, <3>1
    <3> QED BY <2>2, <3>2, <3>3
  <2> QED BY <2>1, <2>2
<1>8. M = 1..m
  BY <1>1, <1>6, <1>7
<1>9. Cardinality(1..m) = m
  <2> HIDE DEF m
  <2>1. Cardinality(1..m) = IF 1 > m THEN 0 ELSE m - 1 + 1
    BY <1>6, FS_Interval
  <2> QED BY <1>6, <2>1
<1>10. Served(q, n) = m
  <2>1. Served(q, n) = Cardinality(M)
    BY DEF Served, N
  <2> QED BY <1>8, <1>9, <2>1
<1> QED BY <1>6, <1>7, <1>10 DEF N

\* What a thread in a call has: its descriptor, with something still to move.
PipeWrites == [bytes : Seq(Bytes), lacking : Nat]
PipeReads == [left : Nat, lacking : Nat]
PipeData == PipeWrites \union PipeReads \union {NULL}
RestOf(r) == IF r.op = "write" THEN Len(r.data.bytes) ELSE r.data.left
Xfer(r) ==
    /\ r.op \in {"write", "read"}
    /\ r.op = "write" => r.data \in PipeWrites
    /\ r.op = "read" => r.data \in PipeReads
    /\ r.data.lacking <= RestOf(r)
PipeCall(r) ==
    /\ r.st = "pend" => r.ret = "EAGAIN" /\ Xfer(r) /\ RestOf(r) > 0
    /\ r.st = "woken" => /\ Xfer(r)
                         /\ r.ret # "EAGAIN" => r.data.lacking = 0
                         /\ r.ret = "served" => RestOf(r) = 0

\* What is still to move is a number, and no more than that is lacking.
LEMMA XferFacts ==
    ASSUME NEW r, Xfer(r)
    PROVE  RestOf(r) \in Nat /\ r.data.lacking \in Nat /\ r.data.lacking <= RestOf(r) /\ r.data \in PipeData
<1>1. CASE r.op = "write"
  <2>1. r.data \in PipeWrites
    BY <1>1 DEF Xfer
  <2>2. r.data.bytes \in Seq(Bytes) /\ r.data.lacking \in Nat
    BY <2>1 DEF PipeWrites
  <2>3. Len(r.data.bytes) \in Nat
    BY <2>2, LenProperties
  <2> QED BY <1>1, <2>1, <2>2, <2>3 DEF Xfer, RestOf, PipeData
<1>2. CASE r.op # "write"
  <2>1. r.data \in PipeReads
    BY <1>2 DEF Xfer
  <2>2. r.data.left \in Nat /\ r.data.lacking \in Nat
    BY <2>1 DEF PipeReads
  <2> QED BY <1>2, <2>1, <2>2 DEF Xfer, RestOf, PipeData
<1> QED BY <1>1, <1>2

\* The descriptor after k bytes were moved.
Moved(r, k) ==
    IF r.op = "write"
    THEN [r.data EXCEPT !.bytes = Dropped(@, k), !.lacking = Max({0, @ - k})]
    ELSE [r.data EXCEPT !.left = @ - k, !.lacking = Max({0, @ - k})]

\* Moving k bytes leaves k fewer, and nothing lacking when all are moved.
LEMMA MovedOK ==
    ASSUME NEW r, Xfer(r), NEW k \in 0..RestOf(r), NEW s, s.op = r.op, s.data = Moved(r, k)
    PROVE  Xfer(s) /\ RestOf(s) = RestOf(r) - k /\ (k = RestOf(r) => s.data.lacking = 0)
<1> DEFINE d == r.data
           x == d.lacking
           l == Max({0, d.lacking - k})
<1>1. RestOf(r) \in Nat /\ x \in Nat /\ x <= RestOf(r) /\ k \in Nat /\ k <= RestOf(r)
  BY XferFacts
<1>2. l = (IF x >= k THEN x - k ELSE 0) /\ l \in Nat
  <2> HIDE DEF x
  <2>1. 0 \in Int /\ x - k \in Int
    BY <1>1
  <2>2. Max({0, x - k}) = IF 0 >= x - k THEN 0 ELSE x - k
    BY <2>1, OfTwo
  <2> QED BY <1>1, <2>2 DEF x
<1>3. l <= RestOf(r) - k /\ (k = RestOf(r) => l = 0)
  <2> HIDE DEF x, l
  <2> QED BY <1>1, <1>2
<1>4. CASE r.op = "write"
  <2> DEFINE b == Dropped(d.bytes, k)
  <2>1. d \in PipeWrites /\ d.bytes \in Seq(Bytes) /\ RestOf(r) = Len(d.bytes)
    BY <1>4 DEF Xfer, RestOf, PipeWrites
  <2>2. b \in Seq(Bytes) /\ Len(b) = Len(d.bytes) - k
    <3>1. k \in 0..Len(d.bytes)
      BY <2>1
    <3> HIDE DEF d
    <3> QED BY <2>1, <3>1, SuffixFacts DEF Dropped
  <2>3. s.data = [d EXCEPT !.bytes = b, !.lacking = l]
    BY <1>4 DEF Moved
  <2> HIDE DEF d, b, l
  <2>4. s.data \in PipeWrites /\ s.data.bytes = b /\ s.data.lacking = l
    BY <1>2, <2>1, <2>2, <2>3 DEF PipeWrites
  <2>5. RestOf(s) = RestOf(r) - k
    BY <1>4, <2>1, <2>2, <2>4 DEF RestOf
  <2> QED BY <1>3, <1>4, <2>4, <2>5 DEF Xfer
<1>5. CASE r.op # "write"
  <2> DEFINE b == d.left - k
  <2>1. d \in PipeReads /\ d.left \in Nat /\ RestOf(r) = d.left /\ r.op = "read"
    BY <1>5 DEF Xfer, RestOf, PipeReads
  <2>2. b \in Nat /\ b = RestOf(r) - k
    BY <1>1, <2>1
  <2>3. s.data = [d EXCEPT !.left = b, !.lacking = l]
    BY <1>5 DEF Moved
  <2> HIDE DEF d, b, l
  <2>4. s.data \in PipeReads /\ s.data.left = b /\ s.data.lacking = l
    BY <1>2, <2>1, <2>2, <2>3 DEF PipeReads
  <2>5. RestOf(s) = RestOf(r) - k
    BY <1>5, <2>2, <2>4 DEF RestOf
  <2> QED BY <1>3, <1>5, <2>1, <2>4, <2>5 DEF Xfer
<1> QED BY <1>4, <1>5

\* In the queue q are threads that wait with something to move.
PipeQueue(q) ==
    /\ q \in Seq(Threads) /\ IsInjective(q)
    /\ \A t \in Range(q) : /\ t \in Threads /\ th[t] \in ThreadType(PipeData)
                           /\ Pends(t) /\ PipeCall(th[t])

\* A thread in the queue has a number of bytes to move.
LEMMA QueueRest ==
    ASSUME NEW q, PipeQueue(q)
    PROVE  \A i \in 1..Len(q) : /\ q[i] \in Range(q) /\ q[i] \in Threads
                                /\ Rest(q[i]) \in Nat /\ Rest(q[i]) > 0 /\ Rest(q[i]) = RestOf(th[q[i]])
<1> SUFFICES ASSUME NEW i \in 1..Len(q)
             PROVE  /\ q[i] \in Range(q) /\ q[i] \in Threads
                    /\ Rest(q[i]) \in Nat /\ Rest(q[i]) > 0 /\ Rest(q[i]) = RestOf(th[q[i]])
  OBVIOUS
<1>1. q[i] \in Range(q)
  BY RangeMembers DEF PipeQueue
<1>2. q[i] \in Threads /\ Pends(q[i]) /\ PipeCall(th[q[i]])
  BY <1>1 DEF PipeQueue
<1>3. Xfer(th[q[i]]) /\ RestOf(th[q[i]]) > 0
  BY <1>2 DEF PipeCall, Pends
<1>4. RestOf(th[q[i]]) \in Nat
  BY <1>3, XferFacts
<1>5. Rest(q[i]) = RestOf(th[q[i]])
  BY DEF Rest, RestOf
<1> QED BY <1>1, <1>2, <1>3, <1>4, <1>5

\* n bytes are there for the queue q, so that this many are moved.
Amount(q, n) == IF n <= Total(q) THEN n ELSE Total(q)

\* Those served in full are woken, and the others go on waiting.
LEMMA TransferredOK ==
    ASSUME NEW q, PipeQueue(q), NEW n \in Nat, NEW i \in 1..Len(q), NEW r,
           r = Transferred(q, Amount(q, n), Served(q, n), q[i])
    PROVE  /\ r \in ThreadType(PipeData) /\ r.op = th[q[i]].op /\ PipeCall(r)
           /\ r.st = IF i <= Served(q, n) THEN "woken" ELSE "pend"
<1> DEFINE t == q[i]
           a == Amount(q, n)
           served == Served(q, n)
           k == Share(q, i, a)
           d == Moved(th[t], k)
           R == RestOf(th[t])
<1>1. /\ q \in Seq(Threads) /\ IsInjective(q) /\ Len(q) \in Nat /\ DOMAIN q = 1..Len(q)
      /\ t \in Range(q) /\ t \in Threads /\ Rest(t) = R /\ R \in Nat /\ R > 0
      /\ \A j \in 1..Len(q) : Rest(q[j]) \in Nat
  BY QueueRest, LenProperties DEF PipeQueue
<1>2. th[t] \in ThreadType(PipeData) /\ th[t].st = "pend" /\ th[t].ret = "EAGAIN" /\ Xfer(th[t])
  BY <1>1 DEF PipeQueue, PipeCall, Pends
<1>3. (CHOOSE j \in 1..Len(q) : q[j] = t) = i
  BY <1>1 DEF IsInjective
<1>4. r = IF i <= served THEN WokenWith(t, "served", d) ELSE [th[t] EXCEPT !.data = d]
  BY <1>3 DEF Transferred, Moved
<1>5. /\ Before(q, i + 1) = Before(q, i) + R /\ Before(q, i) \in Nat
      /\ Before(q, i + 1) <= Total(q) /\ Total(q) \in Nat
  <2>1. /\ \A j \in 1..Len(q) : Before(q, j + 1) = Before(q, j) + Rest(q[j])
        /\ \A j \in 1..Len(q) + 1 : Before(q, j) \in Nat
        /\ \A j \in 1..Len(q) + 1 : \A l \in j..Len(q) + 1 : Before(q, j) <= Before(q, l)
        /\ Total(q) = Before(q, Len(q) + 1)
    BY <1>1, BeforeFacts
  <2>2. /\ i \in 1..Len(q) + 1 /\ i + 1 \in 1..Len(q) + 1 /\ Len(q) + 1 \in i + 1..Len(q) + 1
        /\ Len(q) + 1 \in 1..Len(q) + 1
    BY <1>1
  <2> QED BY <1>1, <2>1, <2>2
<1>6. i <= served <=> Before(q, i + 1) <= n
  BY <1>1, ServedFacts
<1>7. a \in Nat /\ (i <= served <=> Before(q, i + 1) <= a)
  <2>1. a = IF n <= Total(q) THEN n ELSE Total(q)
    BY DEF Amount
  <2> HIDE DEF a, R
  <2> QED BY <1>1, <1>5, <1>6, <2>1
<1>8. k \in 0..R /\ (i <= served => k = R) /\ (~(i <= served) => k < R)
  <2> DEFINE b == Before(q, i)
             x == IF 0 >= a - b THEN 0 ELSE a - b
  <2>1. b \in Nat /\ 0 \in Int /\ a - b \in Int
    BY <1>5, <1>7
  <2> HIDE DEF a, b, R
  <2>2. Max({0, a - b}) = IF 0 >= a - b THEN 0 ELSE a - b
    BY <2>1, OfTwo
  <2>3. k = Min({R, x})
    BY <1>1, <2>2 DEF Share, b
  <2>4. x \in Nat
    BY <2>1
  <2>5. x = IF 0 >= a - b THEN 0 ELSE a - b
    OBVIOUS
  <2> HIDE DEF x
  <2>6. Min({R, x}) = IF R <= x THEN R ELSE x
    BY <1>1, <2>4, OfTwo
  <2>8. i <= served <=> b + R <= a
    BY <1>5, <1>7 DEF b
  <2> HIDE DEF k, served
  <2>9. k = IF R <= x THEN R ELSE x
    BY <2>3, <2>6
  <2> QED BY <1>1, <1>7, <2>1, <2>4, <2>5, <2>8, <2>9
<1> HIDE DEF a, k, served
<1>9. ASSUME NEW s, s.op = th[t].op, s.data = d
      PROVE  /\ Xfer(s) /\ RestOf(s) = R - k /\ (k = R => s.data.lacking = 0)
             /\ s.data \in PipeData
  <2>1. Xfer(s) /\ RestOf(s) = R - k /\ (k = R => s.data.lacking = 0)
    <3> HIDE DEF t
    <3> QED BY <1>2, <1>8, <1>9, MovedOK
  <2> QED BY <2>1, XferFacts
<1> HIDE DEF d
<1>10. d \in PipeData
  <2> DEFINE s == [op |-> th[t].op, data |-> d]
  <2>1. s.op = th[t].op /\ s.data = d
    OBVIOUS
  <2> HIDE DEF s
  <2> QED BY <1>9, <2>1
<1> DEFINE r0 == th[t]
<1> HIDE DEF r0
<1>11. CASE i <= served
  <2>1. r = [r0 EXCEPT !.st = "woken", !.ret = "served", !.data = d, !.armed = FALSE]
    BY <1>4, <1>11 DEF WokenWith, r0
  <2>2. r0 \in ThreadType(PipeData)
    BY <1>2 DEF r0
  <2>3. r \in ThreadType(PipeData) /\ r.op = r0.op /\ r.data = d /\ r.st = "woken" /\ r.ret = "served"
    BY <1>10, <2>1, <2>2 DEF ThreadType, States, Rets
  <2>4. Xfer(r) /\ RestOf(r) = R - k /\ r.data.lacking = 0
    BY <1>8, <1>9, <1>11, <2>3 DEF r0
  <2>5. RestOf(r) = 0
    BY <1>1, <1>8, <1>11, <2>4
  <2> QED BY <1>11, <2>3, <2>4, <2>5 DEF PipeCall, r0, served
<1>12. CASE ~(i <= served)
  <2>1. r = [r0 EXCEPT !.data = d]
    BY <1>4, <1>12 DEF r0
  <2>2. r0 \in ThreadType(PipeData) /\ r0.st = "pend" /\ r0.ret = "EAGAIN"
    BY <1>2 DEF r0
  <2>3. r \in ThreadType(PipeData) /\ r.op = r0.op /\ r.data = d /\ r.st = "pend" /\ r.ret = "EAGAIN"
    BY <1>10, <2>1, <2>2 DEF ThreadType
  <2>4. Xfer(r) /\ RestOf(r) = R - k
    BY <1>9, <2>3 DEF r0
  <2>5. RestOf(r) > 0
    BY <1>1, <1>8, <1>12, <2>4
  <2> QED BY <1>12, <2>3, <2>4, <2>5 DEF PipeCall, r0, served
<1> QED BY <1>11, <1>12

\* The invariant of pipes.
PipeInv ==
    /\ WaitOK(th, wait_q, PipeData, {"read"})
    /\ WaitOK(th, obj.writers, PipeData, {"write"})
    /\ PipeRing(obj, held)
    /\ \A t \in Threads : PipeCall(th[t])
    /\ wait_q # <<>> => obj.bytes_used = 0 /\ obj.writers = <<>>
    /\ obj.writers # <<>> => obj.bytes_used = obj.size

\* The invariant of pipes says what Pipe states.
LEMMA PipeMeans ==
    ASSUME PipeInv
    PROVE  PipeContents /\ PipeNobodyStranded /\ PipeResults
<1>1. PipeContents
  <2> DEFINE o == obj
             f == [i \in 1..o.bytes_used |-> o.buffer[(o.read_index + i - 1) % o.size]]
  <2>1. /\ held \in Seq(Bytes) /\ Len(held) = o.bytes_used /\ o.bytes_used \in Nat /\ o.size \in Nat
        /\ o.bytes_used <= o.size /\ o.read_index \in Nat
        /\ o.size > 0 => \A i \in 1..o.bytes_used : held[i] = o.buffer[(o.read_index + (i - 1)) % o.size]
    BY PipeAssumption DEF PipeInv, PipeRing, PipeObj
  <2>2. ASSUME NEW i \in 1..o.bytes_used PROVE held[i] = f[i]
    <3>1. o.size > 0 /\ o.read_index + (i - 1) = o.read_index + i - 1
      BY <2>1
    <3> QED BY <2>1, <3>1
  <2>3. f = [i \in 1..Len(held) |-> f[i]]
    BY <2>1
  <2> HIDE DEF f
  <2>5. \A i \in 1..Len(held) : held[i] = f[i]
    BY <2>1, <2>2
  <2>6. held \in Seq(Bytes)
    BY <2>1
  <2>4. held = f
    BY <2>3, <2>5, <2>6, SeqIs
  <2> QED BY <2>4 DEF f, PipeContents
<1>2. \A t \in Waiters \union Range(obj.writers) : Rest(t) > 0
  <2> SUFFICES ASSUME NEW t \in Waiters \union Range(obj.writers) PROVE Rest(t) > 0
    OBVIOUS
  <2>1. t \in Threads
    BY RangeMembers DEF PipeInv, WaitOK, Waiters
  <2>2. th[t].st = "pend"
    BY <2>1 DEF PipeInv, WaitOK, Waiters, Waits
  <2>3. RestOf(th[t]) > 0
    BY <2>1, <2>2 DEF PipeInv, PipeCall
  <2> QED BY <2>3 DEF Rest, RestOf
<1>3. PipeResults
  BY DEF PipeInv, PipeCall, PipeResults, Rest, RestOf, Woken
<1> QED BY <1>1, <1>2, <1>3 DEF PipeInv, PipeNobodyStranded

\* The thread that calls, afterwards: it has moved all, or returns with enough
\* moved, or waits.
IsCaller(c, op, data, rest) ==
    \/ rest = 0 /\ c = Running
    \/ /\ rest # 0 /\ data.lacking = 0
       /\ c = [Running EXCEPT !.st = "woken", !.op = op, !.data = data]
    \/ rest # 0 /\ c = Pended(op, data, TRUE)

\* Its call is as PipeCall says.
LEMMA CallerOK ==
    ASSUME NEW op \in {"write", "read"}, NEW data, NEW rest, NEW c, IsCaller(c, op, data, rest),
           NEW s, s.op = op, s.data = data, Xfer(s), RestOf(s) = rest
    PROVE  c \in ThreadType(PipeData) /\ PipeCall(c) /\ (c.st = "pend" => c.op = op)
<1>1. data \in PipeData /\ rest \in Nat /\ NULL \in PipeData
  BY XferFacts DEF PipeData
<1>2. CASE rest = 0 /\ c = Running
  <2>2. c \in ThreadType(PipeData) /\ c.st = "run"
    BY <1>1, <1>2 DEF Running, ThreadType, States, Ops, Rets
  <2> QED BY <1>2, <2>2 DEF PipeCall
<1>3. CASE /\ rest # 0 /\ data.lacking = 0
           /\ c = [Running EXCEPT !.st = "woken", !.op = op, !.data = data]
  <2>2. /\ c \in ThreadType(PipeData) /\ c.st = "woken" /\ c.op = op /\ c.data = data /\ c.ret = "0"
    BY <1>1, <1>3 DEF Running, ThreadType, States, Ops, Rets
  <2>3. Xfer(c)
    BY <2>2 DEF Xfer, RestOf
  <2> QED BY <1>3, <2>2, <2>3 DEF PipeCall
<1>4. CASE rest # 0 /\ c = Pended(op, data, TRUE)
  <2>2. /\ c \in ThreadType(PipeData) /\ c.st = "pend" /\ c.op = op /\ c.data = data /\ c.ret = "EAGAIN"
    BY <1>1, <1>4 DEF Pended, ThreadType, States, Ops, Rets
  <2>4. rest > 0
    BY <1>1, <1>4
  <2>5. Xfer(c) /\ RestOf(c) = RestOf(s)
    BY <2>2 DEF Xfer, RestOf
  <2>3. Xfer(c) /\ RestOf(c) = rest /\ rest > 0
    BY <2>4, <2>5
  <2> QED BY <1>4, <2>2, <2>3 DEF PipeCall
<1> QED BY <1>2, <1>3, <1>4 DEF IsCaller

\* The threads when t has become c and n bytes were there for the queue q.
Exchange(q, n, t, c) ==
    [u \in Threads |-> IF u = t THEN c
                       ELSE IF u \in Range(q) THEN Transferred(q, Amount(q, n), Served(q, n), u)
                       ELSE th[u]]

\* The caller serves the queue q of the other side, and comes to wait in p or not.
Exchanges(q, p, O, P, n, t, c, g, pp) ==
    /\ O \intersect P = {}
    /\ WaitOK(th, q, PipeData, O) /\ WaitOK(th, p, PipeData, P)
    /\ \A u \in Threads : PipeCall(th[u])
    /\ t \in Threads /\ Runs(t) /\ n \in Nat
    /\ c \in ThreadType(PipeData) /\ PipeCall(c) /\ (c.st = "pend" => c.op \in P)
    /\ g = Exchange(q, n, t, c)
    /\ pp = IF c.st = "pend" THEN InsertByPrio(p, t) ELSE p

\* Both queues have those who wait, and each call is as PipeCall says.
LEMMA ExchangeOK ==
    ASSUME NEW q, NEW p, NEW O, NEW P, NEW n, NEW t, NEW c, NEW g, NEW pp,
           Exchanges(q, p, O, P, n, t, c, g, pp)
    PROVE  /\ WaitOK(g, Dropped(q, Served(q, n)), PipeData, O)
           /\ WaitOK(g, pp, PipeData, P)
           /\ \A u \in Threads : PipeCall(g[u])
           /\ Served(q, n) \in 0..Len(q) /\ Len(Dropped(q, Served(q, n))) = Len(q) - Served(q, n)
<1>0. /\ O \intersect P = {} /\ WaitOK(th, q, PipeData, O) /\ WaitOK(th, p, PipeData, P)
      /\ \A u \in Threads : PipeCall(th[u])
      /\ t \in Threads /\ Runs(t) /\ n \in Nat
      /\ c \in ThreadType(PipeData) /\ PipeCall(c) /\ (c.st = "pend" => c.op \in P)
      /\ g = Exchange(q, n, t, c)
      /\ pp = IF c.st = "pend" THEN InsertByPrio(p, t) ELSE p
  BY DEF Exchanges
<1> DEFINE k == Served(q, n)
           d == Dropped(q, k)
<1>1. /\ th \in [Threads -> ThreadType(PipeData)]
      /\ q \in Seq(Threads) /\ IsInjective(q) /\ \A u \in Threads : u \in Range(q) <=> Waits(th[u], O)
      /\ p \in Seq(Threads) /\ IsInjective(p) /\ \A u \in Threads : u \in Range(p) <=> Waits(th[u], P)
  BY <1>0 DEF WaitOK
<1>2. /\ \A x : x \in Range(q) <=> \E j \in 1..Len(q) : q[j] = x
      /\ Range(q) \subseteq Threads
  BY <1>1, RangeMembers
<1>3. PipeQueue(q)
  BY <1>0, <1>1, <1>2 DEF PipeQueue, Waits, Pends
<1>4. k \in 0..Len(q)
  BY <1>0, <1>1, <1>3, QueueRest, ServedFacts
<1> HIDE DEF k
<1>5. /\ d \in Seq(Threads) /\ IsInjective(d) /\ Len(d) = Len(q) - k
      /\ \A x : x \in Range(d) <=> \E j \in k + 1..Len(q) : q[j] = x
  BY <1>1, <1>4, SuffixFacts DEF Dropped
<1> HIDE DEF d
<1>6. t \notin Range(q) /\ t \notin Range(p)
  BY <1>0, <1>1 DEF Waits, Runs
<1>7. /\ g[t] = c
      /\ \A u \in Range(q) : g[u] = Transferred(q, Amount(q, n), k, u)
      /\ \A u \in Threads : u # t /\ u \notin Range(q) => g[u] = th[u]
  BY <1>0, <1>2, <1>6 DEF Exchange, k
<1>8. ASSUME NEW i \in 1..Len(q)
      PROVE  /\ g[q[i]] \in ThreadType(PipeData) /\ g[q[i]].op = th[q[i]].op /\ PipeCall(g[q[i]])
             /\ g[q[i]].st = IF i <= k THEN "woken" ELSE "pend"
  <2> DEFINE r == g[q[i]]
  <2>1. r = Transferred(q, Amount(q, n), Served(q, n), q[i])
    BY <1>2, <1>7 DEF k
  <2> HIDE DEF r
  <2>2. /\ r \in ThreadType(PipeData) /\ r.op = th[q[i]].op /\ PipeCall(r)
        /\ r.st = IF i <= Served(q, n) THEN "woken" ELSE "pend"
    BY <1>0, <1>3, <2>1, TransferredOK
  <2> QED BY <2>2 DEF r, k
<1>9. \A u \in Range(q) : /\ g[u] \in ThreadType(PipeData) /\ g[u].op = th[u].op /\ PipeCall(g[u])
                          /\ u \in Threads /\ Waits(th[u], O)
  <2> SUFFICES ASSUME NEW u \in Range(q)
               PROVE  /\ g[u] \in ThreadType(PipeData) /\ g[u].op = th[u].op /\ PipeCall(g[u])
                      /\ u \in Threads /\ Waits(th[u], O)
    OBVIOUS
  <2>1. PICK j \in 1..Len(q) : q[j] = u
    BY <1>2
  <2>2. g[u] \in ThreadType(PipeData) /\ g[u].op = th[u].op /\ PipeCall(g[u])
    BY <1>8, <2>1
  <2> QED BY <1>1, <1>2, <2>2
<1>10. \A u \in Threads : g[u] \in ThreadType(PipeData) /\ PipeCall(g[u])
  BY <1>0, <1>1, <1>7, <1>9
<1>11. g \in [Threads -> ThreadType(PipeData)]
  <2>1. g = [u \in Threads |-> g[u]]
    BY <1>0 DEF Exchange
  <2> QED BY <1>10, <2>1
<1>12. ASSUME NEW u \in Threads PROVE u \in Range(d) <=> Waits(g[u], O)
  <2>1. CASE u \in Range(q)
    <3>1. PICK j \in 1..Len(q) : q[j] = u
      BY <1>2, <2>1
    <3>2. g[u].op \in O /\ g[u].st = IF j <= k THEN "woken" ELSE "pend"
      BY <1>8, <1>9, <2>1, <3>1 DEF Waits
    <3>3. u \in Range(d) <=> ~(j <= k)
      <4>1. u \in Range(d) <=> \E l \in k + 1..Len(q) : q[l] = u
        BY <1>5
      <4>2. \A l \in k + 1..Len(q) : l \in 1..Len(q) /\ ~(l <= k)
        BY <1>4
      <4>3. ~(j <= k) => j \in k + 1..Len(q)
        BY <1>4
      <4>4. \A l \in 1..Len(q) : q[l] = u => l = j
        BY <1>1, <3>1, LenProperties DEF IsInjective
      <4> QED BY <3>1, <4>1, <4>2, <4>3, <4>4
    <3> QED BY <3>2, <3>3 DEF Waits
  <2>2. CASE u \notin Range(q)
    <3>1. u \notin Range(d)
      <4>1. \A l \in k + 1..Len(q) : l \in 1..Len(q)
        BY <1>4
      <4> QED BY <1>2, <1>5, <2>2, <4>1
    <3>2. ~Waits(g[u], O)
      <4>1. CASE u = t
        BY <1>0, <1>7, <4>1 DEF Waits
      <4>2. CASE u # t
        BY <1>1, <1>7, <2>2, <4>2
      <4> QED BY <4>1, <4>2
    <3> QED BY <3>1, <3>2
  <2> QED BY <2>1, <2>2
<1>13. WaitOK(g, d, PipeData, O)
  BY <1>5, <1>11, <1>12 DEF WaitOK
<1>14. \A u \in Threads : u # t => (Waits(g[u], P) <=> Waits(th[u], P))
  <2> SUFFICES ASSUME NEW u \in Threads, u # t PROVE Waits(g[u], P) <=> Waits(th[u], P)
    OBVIOUS
  <2>1. CASE u \in Range(q)
    BY <1>0, <1>9, <2>1 DEF Waits
  <2>2. CASE u \notin Range(q)
    BY <1>7, <2>2
  <2> QED BY <2>1, <2>2
<1>15. WaitOK(g, pp, PipeData, P)
  <2>1. CASE c.st = "pend"
    <3>1. /\ pp \in Seq(Threads) /\ IsInjective(pp) /\ Range(pp) = Range(p) \union {t}
      BY <1>0, <1>1, <1>6, <2>1, InsertFacts
    <3>2. Waits(g[t], P)
      BY <1>0, <1>7, <2>1 DEF Waits
    <3> QED BY <1>1, <1>11, <1>14, <3>1, <3>2 DEF WaitOK
  <2>2. CASE c.st # "pend"
    <3>1. ~Waits(g[t], P) /\ pp = p
      BY <1>0, <1>7, <2>2 DEF Waits
    <3> QED BY <1>1, <1>6, <1>11, <1>14, <3>1 DEF WaitOK
  <2> QED BY <2>1, <2>2
<1> QED BY <1>4, <1>5, <1>10, <1>13, <1>15 DEF d, k

\* The pipe with other writers that wait.
WithWriters(o, w) == [o EXCEPT !.writers = w]

\* The ring does not depend on the writers that wait.
LEMMA WithWritersOK ==
    ASSUME NEW o, NEW h, PipeRing(o, h), NEW w \in Seq(Threads), NEW p, p = WithWriters(o, w)
    PROVE  PipeRing(p, h) /\ p.writers = w /\ p.bytes_used = o.bytes_used /\ p.size = o.size
<1>1. o \in PipeObj
  BY DEF PipeRing
<1>2. /\ p \in PipeObj /\ p.buffer = o.buffer /\ p.read_index = o.read_index
      /\ p.write_index = o.write_index /\ p.writers = w /\ p.bytes_used = o.bytes_used /\ p.size = o.size
  BY <1>1 DEF WithWriters, PipeObj
<1> QED BY <1>2 DEF PipeRing

\* What k_pipe_put moves: T bytes are waited for, and there is room for f.
PutSum(n, T, f, m, direct, stored, lacking) ==
    /\ n \in Nat /\ T \in Nat /\ f \in Nat /\ m \in 0..n
    /\ direct = Min({n, T}) /\ stored = Min({n - direct, f})
    /\ lacking = Max({0, m - direct - stored})

\* No more is moved than was asked for, and the rest is left only without room.
LEMMA PutSums ==
    ASSUME NEW n, NEW T, NEW f, NEW m, NEW direct, NEW stored, NEW lacking,
           PutSum(n, T, f, m, direct, stored, lacking)
    PROVE  /\ direct \in Nat /\ direct = IF n <= T THEN n ELSE T
           /\ stored \in Nat /\ stored <= f /\ direct + stored <= n /\ direct + stored \in 0..n
           /\ lacking \in Nat /\ lacking <= n - (direct + stored)
           /\ direct + stored >= m => lacking = 0
           /\ n - (direct + stored) # 0 => direct = T /\ stored = f
           /\ T >= n => stored = 0
<1>0. n \in Nat /\ T \in Nat /\ f \in Nat /\ m \in Nat /\ m <= n
  BY DEF PutSum
<1>1. direct = IF n <= T THEN n ELSE T
  BY <1>0, OfTwo DEF PutSum
<1>2. direct \in Nat /\ direct <= n /\ n - direct \in Nat
  BY <1>0, <1>1
<1>3. stored = IF n - direct <= f THEN n - direct ELSE f
  <2>1. n - direct \in Int /\ f \in Int
    BY <1>0, <1>2
  <2>2. Min({n - direct, f}) = IF n - direct <= f THEN n - direct ELSE f
    BY <2>1, OfTwo
  <2> QED BY <2>2 DEF PutSum
<1>4. stored \in Nat
  BY <1>0, <1>2, <1>3
<1>5. lacking = IF 0 >= m - direct - stored THEN 0 ELSE m - direct - stored
  <2>1. 0 \in Int /\ m - direct - stored \in Int
    BY <1>0, <1>2, <1>4
  <2>2. Max({0, m - direct - stored}) = IF 0 >= m - direct - stored THEN 0 ELSE m - direct - stored
    BY <2>1, OfTwo
  <2> QED BY <2>2 DEF PutSum
<1>6. lacking \in Nat
  BY <1>0, <1>2, <1>4, <1>5
<1>7. /\ stored <= f /\ direct + stored <= n /\ direct + stored \in 0..n
      /\ n - (direct + stored) # 0 => direct = T /\ stored = f
      /\ T >= n => stored = 0
  BY <1>0, <1>1, <1>2, <1>3, <1>4
<1>8. lacking <= n - (direct + stored) /\ (direct + stored >= m => lacking = 0)
  BY <1>0, <1>2, <1>4, <1>5, <1>6, <1>7
<1> QED BY <1>1, <1>2, <1>4, <1>6, <1>7, <1>8

\* What holds of the queue that is served.
LEMMA QueueFacts ==
    ASSUME NEW q, NEW O, WaitOK(th, q, PipeData, O), \A u \in Threads : PipeCall(th[u]), NEW n \in Nat
    PROVE  /\ PipeQueue(q) /\ Total(q) \in Nat /\ Len(q) \in Nat
           /\ Served(q, n) \in 0..Len(q)
           /\ Served(q, n) = Len(q) <=> Total(q) <= n
           /\ q = <<>> => Total(q) = 0
<1>1. PipeQueue(q) /\ q \in Seq(Threads) /\ Len(q) \in Nat
  BY RangeMembers, LenProperties DEF WaitOK, PipeQueue, Waits, Pends
<1>2. \A i \in 1..Len(q) : Rest(q[i]) \in Nat
  BY <1>1, QueueRest
<1>3. /\ Total(q) = Before(q, Len(q) + 1) /\ Before(q, 1) = 0
      /\ \A i \in 1..Len(q) + 1 : Before(q, i) \in Nat
  BY <1>1, <1>2, BeforeFacts
<1>4. /\ Served(q, n) \in 0..Len(q)
      /\ \A i \in 1..Len(q) : i <= Served(q, n) <=> Before(q, i + 1) <= n
  BY <1>1, <1>2, ServedFacts
<1>5. Total(q) \in Nat
  BY <1>1, <1>3
<1>6. q = <<>> => Total(q) = 0 /\ Len(q) = 0
  <2> SUFFICES ASSUME q = <<>> PROVE Total(q) = 0 /\ Len(q) = 0
    OBVIOUS
  <2>1. Len(q) = 0 /\ Len(q) + 1 = 1
    BY EmptySeq
  <2> QED BY <1>3, <2>1
<1>7. CASE Len(q) = 0
  <2>1. q = <<>>
    BY <1>1, <1>7, EmptySeq
  <2>2. Total(q) = 0 /\ Served(q, n) = 0
    BY <1>4, <1>6, <1>7, <2>1
  <2> QED BY <1>1, <1>4, <1>7, <2>1, <2>2
<1>8. CASE Len(q) # 0
  <2>1. Len(q) \in 1..Len(q)
    BY <1>1, <1>8
  <2>2. Len(q) <= Served(q, n) <=> Total(q) <= n
    BY <1>3, <1>4, <2>1
  <2>3. Len(q) <= Served(q, n) <=> Served(q, n) = Len(q)
    BY <1>1, <1>4
  <2> QED BY <1>1, <1>4, <1>5, <1>6, <2>2, <2>3
<1> QED BY <1>7, <1>8

\* k_pipe_put keeps the invariant.
LEMMA PipePutOK ==
    ASSUME PipeInv, NEW t \in Threads, NEW bytes \in Seq(Bytes), NEW min_xfer \in 0..Len(bytes),
           NEW timeout, k_pipe_put(t, bytes, min_xfer, timeout)
    PROVE  PipeInv'
<1> DEFINE n      == Len(bytes)
           q      == wait_q
           T      == Total(wait_q)
           f      == obj.size - obj.bytes_used
           direct == Min({n, Total(wait_q)})
           stored == Min({n - direct, obj.size - obj.bytes_used})
           served == Served(wait_q, n)
           rest   == Dropped(bytes, direct + stored)
           buffer == SubSeq(bytes, direct + 1, direct + stored)
           done   == MayReturn(Len(rest), direct + stored, min_xfer, timeout)
           lacking == Max({0, min_xfer - direct - stored})
           data   == [bytes |-> rest, lacking |-> lacking]
           c      == Caller("write", data, Len(rest), done)
           ww     == IF c.st = "pend" THEN InsertByPrio(obj.writers, t) ELSE obj.writers
           ring   == RingPut(obj, buffer)
<1>1. /\ WaitOK(th, q, PipeData, {"read"}) /\ WaitOK(th, obj.writers, PipeData, {"write"})
      /\ PipeRing(obj, held) /\ \A u \in Threads : PipeCall(th[u])
      /\ q # <<>> => obj.bytes_used = 0 /\ obj.writers = <<>>
      /\ obj.writers # <<>> => obj.bytes_used = obj.size
  BY DEF PipeInv
<1>2. /\ obj.bytes_used \in Nat /\ obj.size \in Nat /\ obj.bytes_used <= obj.size /\ f \in Nat
      /\ f = obj.size - obj.bytes_used
  <2>1. obj.bytes_used \in Nat /\ obj.size \in Nat /\ obj.bytes_used <= obj.size
    BY <1>1, PipeAssumption DEF PipeRing, PipeObj
  <2> QED BY <2>1
<1>3. n \in Nat /\ min_xfer \in 0..n
  BY LenProperties
<1>4. /\ PipeQueue(q) /\ T \in Nat /\ Len(q) \in Nat /\ served \in 0..Len(q)
      /\ served = Len(q) <=> T <= n
      /\ q = <<>> => T = 0
  BY <1>1, <1>3, QueueFacts
<1>5. PutSum(n, T, f, min_xfer, direct, stored, lacking)
  BY <1>2, <1>3, <1>4 DEF PutSum
<1>6. /\ Runs(t)
      /\ timeout = "nowait" => T + obj.size - obj.bytes_used >= min_xfer
      /\ th' = [u \in Threads |-> IF u = t THEN c
                                  ELSE IF u \in Range(q) THEN Transferred(q, direct, served, u) ELSE th[u]]
      /\ wait_q' = Dropped(q, served)
      /\ obj' = [ring EXCEPT !.writers = IF done THEN @ ELSE InsertByPrio(@, t)]
      /\ held' = held \o buffer
  BY DEF k_pipe_put, Waiters
<1> HIDE DEF n, T, f, direct, stored, lacking, served, q
<1>7. /\ direct \in Nat /\ direct = (IF n <= T THEN n ELSE T)
      /\ stored \in Nat /\ stored <= f /\ direct + stored <= n /\ direct + stored \in 0..n
      /\ lacking \in Nat /\ lacking <= n - (direct + stored)
      /\ direct + stored >= min_xfer => lacking = 0
      /\ n - (direct + stored) # 0 => direct = T /\ stored = f
      /\ T >= n => stored = 0
  BY <1>5, PutSums
<1>8. rest \in Seq(Bytes) /\ Len(rest) = n - (direct + stored)
  <2> DEFINE k == direct + stored
  <2>1. k \in 0..Len(bytes)
    BY <1>7 DEF n
  <2> HIDE DEF k
  <2>2. Dropped(bytes, k) \in Seq(Bytes) /\ Len(Dropped(bytes, k)) = Len(bytes) - k
    BY <2>1, SuffixFacts DEF Dropped
  <2> QED BY <2>2 DEF k, n
<1>9. buffer \in Seq(Bytes) /\ Len(buffer) = stored
  <2>1. direct + stored <= Len(bytes) /\ direct \in Nat /\ stored \in Nat
    BY <1>7 DEF n
  <2> QED BY <2>1, MiddleFacts
<1> HIDE DEF rest, buffer
<1>10. (done <=> Len(rest) = 0 \/ timeout = "nowait" \/ (direct + stored >= min_xfer /\ min_xfer > 0))
  BY DEF MayReturn
<1>11. Len(rest) # 0 /\ done => data.lacking = 0
  <2> SUFFICES ASSUME Len(rest) # 0, done PROVE lacking = 0
    OBVIOUS
  <2>1. direct = T /\ stored = f
    BY <1>7, <1>8
  <2>2. CASE timeout = "nowait"
    <3>1. T + obj.size - obj.bytes_used >= min_xfer
      BY <1>6, <2>2
    <3>2. direct + stored >= min_xfer
      BY <1>2, <1>4, <2>1, <3>1
    <3> QED BY <1>7, <3>2
  <2>3. CASE direct + stored >= min_xfer
    BY <1>7, <2>3
  <2> QED BY <1>10, <2>2, <2>3
<1> DEFINE s == [op |-> "write", data |-> data]
<1>12. s.op = "write" /\ s.data = data /\ Xfer(s) /\ RestOf(s) = Len(rest)
  <2>1. data \in PipeWrites /\ data.bytes = rest /\ data.lacking = lacking
    BY <1>7, <1>8 DEF PipeWrites
  <2> HIDE DEF data
  <2>2. s.op = "write" /\ s.data = data
    OBVIOUS
  <2> HIDE DEF s
  <2>3. RestOf(s) = Len(rest)
    BY <2>1, <2>2 DEF RestOf
  <2> QED BY <1>7, <1>8, <2>1, <2>2, <2>3 DEF Xfer
<1> HIDE DEF s, data, done
<1>14. IsCaller(c, "write", data, Len(rest)) /\ (c.st = "pend" <=> ~done)
  <2>1. CASE Len(rest) = 0
    BY <1>10, <2>1 DEF Caller, IsCaller, Running
  <2>2. CASE Len(rest) # 0 /\ done
    BY <1>11, <2>2 DEF Caller, IsCaller, Running
  <2>3. CASE Len(rest) # 0 /\ ~done
    BY <2>3 DEF Caller, IsCaller, Pended
  <2> QED BY <2>1, <2>2, <2>3
<1> HIDE DEF c
<1>13. c \in ThreadType(PipeData) /\ PipeCall(c) /\ (c.st = "pend" => c.op = "write")
  BY <1>12, <1>14, CallerOK
<1>15. th' = Exchange(q, n, t, c)
  <2>1. direct = Amount(q, n)
    BY <1>7 DEF Amount, T, q
  <2> QED BY <1>6, <2>1 DEF Exchange, served, q
<1>16. /\ WaitOK(th', wait_q', PipeData, {"read"})
       /\ WaitOK(th', ww, PipeData, {"write"})
       /\ \A u \in Threads : PipeCall(th'[u])
       /\ Len(wait_q') = Len(q) - served
  <2> DEFINE O == {"read"}
             P == {"write"}
             g == th'
  <2>1. O \intersect P = {} /\ (c.st = "pend" => c.op \in P)
    BY <1>13
  <2>2. WaitOK(th, q, PipeData, O) /\ WaitOK(th, obj.writers, PipeData, P)
    BY <1>1
  <2>3. ww = IF c.st = "pend" THEN InsertByPrio(obj.writers, t) ELSE obj.writers
    OBVIOUS
  <2>4. g = Exchange(q, n, t, c)
    BY <1>15
  <2> HIDE DEF O, P, ww, g
  <2>5. /\ WaitOK(g, Dropped(q, Served(q, n)), PipeData, O)
        /\ WaitOK(g, ww, PipeData, P)
        /\ \A u \in Threads : PipeCall(g[u])
        /\ Len(Dropped(q, Served(q, n))) = Len(q) - Served(q, n)
    <3>1. Exchanges(q, obj.writers, O, P, n, t, c, g, ww)
      BY <1>1, <1>3, <1>6, <1>13, <2>1, <2>2, <2>3, <2>4 DEF Exchanges
    <3> QED BY <3>1, ExchangeOK
  <2>6. wait_q' = Dropped(q, Served(q, n)) /\ served = Served(q, n)
    BY <1>6 DEF served, q
  <2> QED BY <2>5, <2>6 DEF O, P, g
<1>17. /\ PipeRing(ring, held') /\ ring.bytes_used = obj.bytes_used + stored
       /\ ring.size = obj.size /\ ring.writers = obj.writers
  <2>1. obj.bytes_used + Len(buffer) <= obj.size
    BY <1>2, <1>7, <1>9
  <2>2. /\ PipeRing(RingPut(obj, buffer), held \o buffer)
        /\ RingPut(obj, buffer).bytes_used = obj.bytes_used + Len(buffer)
        /\ RingPut(obj, buffer).size = obj.size /\ RingPut(obj, buffer).writers = obj.writers
    BY <1>1, <1>9, <2>1, RingPutOK
  <2> QED BY <1>6, <1>9, <2>2
<1> HIDE DEF ring
<1>18. /\ PipeRing(obj', held') /\ obj'.writers = ww
       /\ obj'.bytes_used = obj.bytes_used + stored /\ obj'.size = obj.size
  <2>1. ring \in PipeObj
    BY <1>17 DEF PipeRing
  <2>2. obj' = WithWriters(ring, ww)
    BY <1>6, <1>14, <1>17, <2>1 DEF WithWriters, PipeObj
  <2>3. ww \in Seq(Threads)
    BY <1>16 DEF WaitOK
  <2> HIDE DEF ww
  <2>4. PipeRing(obj', held') /\ obj'.writers = ww /\ obj'.bytes_used = ring.bytes_used /\ obj'.size = ring.size
    BY <1>17, <2>2, <2>3, WithWritersOK
  <2> QED BY <1>17, <2>4
<1>19. wait_q' # <<>> => obj'.bytes_used = 0 /\ obj'.writers = <<>>
  <2> SUFFICES ASSUME wait_q' # <<>> PROVE obj'.bytes_used = 0 /\ obj'.writers = <<>>
    OBVIOUS
  <2>1. wait_q' \in Seq(Threads)
    BY <1>16 DEF WaitOK
  <2>2. Len(wait_q') # 0
    BY <2>1, EmptySeq
  <2>3. served # Len(q)
    BY <1>4, <1>16, <2>2
  <2>4. ~(T <= n)
    BY <1>4, <2>3
  <2>5. stored = 0 /\ direct = n /\ Len(rest) = 0
    BY <1>3, <1>4, <1>7, <1>8, <2>4
  <2>6. done
    BY <1>10, <2>5
  <2>7. q # <<>>
    BY <1>3, <1>4, <2>4
  <2> QED BY <1>1, <1>14, <1>18, <2>5, <2>6, <2>7
<1>20. obj'.writers # <<>> => obj'.bytes_used = obj'.size
  <2> SUFFICES ASSUME obj'.writers # <<>> PROVE obj'.bytes_used = obj'.size
    OBVIOUS
  <2>1. CASE done
    <3>1. obj.writers # <<>>
      BY <1>14, <1>18, <2>1
    <3>2. stored = 0
      BY <1>1, <1>2, <1>7, <3>1
    <3> QED BY <1>1, <1>2, <1>18, <3>1, <3>2
  <2>2. CASE ~done
    <3>1. stored = f
      BY <1>7, <1>8, <1>10, <2>2
    <3> QED BY <1>2, <1>18, <3>1
  <2> QED BY <2>1, <2>2
<1> QED BY <1>16, <1>18, <1>19, <1>20 DEF PipeInv

\* The bytes of those served in full and of the next.
Offers(q, n) == [i \in 1..Min({Served(q, n) + 1, Len(q)}) |-> th[q[i]].data.bytes]

\* They offer all that is waiting to be written, or more than is asked for.
LEMMA OfferedFacts ==
    ASSUME NEW q, WaitOK(th, q, PipeData, {"write"}), \A u \in Threads : PipeCall(th[u]), NEW n \in Nat
    PROVE  /\ FlattenSeq(Offers(q, n)) \in Seq(Bytes) /\ Len(FlattenSeq(Offers(q, n))) \in Nat
           /\ Len(FlattenSeq(Offers(q, n))) <= Total(q)
           /\ IF Total(q) <= n THEN Len(FlattenSeq(Offers(q, n))) = Total(q)
              ELSE Len(FlattenSeq(Offers(q, n))) > n
<1> DEFINE N == Len(q)
           served == Served(q, n)
           m == Min({served + 1, N})
           e == [j \in 1..N |-> Rest(q[j])]
           f == Offers(q, n)
           L == Len(FlattenSeq(f))
<1>1. /\ PipeQueue(q) /\ Total(q) \in Nat /\ N \in Nat /\ served \in 0..N
      /\ served = N <=> Total(q) <= n
  BY QueueFacts
<1>2. /\ q \in Seq(Threads)
      /\ \A i \in 1..N : /\ q[i] \in Range(q) /\ q[i] \in Threads
                         /\ Rest(q[i]) \in Nat /\ Rest(q[i]) = RestOf(th[q[i]])
  BY <1>1, QueueRest DEF PipeQueue
<1>3. m = (IF served + 1 <= N THEN served + 1 ELSE N) /\ m \in 0..N /\ m \in Nat
  <2>1. served + 1 \in Int /\ N \in Int
    BY <1>1
  <2> HIDE DEF served, N
  <2>2. m = (IF served + 1 <= N THEN served + 1 ELSE N)
    BY <2>1, OfTwo
  <2> HIDE DEF m
  <2> QED BY <1>1, <2>2
<1>4. ASSUME NEW i \in 1..N
      PROVE  th[q[i]].data.bytes \in Seq(Bytes) /\ Rest(q[i]) = Len(th[q[i]].data.bytes)
  <2> DEFINE t == q[i]
  <2>1. t \in Range(q) /\ t \in Threads /\ Rest(t) = RestOf(th[t])
    BY <1>2
  <2> HIDE DEF t
  <2>2. th[t].st = "pend" /\ th[t].op = "write"
    BY <2>1 DEF WaitOK, Waits
  <2>3. th[t].data \in PipeWrites
    BY <2>1, <2>2 DEF PipeCall, Xfer
  <2>4. th[t].data.bytes \in Seq(Bytes) /\ Rest(t) = Len(th[t].data.bytes)
    BY <2>1, <2>2, <2>3 DEF PipeWrites, RestOf
  <2> QED BY <2>4 DEF t
<1>5. \A i \in 1..m : i \in 1..N
  <2> HIDE DEF m, N
  <2> QED BY <1>1, <1>3
<1>6. f \in [1..m -> Seq(Bytes)] /\ \A i \in 1..m : e[i] = Len(f[i])
  BY <1>4, <1>5 DEF Offers
<1>7. FlattenSeq(f) \in Seq(Bytes) /\ L = SumFunctionOnSet(e, 1..m)
  <2>1. m \in Nat
    BY <1>3
  <2> HIDE DEF f, m, e
  <2>2. FlattenSeq(f) \in Seq(Bytes) /\ Len(FlattenSeq(f)) = SumFunctionOnSet(e, 1..m)
    BY <1>6, <2>1, FlattenFacts
  <2> QED BY <2>2
<1>8. L = Before(q, m + 1)
  <2> DEFINE k == m + 1
  <2>1. k - 1 = m
    BY <1>3
  <2> HIDE DEF m, k
  <2>2. \A i : Before(q, i) = SumFunctionOnSet(e, 1..(i - 1))
    BY DEF Before
  <2> HIDE DEF e, L
  <2>3. Before(q, k) = SumFunctionOnSet(e, 1..(k - 1))
    BY <2>2
  <2> QED BY <1>7, <2>1, <2>3 DEF k
<1> HIDE DEF f, e
<1>9. /\ \A i \in 1..N + 1 : Before(q, i) \in Nat
      /\ \A i \in 1..N + 1 : \A j \in i..N + 1 : Before(q, i) <= Before(q, j)
      /\ Total(q) = Before(q, N + 1)
      /\ \A i \in 1..N : i <= served <=> Before(q, i + 1) <= n
  <2>1. \A i \in 1..Len(q) : Rest(q[i]) \in Nat
    BY <1>2
  <2> QED BY <1>2, <2>1, BeforeFacts, ServedFacts
<1> HIDE DEF m, served, N
<1>10. m + 1 \in 1..N + 1 /\ N + 1 \in m + 1..N + 1
  BY <1>1, <1>3
<1>11. L \in Nat /\ L <= Total(q)
  BY <1>8, <1>9, <1>10
<1>12. CASE Total(q) <= n
  <2>1. m = N
    BY <1>1, <1>3, <1>12
  <2> QED BY <1>7, <1>8, <1>9, <1>11, <1>12, <2>1 DEF f
<1>13. CASE ~(Total(q) <= n)
  <2>1. m = served + 1 /\ m \in 1..N /\ ~(m <= served)
    BY <1>1, <1>3, <1>13
  <2>2. ~(Before(q, m + 1) <= n)
    BY <1>9, <2>1
  <2>3. L > n
    BY <1>8, <1>11, <2>2
  <2> QED BY <1>7, <1>11, <1>13, <2>3 DEF f
<1> QED BY <1>12, <1>13

\* What pipe_get_internal moves: u bytes are in the ring of z places, the writers
\* have T and offer L of them.
GetSum(n, T, u, z, m, L, buffered, direct, stored, lacking) ==
    /\ n \in Nat /\ T \in Nat /\ u \in Nat /\ z \in Nat /\ u <= z /\ m \in 0..n /\ L \in Nat
    /\ IF T <= n THEN L = T ELSE L > n
    /\ T > 0 => u = z
    /\ buffered = Min({n, u}) /\ direct = Min({n - buffered, T})
    /\ stored = Min({L - direct, z - u + buffered})
    /\ lacking = Max({0, m - (buffered + direct)})

\* The writers give as many of the n bytes as they have, and refill the ring.
LEMMA GetSums ==
    ASSUME NEW n, NEW T, NEW u, NEW z, NEW m, NEW L, NEW buffered, NEW direct, NEW stored, NEW lacking,
           GetSum(n, T, u, z, m, L, buffered, direct, stored, lacking)
    PROVE  /\ buffered \in 0..u /\ direct \in Nat /\ stored \in Nat
           /\ direct + stored = IF n <= T THEN n ELSE T
           /\ direct + stored <= L /\ u - buffered + stored <= z
           /\ n - (buffered + direct) \in Nat
           /\ lacking \in Nat /\ lacking <= n - (buffered + direct)
           /\ buffered + direct >= m => lacking = 0
           /\ n - (buffered + direct) # 0 => buffered = u /\ direct = T /\ stored = 0 /\ T <= n
           /\ T > n => u - buffered + stored = z
<1>0. /\ n \in Nat /\ T \in Nat /\ u \in Nat /\ z \in Nat /\ u <= z /\ m \in Nat /\ m <= n /\ L \in Nat
      /\ IF T <= n THEN L = T ELSE L > n
      /\ T > 0 => u = z
  BY DEF GetSum
<1>1. buffered = IF n <= u THEN n ELSE u
  BY <1>0, OfTwo DEF GetSum
<1>2. buffered \in Nat /\ buffered <= u /\ buffered <= n /\ n - buffered \in Int
  BY <1>0, <1>1
<1>3. direct = IF n - buffered <= T THEN n - buffered ELSE T
  <2>1. Min({n - buffered, T}) = IF n - buffered <= T THEN n - buffered ELSE T
    BY <1>0, <1>2, OfTwo
  <2> QED BY <2>1 DEF GetSum
<1>4. direct \in Nat /\ direct <= T /\ direct <= n - buffered
  BY <1>0, <1>2, <1>3
<1>5. L - direct \in Nat /\ z - u + buffered \in Nat
  BY <1>0, <1>2, <1>4
<1>6. stored = IF L - direct <= z - u + buffered THEN L - direct ELSE z - u + buffered
  <2> DEFINE a == L - direct
             b == z - u + buffered
  <2>1. a \in Int /\ b \in Int
    BY <1>5
  <2> HIDE DEF a, b
  <2>2. Min({a, b}) = IF a <= b THEN a ELSE b
    BY <2>1, OfTwo
  <2> QED BY <2>2 DEF GetSum, a, b
<1>7. stored \in Nat /\ stored <= L - direct /\ stored <= z - u + buffered
  BY <1>5, <1>6
<1>8. lacking = IF 0 >= m - (buffered + direct) THEN 0 ELSE m - (buffered + direct)
  <2> DEFINE a == m - (buffered + direct)
  <2>1. 0 \in Int /\ a \in Int
    BY <1>0, <1>2, <1>4
  <2> HIDE DEF a
  <2>2. Max({0, a}) = IF 0 >= a THEN 0 ELSE a
    BY <2>1, OfTwo
  <2> QED BY <2>2 DEF GetSum, a
<1>9. direct + stored = IF n <= T THEN n ELSE T
  <2>1. CASE T = 0
    BY <1>0, <1>4, <1>6, <1>7, <2>1
  <2>2. CASE T # 0
    <3>1. u = z /\ z - u + buffered = buffered
      BY <1>0, <1>2, <2>2
    <3>2. CASE T <= n
      BY <1>0, <1>1, <1>2, <1>3, <1>4, <1>6, <3>1, <3>2
    <3>3. CASE ~(T <= n)
      BY <1>0, <1>1, <1>2, <1>3, <1>4, <1>6, <3>1, <3>3
    <3> QED BY <3>2, <3>3
  <2> QED BY <2>1, <2>2
<1>10. direct + stored <= L /\ u - buffered + stored <= z /\ n - (buffered + direct) \in Nat
  BY <1>0, <1>2, <1>4, <1>5, <1>7
<1>11. lacking \in Nat /\ lacking <= n - (buffered + direct) /\ (buffered + direct >= m => lacking = 0)
  BY <1>0, <1>2, <1>4, <1>8, <1>10
<1>12. ASSUME n - (buffered + direct) # 0 PROVE buffered = u /\ direct = T /\ stored = 0 /\ T <= n
  <2>1. buffered = u /\ direct = T /\ T <= n
    BY <1>0, <1>1, <1>2, <1>3, <1>4, <1>12
  <2> QED BY <1>0, <1>7, <2>1
<1>13. ASSUME T > n PROVE u - buffered + stored = z
  <2>1. u = z
    BY <1>0, <1>13
  <2>2. direct = n - buffered
    BY <1>0, <1>2, <1>3, <1>13
  <2>3. direct + stored = n
    BY <1>0, <1>9, <1>13
  <2> QED BY <1>0, <1>2, <1>4, <1>7, <2>1, <2>2, <2>3
<1>14. buffered \in 0..u
  BY <1>0, <1>2
<1> QED BY <1>4, <1>7, <1>9, <1>10, <1>11, <1>12, <1>13, <1>14

\* pipe_get_internal keeps the invariant.
LEMMA PipeGetOK ==
    ASSUME PipeInv, NEW t \in Threads, NEW n \in Nat, NEW min_xfer \in 0..n,
           NEW timeout, pipe_get_internal(t, n, min_xfer, timeout)
    PROVE  PipeInv'
<1> DEFINE q        == obj.writers
           T        == Total(obj.writers)
           u        == obj.bytes_used
           z        == obj.size
           buffered == Min({n, obj.bytes_used})
           direct   == Min({n - buffered, Total(obj.writers)})
           served   == Served(obj.writers, n)
           offered  == FlattenSeq([i \in 1..Min({served + 1, Len(obj.writers)}) |->
                                      th[obj.writers[i]].data.bytes])
           stored   == Min({Len(offered) - direct, obj.size - obj.bytes_used + buffered})
           buffer   == SubSeq(offered, direct + 1, direct + stored)
           moved    == buffered + direct
           rest     == n - moved
           done     == MayReturn(n - moved, moved, min_xfer, timeout)
           lacking  == Max({0, min_xfer - moved})
           data     == [left |-> n - moved, lacking |-> lacking]
           c        == Caller("read", data, n - moved, done)
           rr       == IF c.st = "pend" THEN InsertByPrio(wait_q, t) ELSE wait_q
           ring     == RingPut(RingGet(obj, buffered), buffer)
<1>1. /\ WaitOK(th, wait_q, PipeData, {"read"}) /\ WaitOK(th, q, PipeData, {"write"})
      /\ PipeRing(obj, held) /\ \A v \in Threads : PipeCall(th[v])
      /\ wait_q # <<>> => u = 0 /\ q = <<>>
      /\ q # <<>> => u = z
  BY DEF PipeInv
<1>2. u \in Nat /\ z \in Nat /\ u <= z
  BY <1>1, PipeAssumption DEF PipeRing, PipeObj
<1>4. /\ T \in Nat /\ Len(q) \in Nat /\ served \in 0..Len(q)
      /\ served = Len(q) <=> T <= n
      /\ q = <<>> => T = 0
  BY <1>1, QueueFacts
<1>3. /\ offered \in Seq(Bytes) /\ Len(offered) \in Nat
      /\ IF T <= n THEN Len(offered) = T ELSE Len(offered) > n
  <2>1. offered = FlattenSeq(Offers(q, n))
    BY DEF Offers
  <2>2. WaitOK(th, q, PipeData, {"write"}) /\ \A v \in Threads : PipeCall(th[v])
    BY <1>1
  <2> HIDE DEF offered, q
  <2>3. /\ FlattenSeq(Offers(q, n)) \in Seq(Bytes) /\ Len(FlattenSeq(Offers(q, n))) \in Nat
        /\ IF Total(q) <= n THEN Len(FlattenSeq(Offers(q, n))) = Total(q)
           ELSE Len(FlattenSeq(Offers(q, n))) > n
    BY <2>2, OfferedFacts
  <2> QED BY <2>1, <2>3 DEF q
<1> HIDE DEF offered
<1>5. GetSum(n, T, u, z, min_xfer, Len(offered), buffered, direct, stored, lacking)
  <2>1. T > 0 => u = z
    BY <1>1, <1>4
  <2> HIDE DEF T, u, z, buffered, direct, stored, lacking
  <2>2. /\ buffered = Min({n, u}) /\ direct = Min({n - buffered, T})
        /\ stored = Min({Len(offered) - direct, z - u + buffered})
        /\ lacking = Max({0, min_xfer - (buffered + direct)})
    BY DEF T, u, z, buffered, direct, stored, lacking
  <2> QED BY <1>2, <1>3, <1>4, <2>1, <2>2 DEF GetSum
<1>6. /\ Runs(t)
      /\ timeout = "nowait" => T + u >= min_xfer
      /\ th' = [v \in Threads |-> IF v = t THEN c
                                  ELSE IF v \in Range(q) THEN Transferred(q, direct + stored, served, v)
                                  ELSE th[v]]
      /\ wait_q' = IF done THEN wait_q ELSE InsertByPrio(wait_q, t)
      /\ obj' = [ring EXCEPT !.writers = Dropped(@, served)]
      /\ held' = Dropped(held, buffered) \o buffer
  BY DEF pipe_get_internal, offered
<1> HIDE DEF T, u, z, q, buffered, direct, stored, lacking, served
<1>7. /\ buffered \in 0..u /\ direct \in Nat /\ stored \in Nat
      /\ direct + stored = (IF n <= T THEN n ELSE T)
      /\ direct + stored <= Len(offered) /\ u - buffered + stored <= z
      /\ n - (buffered + direct) \in Nat
      /\ lacking \in Nat /\ lacking <= n - (buffered + direct)
      /\ buffered + direct >= min_xfer => lacking = 0
      /\ n - (buffered + direct) # 0 => buffered = u /\ direct = T /\ stored = 0 /\ T <= n
      /\ T > n => u - buffered + stored = z
  BY <1>5, GetSums
<1>9. buffer \in Seq(Bytes) /\ Len(buffer) = stored
  <2>1. direct + stored <= Len(offered) /\ direct \in Nat /\ stored \in Nat /\ offered \in Seq(Bytes)
    BY <1>3, <1>7
  <2> QED BY <2>1, MiddleFacts
<1>10. (done <=> rest = 0 \/ timeout = "nowait" \/ (moved >= min_xfer /\ min_xfer > 0))
  BY DEF MayReturn
<1>8. rest \in Nat /\ rest = n - (buffered + direct) /\ moved = buffered + direct
  BY <1>7
<1> HIDE DEF buffer, moved
<1>11. rest # 0 /\ done => data.lacking = 0
  <2> SUFFICES ASSUME rest # 0, done PROVE lacking = 0
    OBVIOUS
  <2>1. direct = T /\ buffered = u
    BY <1>7, <1>8
  <2>2. CASE timeout = "nowait"
    <3>1. T + u >= min_xfer
      BY <1>6, <2>2
    <3>2. buffered + direct >= min_xfer
      BY <1>2, <1>4, <2>1, <3>1
    <3> QED BY <1>7, <3>2
  <2>3. CASE moved >= min_xfer
    BY <1>7, <1>8, <2>3
  <2> QED BY <1>10, <2>2, <2>3
<1> DEFINE s == [op |-> "read", data |-> data]
<1>12. s.op = "read" /\ s.data = data /\ Xfer(s) /\ RestOf(s) = rest
  <2>1. data = [left |-> rest, lacking |-> lacking]
    OBVIOUS
  <2> HIDE DEF rest
  <2>4. data \in PipeReads /\ data.left = rest /\ data.lacking = lacking
    BY <1>7, <1>8 DEF PipeReads
  <2> HIDE DEF data
  <2>2. s.op = "read" /\ s.data = data
    OBVIOUS
  <2> HIDE DEF s
  <2>3. RestOf(s) = rest
    BY <2>2, <2>4 DEF RestOf
  <2> QED BY <1>7, <1>8, <2>2, <2>3, <2>4 DEF Xfer
<1>14. IsCaller(c, "read", data, rest) /\ (c.st = "pend" <=> ~done)
  <2>0. c = Caller("read", data, rest, done)
    OBVIOUS
  <2> HIDE DEF s, data, done, rest, c
  <2>1. CASE rest = 0
    BY <1>10, <2>0, <2>1 DEF Caller, IsCaller, Running
  <2>2. CASE rest # 0 /\ done
    BY <1>11, <2>0, <2>2 DEF Caller, IsCaller, Running
  <2>3. CASE rest # 0 /\ ~done
    BY <2>0, <2>3 DEF Caller, IsCaller, Pended
  <2> QED BY <2>1, <2>2, <2>3
<1> HIDE DEF s, data, done, rest, c
<1>13. c \in ThreadType(PipeData) /\ PipeCall(c) /\ (c.st = "pend" => c.op = "read")
  BY <1>12, <1>14, CallerOK
<1>15. th' = Exchange(q, n, t, c)
  <2>1. direct + stored = Amount(q, n)
    BY <1>7 DEF Amount, T, q
  <2> QED BY <1>6, <2>1 DEF Exchange, served, q
<1>16. /\ WaitOK(th', Dropped(q, served), PipeData, {"write"})
       /\ WaitOK(th', rr, PipeData, {"read"})
       /\ \A v \in Threads : PipeCall(th'[v])
       /\ Len(Dropped(q, served)) = Len(q) - served
  <2> DEFINE O == {"write"}
             P == {"read"}
             g == th'
  <2>1. O \intersect P = {} /\ (c.st = "pend" => c.op \in P)
    BY <1>13
  <2>2. WaitOK(th, q, PipeData, O) /\ WaitOK(th, wait_q, PipeData, P)
    BY <1>1
  <2>3. rr = IF c.st = "pend" THEN InsertByPrio(wait_q, t) ELSE wait_q
    OBVIOUS
  <2>4. g = Exchange(q, n, t, c)
    BY <1>15
  <2> HIDE DEF O, P, rr, g
  <2>5. /\ WaitOK(g, Dropped(q, Served(q, n)), PipeData, O)
        /\ WaitOK(g, rr, PipeData, P)
        /\ \A v \in Threads : PipeCall(g[v])
        /\ Len(Dropped(q, Served(q, n))) = Len(q) - Served(q, n)
    <3>1. Exchanges(q, wait_q, O, P, n, t, c, g, rr)
      BY <1>1, <1>6, <1>13, <2>1, <2>2, <2>3, <2>4 DEF Exchanges
    <3> QED BY <3>1, ExchangeOK
  <2>6. served = Served(q, n)
    BY DEF served, q
  <2> QED BY <2>5, <2>6 DEF O, P, g
<1>21. wait_q' = rr
  BY <1>6, <1>14
<1>17. /\ PipeRing(ring, held') /\ ring.bytes_used = u - buffered + stored
       /\ ring.size = z /\ ring.writers = q
  <2> DEFINE o == RingGet(obj, buffered)
             h == Dropped(held, buffered)
  <2>1. /\ PipeRing(o, h) /\ o.bytes_used = u - buffered /\ o.size = z /\ o.writers = q
    <3>1. buffered \in 0..obj.bytes_used
      BY <1>7 DEF u
    <3> QED BY <1>1, <3>1, RingGetOK DEF u, z, q
  <2> HIDE DEF o, h
  <2>2. o.bytes_used + Len(buffer) <= o.size
    BY <1>7, <1>9, <2>1
  <2>3. /\ PipeRing(RingPut(o, buffer), h \o buffer)
        /\ RingPut(o, buffer).bytes_used = o.bytes_used + Len(buffer)
        /\ RingPut(o, buffer).size = o.size /\ RingPut(o, buffer).writers = o.writers
    BY <1>9, <2>1, <2>2, RingPutOK
  <2>4. held' = h \o buffer
    BY <1>6 DEF h
  <2> QED BY <1>9, <2>1, <2>3, <2>4 DEF o
<1> HIDE DEF ring
<1>18. /\ PipeRing(obj', held') /\ obj'.writers = Dropped(q, served)
       /\ obj'.bytes_used = u - buffered + stored /\ obj'.size = z
  <2> DEFINE ww == Dropped(q, served)
  <2>1. ring \in PipeObj
    BY <1>17 DEF PipeRing
  <2>2. obj' = WithWriters(ring, ww)
    BY <1>6, <1>17, <2>1 DEF WithWriters, PipeObj
  <2>3. ww \in Seq(Threads)
    BY <1>16 DEF WaitOK
  <2> HIDE DEF ww
  <2>4. PipeRing(obj', held') /\ obj'.writers = ww /\ obj'.bytes_used = ring.bytes_used /\ obj'.size = ring.size
    BY <1>17, <2>2, <2>3, WithWritersOK
  <2> QED BY <1>17, <2>4 DEF ww
<1>22. served = Len(q) => obj'.writers = <<>>
  <2> SUFFICES ASSUME served = Len(q) PROVE obj'.writers = <<>>
    OBVIOUS
  <2>1. Len(obj'.writers) = 0
    BY <1>4, <1>16, <1>18
  <2>2. obj'.writers \in Seq(Threads)
    BY <1>16, <1>18 DEF WaitOK
  <2> QED BY <2>1, <2>2, EmptySeq
<1>19. wait_q' # <<>> => obj'.bytes_used = 0 /\ obj'.writers = <<>>
  <2> SUFFICES ASSUME wait_q' # <<>> PROVE obj'.bytes_used = 0 /\ obj'.writers = <<>>
    OBVIOUS
  <2>1. CASE done
    <3>1. wait_q # <<>>
      BY <1>6, <2>1
    <3>2. u = 0 /\ T = 0
      BY <1>1, <1>4, <3>1
    <3>3. stored = 0 /\ buffered = 0
      BY <1>7, <3>2
    <3>4. served = Len(q)
      BY <1>4, <3>2
    <3> QED BY <1>18, <1>22, <3>2, <3>3, <3>4
  <2>2. CASE ~done
    <3>1. rest # 0
      BY <1>10, <2>2
    <3>2. buffered = u /\ stored = 0 /\ T <= n
      BY <1>7, <1>8, <3>1
    <3>3. u - buffered + stored = 0
      BY <1>2, <3>2
    <3> QED BY <1>4, <1>18, <1>22, <3>2, <3>3
  <2> QED BY <2>1, <2>2
<1>20. obj'.writers # <<>> => obj'.bytes_used = obj'.size
  <2> SUFFICES ASSUME obj'.writers # <<>> PROVE obj'.bytes_used = obj'.size
    OBVIOUS
  <2>1. ~(T <= n)
    BY <1>4, <1>22
  <2>2. T > n
    BY <1>4, <2>1
  <2> QED BY <1>7, <1>18, <2>2
<1> QED BY <1>16, <1>18, <1>19, <1>20, <1>21 DEF PipeInv

\* A pipe after k_pipe_alloc_init.
LEMMA PipeStart ==
    ASSUME PipeInit
    PROVE  PipeInv
<1>1. /\ WaitInit /\ held = <<>>
      /\ obj = [buffer |-> [i \in 0..PipeSize - 1 |-> NULL], size |-> PipeSize, bytes_used |-> 0,
                read_index |-> 0, write_index |-> 0, writers |-> <<>>]
  BY DEF PipeInit
<1>2. PipeSize \in Nat /\ PipeSize # 0
  BY PipeAssumption
<1>3. NULL \in PipeData
  BY DEF PipeData
<1>4. WaitOK(th, wait_q, PipeData, {"read"}) /\ wait_q = <<>>
  BY <1>1, <1>3, RunningOK DEF WaitInit
<1>5. WaitOK(th, obj.writers, PipeData, {"write"})
  <2>1. WaitOK(th, wait_q, PipeData, {"write"})
    BY <1>1, <1>3, RunningOK
  <2> QED BY <1>1, <1>4, <2>1
<1>6. \A t \in Threads : PipeCall(th[t])
  BY <1>1 DEF WaitInit, Running, PipeCall
<1>7. obj \in PipeObj
  <2>1. <<>> \in Seq(Threads)
    BY EmptySeq
  <2> QED BY <1>1, <1>2, <2>1 DEF PipeObj
<1>8. PipeRing(obj, held)
  <2>1. held \in Seq(Bytes) /\ Len(held) = 0
    BY <1>1, EmptySeq
  <2>2. obj.bytes_used = 0 /\ obj.size = PipeSize /\ obj.read_index = 0 /\ obj.write_index = 0
    BY <1>1
  <2>3. (0 + 0) % PipeSize = 0
    BY <1>2
  <2>4. 0 <= PipeSize /\ 0 < PipeSize
    BY <1>2
  <2> QED BY <1>7, <2>1, <2>2, <2>3, <2>4 DEF PipeRing
<1> QED BY <1>1, <1>4, <1>5, <1>6, <1>8 DEF PipeInv

\* k_pipe_cleanup leaves a pipe without buffer.
LEMMA PipeCleanupOK ==
    ASSUME PipeInv, NEW t \in Threads, k_pipe_cleanup(t)
    PROVE  PipeInv'
<1> DEFINE b == [i \in DOMAIN obj.buffer |-> NULL]
<1>1. /\ obj' = [obj EXCEPT !.buffer = b, !.size = 0, !.bytes_used = 0, !.read_index = 0, !.write_index = 0]
      /\ held' = <<>> /\ th' = th /\ wait_q' = wait_q /\ wait_q = <<>> /\ obj.writers = <<>>
  BY DEF k_pipe_cleanup
<1>2. obj \in PipeObj
  BY DEF PipeInv, PipeRing
<1>3. b \in [0..PipeSize - 1 -> Bytes \union {NULL}]
  BY <1>2 DEF PipeObj
<1> HIDE DEF b
<1>4. /\ obj' \in PipeObj /\ obj'.size = 0 /\ obj'.bytes_used = 0 /\ obj'.writers = obj.writers
  BY <1>1, <1>2, <1>3 DEF PipeObj
<1>5. PipeRing(obj', held')
  <2>1. <<>> \in Seq(Bytes) /\ Len(<<>>) = 0
    BY EmptySeq
  <2> QED BY <1>1, <1>4, <2>1 DEF PipeRing
<1> QED BY <1>1, <1>4, <1>5 DEF PipeInv

\* The timeout of a writer takes it off its queue.
LEMMA WriterTimeoutOK ==
    ASSUME PipeInv, NEW t \in Threads, WriterTimeout(t)
    PROVE  PipeInv'
<1> DEFINE r0 == th[t]
           r == [r0 EXCEPT !.st = "woken", !.armed = FALSE]
           ww == Without(obj.writers, t)
<1>1. /\ WaitOK(th, wait_q, PipeData, {"read"}) /\ WaitOK(th, obj.writers, PipeData, {"write"})
      /\ PipeRing(obj, held) /\ \A v \in Threads : PipeCall(th[v])
      /\ wait_q # <<>> => obj.bytes_used = 0 /\ obj.writers = <<>>
      /\ obj.writers # <<>> => obj.bytes_used = obj.size
  BY DEF PipeInv
<1>2. /\ r0.st = "pend" /\ r0.op = "write"
      /\ th' = [th EXCEPT ![t].st = "woken", ![t].armed = FALSE]
      /\ obj' = [obj EXCEPT !.writers = Without(@, t)]
      /\ wait_q' = wait_q /\ held' = held
  BY DEF WriterTimeout, Pends
<1>3. th \in [Threads -> ThreadType(PipeData)] /\ r0 \in ThreadType(PipeData) /\ PipeCall(r0)
  BY <1>1 DEF WaitOK
<1>4. th' = [th EXCEPT ![t] = r]
  BY <1>2, <1>3
<1> HIDE DEF r0
<1>5. /\ r \in ThreadType(PipeData) /\ r.st = "woken" /\ r.op = r0.op /\ r.data = r0.data /\ r.ret = r0.ret
  BY <1>3 DEF ThreadType, States
<1> HIDE DEF r
<1>6. PipeCall(r)
  BY <1>2, <1>3, <1>5 DEF PipeCall, Xfer, RestOf
<1>7. /\ ~Waits(r, {"write"}) /\ ~Waits(r, {"read"}) /\ ~Waits(r0, {"read"})
  BY <1>2, <1>5 DEF Waits
<1>8. /\ WaitOK([th EXCEPT ![t] = r], Without(obj.writers, t), PipeData, {"write"})
      /\ Range(Without(obj.writers, t)) = Range(obj.writers) \ {t}
  BY <1>1, <1>5, <1>7, LeaveOK
<1>9. WaitOK([th EXCEPT ![t] = r], wait_q, PipeData, {"read"})
  <2>1. ~Waits(th[t], {"read"})
    BY <1>7 DEF r0
  <2> QED BY <1>1, <1>5, <1>7, <2>1, StayOK
<1>10. \A v \in Threads : PipeCall(th'[v])
  BY <1>1, <1>3, <1>4, <1>6
<1>11. obj \in PipeObj /\ ww \in Seq(Threads)
  BY <1>1, <1>8 DEF PipeRing, WaitOK
<1>12. obj' = WithWriters(obj, ww)
  BY <1>2, <1>11 DEF WithWriters
<1> HIDE DEF ww
<1>13. PipeRing(obj', held) /\ obj'.writers = ww /\ obj'.bytes_used = obj.bytes_used /\ obj'.size = obj.size
  BY <1>1, <1>11, <1>12, WithWritersOK
<1>14. obj.writers = <<>> => ww = <<>>
  <2>1. obj.writers \in Seq(Threads) /\ Range(ww) = Range(obj.writers) \ {t}
    BY <1>1, <1>8 DEF WaitOK, ww
  <2> QED BY <1>11, <2>1, NoRange
<1> QED BY <1>1, <1>2, <1>4, <1>8, <1>9, <1>10, <1>13, <1>14 DEF PipeInv, ww

\* The timeout of a reader takes it off its queue.
LEMMA ReaderTimeoutOK ==
    ASSUME PipeInv, NEW t \in Threads, th[t].op = "read", Timeout(t)
    PROVE  PipeInv'
<1>1. /\ WaitOK(th, wait_q, PipeData, {"read"}) /\ WaitOK(th, obj.writers, PipeData, {"write"})
      /\ PipeRing(obj, held) /\ \A v \in Threads : PipeCall(th[v])
      /\ wait_q # <<>> => obj.bytes_used = 0 /\ obj.writers = <<>>
      /\ obj.writers # <<>> => obj.bytes_used = obj.size
  BY DEF PipeInv
<1>2. /\ th'[t].st = "woken" /\ th'[t].op = th[t].op
      /\ th'[t].data = th[t].data /\ th'[t].ret = th[t].ret
      /\ \A u \in Threads \ {t} : th'[u] = th[u]
      /\ obj' = obj /\ held' = held /\ Pends(t) /\ t \in Range(wait_q)
      /\ WaitOK(th', wait_q', PipeData, {"read"}) /\ Range(wait_q') = Range(wait_q) \ {t}
  <2> DEFINE O == {"read"}
  <2>1. th[t].op \in O
    OBVIOUS
  <2>2. WaitOK(th, wait_q, PipeData, O)
    BY <1>1
  <2> HIDE DEF O
  <2>3. /\ th'[t].st = "woken" /\ th'[t].op = th[t].op
        /\ th'[t].data = th[t].data /\ th'[t].ret = th[t].ret
        /\ \A u \in Threads \ {t} : th'[u] = th[u]
        /\ obj' = obj /\ held' = held /\ Pends(t) /\ t \in Range(wait_q)
        /\ WaitOK(th', wait_q', PipeData, O) /\ Range(wait_q') = Range(wait_q) \ {t}
    BY <2>1, <2>2, TimeoutOK
  <2> QED BY <2>3 DEF O
<1>3. WaitOK(th', obj.writers, PipeData, {"write"})
  <2>1. ~Waits(th[t], {"write"}) /\ ~Waits(th'[t], {"write"}) /\ th' \in [Threads -> ThreadType(PipeData)]
    BY <1>2 DEF Waits, WaitOK
  <2> QED BY <1>1, <1>2, <2>1 DEF WaitOK
<1>4. PipeCall(th'[t])
  BY <1>1, <1>2 DEF PipeCall, Xfer, RestOf, Pends
<1>5. \A v \in Threads : PipeCall(th'[v])
  BY <1>1, <1>2, <1>4
<1>6. wait_q # <<>>
  BY <1>2, EmptyRange
<1> QED BY <1>1, <1>2, <1>3, <1>5, <1>6 DEF PipeInv

\* A call that waited or moved less returns.
LEMMA PipeReturnOK ==
    ASSUME PipeInv, NEW t \in Threads, PipeReturn(t)
    PROVE  PipeInv'
<1>1. /\ WaitOK(th, wait_q, PipeData, {"read"}) /\ WaitOK(th, obj.writers, PipeData, {"write"})
      /\ \A v \in Threads : PipeCall(th[v])
      /\ th[t].st = "woken" /\ th' = [th EXCEPT ![t] = Running]
      /\ wait_q' = wait_q /\ obj' = obj /\ held' = held
  BY DEF PipeInv, PipeReturn, Woken
<1>2. NULL \in PipeData
  BY DEF PipeData
<1>3. Running \in ThreadType(PipeData) /\ ~Waits(Running, {"read"}) /\ ~Waits(Running, {"write"})
  BY <1>2, RunningOK
<1>4. ~Waits(th[t], {"read"}) /\ ~Waits(th[t], {"write"})
  BY <1>1 DEF Waits
<1>5. WaitOK([th EXCEPT ![t] = Running], wait_q, PipeData, {"read"})
  BY <1>1, <1>3, <1>4, StayOK
<1>6. WaitOK([th EXCEPT ![t] = Running], obj.writers, PipeData, {"write"})
  BY <1>1, <1>3, <1>4, StayOK
<1>7. PipeCall(Running)
  BY DEF Running, PipeCall
<1>8. \A v \in Threads : PipeCall(th'[v])
  <2>1. th \in [Threads -> ThreadType(PipeData)]
    BY <1>1 DEF WaitOK
  <2> QED BY <1>1, <1>7, <2>1
<1> QED BY <1>1, <1>5, <1>6, <1>8 DEF PipeInv

\* Every operation on a pipe keeps the invariant.
LEMMA PipeStep ==
    ASSUME PipeInv, PipeNext
    PROVE  PipeInv'
<1>1. PICK t \in Threads :
        \/ k_pipe_flush(t) \/ k_pipe_buffer_flush(t) \/ k_pipe_cleanup(t)
        \/ PipeReturn(t) \/ WriterTimeout(t)
        \/ th[t].op = "read" /\ Timeout(t)
        \/ \E n \in 1..MaxXfer, timeout \in {"nowait", "wait"} :
              \E min_xfer \in 0..n :
                 \/ pipe_get_internal(t, n, min_xfer, timeout)
                 \/ k_pipe_put(t, [i \in 1..n |-> i], min_xfer, timeout)
  BY DEF PipeNext
<1>0. /\ obj.bytes_used \in Nat /\ obj.size \in Nat /\ Total(obj.writers) \in Nat /\ MaxXfer \in Nat
  <2>1. obj.bytes_used \in Nat /\ obj.size \in Nat /\ MaxXfer \in Nat
    BY PipeAssumption DEF PipeInv, PipeRing, PipeObj
  <2>2. WaitOK(th, obj.writers, PipeData, {"write"}) /\ \A u \in Threads : PipeCall(th[u])
    BY DEF PipeInv
  <2>3. Total(obj.writers) \in Nat
    BY <2>1, <2>2, QueueFacts
  <2> QED BY <2>1, <2>3
<1>2. CASE k_pipe_flush(t)
  <2> DEFINE n == obj.bytes_used + Total(obj.writers)
  <2>1. n \in Nat /\ 0 \in 0..n /\ pipe_get_internal(t, n, 0, "nowait")
    BY <1>0, <1>2 DEF k_pipe_flush
  <2> HIDE DEF n
  <2> QED BY <2>1, PipeGetOK
<1>3. CASE k_pipe_buffer_flush(t)
  <2> DEFINE n == obj.size
  <2>1. n \in Nat /\ 0 \in 0..n /\ pipe_get_internal(t, n, 0, "nowait")
    BY <1>0, <1>3 DEF k_pipe_buffer_flush
  <2> HIDE DEF n
  <2> QED BY <2>1, PipeGetOK
<1>4. CASE k_pipe_cleanup(t)
  BY <1>4, PipeCleanupOK
<1>5. CASE PipeReturn(t)
  BY <1>5, PipeReturnOK
<1>6. CASE WriterTimeout(t)
  BY <1>6, WriterTimeoutOK
<1>7. CASE th[t].op = "read" /\ Timeout(t)
  BY <1>7, ReaderTimeoutOK
<1>8. ASSUME NEW n \in 1..MaxXfer, NEW timeout \in {"nowait", "wait"}, NEW min_xfer \in 0..n,
             \/ pipe_get_internal(t, n, min_xfer, timeout)
             \/ k_pipe_put(t, [i \in 1..n |-> i], min_xfer, timeout)
      PROVE  PipeInv'
  <2>1. n \in Nat
    BY <1>0
  <2>2. CASE pipe_get_internal(t, n, min_xfer, timeout)
    BY <2>1, <2>2, PipeGetOK
  <2>3. CASE k_pipe_put(t, [i \in 1..n |-> i], min_xfer, timeout)
    <3> DEFINE b == [i \in 1..n |-> i]
    <3>1. b \in [1..n -> Bytes]
      BY <1>0 DEF Bytes
    <3> HIDE DEF b
    <3>2. b \in Seq(Bytes) /\ Len(b) = n
      BY <2>1, <3>1, FunctionIsSeq
    <3>3. k_pipe_put(t, b, min_xfer, timeout) /\ min_xfer \in 0..Len(b)
      BY <2>3, <3>2 DEF b
    <3> QED BY <3>2, <3>3, PipePutOK
  <2> QED BY <1>8, <2>2, <2>3
<1> QED BY <1>1, <1>2, <1>3, <1>4, <1>5, <1>6, <1>7, <1>8

-----------------------------------------------------------------------------
(* All kinds. *)

\* Every object that is explored satisfies its invariant.
Inv ==
    /\ kind = "msgq" => MsgQInv
    /\ kind = "queue" => QueueInv
    /\ kind = "stack" => StackInv
    /\ kind = "slab" => SlabInv
    /\ kind = "event" => EventInv
    /\ kind = "heap" => HeapInv
    /\ kind = "mbox" => MboxInv
    /\ kind = "pipe" => PipeInv
    /\ kind = "futex" => FutexInv
    /\ kind = "poll" => PollInv

\* It holds of each object when it was initialised.
LEMMA InvInit ==
    Init => Inv
<1> SUFFICES ASSUME Init PROVE Inv
  OBVIOUS
<1>1. CASE kind = "msgq" /\ MsgQInit
  BY <1>1, MsgQStart DEF Inv
<1>2. CASE kind = "queue" /\ QueueInit
  BY <1>2, QueueStart DEF Inv
<1>3. CASE kind = "stack" /\ StackInit
  BY <1>3, StackStart DEF Inv
<1>4. CASE kind = "slab" /\ SlabInit
  BY <1>4, SlabStart DEF Inv
<1>5. CASE kind = "event" /\ EventInit
  BY <1>5, EventStart DEF Inv
<1>6. CASE kind = "heap" /\ HeapInit
  BY <1>6, HeapStart DEF Inv
<1>7. CASE kind = "mbox" /\ MboxInit
  BY <1>7, MboxStart DEF Inv
<1>8. CASE kind = "pipe" /\ PipeInit
  BY <1>8, PipeStart DEF Inv
<1>9. CASE kind = "futex" /\ FutexInit
  BY <1>9, FutexStart DEF Inv
<1>10. CASE kind = "poll" /\ PollInit
  BY <1>10, PollStart DEF Inv
<1> QED BY <1>1, <1>2, <1>3, <1>4, <1>5, <1>6, <1>7, <1>8, <1>9, <1>10 DEF Init

\* Every operation on every object keeps it.
LEMMA InvNext ==
    Inv /\ Next => Inv'
<1> SUFFICES ASSUME Inv, Next PROVE Inv'
  OBVIOUS
<1>0. kind' = kind
  BY DEF Next
<1>1. CASE kind = "msgq" /\ MsgQNext
  BY <1>0, <1>1, MsgQStep DEF Inv
<1>2. CASE kind = "queue" /\ QueueNext
  BY <1>0, <1>2, QueueStep DEF Inv
<1>3. CASE kind = "stack" /\ StackNext
  BY <1>0, <1>3, StackStep DEF Inv
<1>4. CASE kind = "slab" /\ SlabNext
  BY <1>0, <1>4, SlabStep DEF Inv
<1>5. CASE kind = "event" /\ EventNext
  BY <1>0, <1>5, EventStep DEF Inv
<1>6. CASE kind = "heap" /\ HeapNext
  BY <1>0, <1>6, HeapStep DEF Inv
<1>7. CASE kind = "mbox" /\ MboxNext
  BY <1>0, <1>7, MboxStep DEF Inv
<1>8. CASE kind = "pipe" /\ PipeNext
  BY <1>0, <1>8, PipeStep DEF Inv
<1>9. CASE kind = "futex" /\ FutexNext
  BY <1>0, <1>9, FutexStep DEF Inv
<1>10. CASE kind = "poll" /\ PollNext
  BY <1>0, <1>10, PollStep DEF Inv
<1> QED BY <1>1, <1>2, <1>3, <1>4, <1>5, <1>6, <1>7, <1>8, <1>9, <1>10 DEF Next

\* It says what the modules of the objects state.
LEMMA InvMeans ==
    Inv => ContentsKept /\ NobodyStranded /\ ResultsHold
<1> SUFFICES ASSUME Inv PROVE ContentsKept /\ NobodyStranded /\ ResultsHold
  OBVIOUS
<1>1. kind = "msgq" => MsgQContents /\ MsgQNobodyStranded /\ MsgQResults
  BY MsgQMeans DEF Inv
<1>2. kind = "queue" => QueueContents /\ QueueNobodyStranded
  BY QueueMeans DEF Inv
<1>3. kind = "stack" => StackContents /\ StackNobodyStranded
  BY StackMeans DEF Inv
<1>4. kind = "slab" => SlabContents /\ SlabNobodyStranded
  BY SlabMeans DEF Inv
<1>5. kind = "event" => EventNobodyStranded /\ EventResults
  BY DEF Inv, EventInv
<1>6. kind = "heap" => HeapNobodyStranded
  BY DEF Inv, HeapInv
<1>7. kind = "mbox" => MboxContents /\ MboxNobodyStranded /\ MboxResults
  BY MboxMeans DEF Inv
<1>8. kind = "pipe" => PipeContents /\ PipeNobodyStranded /\ PipeResults
  BY PipeMeans DEF Inv
<1>9. kind = "futex" => FutexNobodyStranded
  BY DEF Inv, FutexInv
<1>10. kind = "poll" => PollContents /\ PollNobodyStranded /\ PollResults
  BY PollMeans DEF Inv
<1> QED BY <1>1, <1>2, <1>3, <1>4, <1>5, <1>6, <1>7, <1>8, <1>9, <1>10
         DEF ContentsKept, NobodyStranded, ResultsHold

\* Nothing happens to any object in a step of something else.
LEMMA InvStutter ==
    Inv /\ UNCHANGED <<wqVars, kind>> => Inv'
<1> SUFFICES ASSUME Inv, UNCHANGED <<wqVars, kind>> PROVE Inv'
  OBVIOUS
<1>0. kind' = kind /\ th' = th /\ wait_q' = wait_q /\ obj' = obj /\ held' = held
  BY DEF wqVars
<1>1. MsgQInv => MsgQInv'
  BY <1>0 DEF MsgQInv, MsgQOwners, MsgQCalls, Woken, Pends, MsgQNobodyStranded, Waiters
<1>2. QueueInv => QueueInv'
  BY <1>0 DEF QueueInv, QueuePlaces, Handed, Woken, QueueNobodyStranded, Pends
<1>3. StackInv => StackInv'
  BY <1>0 DEF StackInv, StackNobodyStranded, Woken, Pends
<1>4. SlabInv => SlabInv'
  BY <1>0 DEF SlabInv, SlabCalls, Woken, Pends, SlabNobodyStranded, SlabPlaces, Handed
<1>5. EventInv => EventInv'
  BY <1>0 DEF EventInv, EventResults, Woken, EventNobodyStranded, Waiters, Pends
<1>6. HeapInv => HeapInv'
  BY <1>0 DEF HeapInv, HeapNobodyStranded, Waiters, Woken, Pends
<1>7. MboxInv => MboxInv'
  BY <1>0 DEF MboxInv, MboxNobodyStranded, Waiters, Out, MboxType, MboxCalls
<1>8. PipeInv => PipeInv'
  BY <1>0 DEF PipeInv
<1>9. FutexInv => FutexInv'
  BY <1>0 DEF FutexInv, FutexNobodyStranded, Waiters
<1>10. PollInv => PollInv'
  BY <1>0 DEF PollInv, PollListeners, PollTold, PollType, PollLists, PollListed
<1> QED BY <1>0, <1>1, <1>2, <1>3, <1>4, <1>5, <1>6, <1>7, <1>8, <1>9, <1>10 DEF Inv

\* The invariants of the kinds hold throughout.
THEOREM ObjectsInvariant ==
    Spec => []Inv
<1>1. Init => Inv
  BY InvInit
<1>2. Inv /\ [Next]_<<wqVars, kind>> => Inv'
  BY InvNext, InvStutter
<1> QED BY <1>1, <1>2, PTL DEF Spec

\* What was put into an object is kept in order, in one place, until it is taken:
\* across the ends of a ring, direct hand-overs, timeouts, purges and cancelled waits.
THEOREM ObjectsContentsKept ==
    Spec => []ContentsKept
BY ObjectsInvariant, InvMeans, PTL

\* No thread is left waiting for what the object could give it.
THEOREM ObjectsNobodyStranded ==
    Spec => []NobodyStranded
BY ObjectsInvariant, InvMeans, PTL

\* What a call reports when it returns after a wait is true.
THEOREM ObjectsResultsHold ==
    Spec => []ResultsHold
BY ObjectsInvariant, InvMeans, PTL
=============================================================================
