---------------------------- MODULE TimeoutProof ----------------------------
(***************************************************************************)
(* Proofs about the timeout queue: the list of differences implements a    *)
(* set of absolute expiry ticks, no tick is lost, no timeout is late, and  *)
(* the interrupt that the first one needs is always armed.                 *)
(***************************************************************************)
EXTENDS TimeoutQ, SeqLemmas

-----------------------------------------------------------------------------
(* The delta list. *)

\* The distance of a timeout of the list from curr_tick.
Dist(list, dt, to) ==
    SumTo(list, dt, CHOOSE i \in 1..Len(list) : list[i] = to)

\* Expires in terms of it.
LEMMA ExpiresIsDist ==
    \A to : Expires(to) = curr_tick + Dist(timeout_list, dticks, to)
BY DEF Expires, Position, Dist

\* The distance of the i-th timeout is the sum of the first i differences.
LEMMA DistAt ==
    ASSUME NEW list \in Seq(Timeouts), IsInjective(list), NEW dt,
           NEW i \in 1..Len(list)
    PROVE  Dist(list, dt, list[i]) = SumTo(list, dt, i)
<1> DEFINE k == CHOOSE k \in 1..Len(list) : list[k] = list[i]
<1>1. k \in 1..Len(list) /\ list[k] = list[i]
  OBVIOUS
<1>2. Len(list) \in Nat /\ DOMAIN list = 1..Len(list)
  BY LenProperties
<1> HIDE DEF k
<1>3. k = i
  BY <1>1, <1>2 DEF IsInjective
<1> QED BY <1>3 DEF Dist, k

\* The partial sums of a list of differences.
LEMMA SumToFacts ==
    ASSUME NEW list \in Seq(Timeouts), NEW dt \in [Timeouts -> Nat]
    PROVE  /\ Len(list) \in Nat /\ DOMAIN list = 1..Len(list)
           /\ \A i \in 1..Len(list) : list[i] \in Timeouts
           /\ SumTo(list, dt, 0) = 0
           /\ \A i \in 0..Len(list) : SumTo(list, dt, i) \in Nat
           /\ \A i \in 1..Len(list) :
                 SumTo(list, dt, i) = SumTo(list, dt, i - 1) + dt[list[i]]
           /\ \A i \in 0..Len(list) : \A j \in i..Len(list) :
                 SumTo(list, dt, i) <= SumTo(list, dt, j)
<1> DEFINE n == Len(list)
           e == [j \in 1..n |-> dt[list[j]]]
<1>1. n \in Nat /\ DOMAIN list = 1..n /\ \A i \in 1..n : list[i] \in Timeouts
  BY LenProperties, ElementOfSeq
<1>2. \A j \in 1..n : e[j] \in Nat /\ e[j] \in Int /\ e[j] = dt[list[j]]
  BY <1>1
<1>3. \A i : SumTo(list, dt, i) = SumFunctionOnSet(e, 1..i)
  BY DEF SumTo
<1> HIDE DEF e, n
<1>4. /\ SumFunctionOnSet(e, 1..0) = 0
      /\ \A i \in 1..n : SumFunctionOnSet(e, 1..i)
                            = SumFunctionOnSet(e, 1..(i - 1)) + e[i]
  BY <1>1, <1>2, SumFirst
<1>5. /\ \A i \in 0..n : SumFunctionOnSet(e, 1..i) \in Nat
      /\ \A i \in 0..n : \A j \in i..n :
            SumFunctionOnSet(e, 1..i) <= SumFunctionOnSet(e, 1..j)
  BY <1>1, <1>2, SumMonotone
<1>6. /\ SumTo(list, dt, 0) = 0
      /\ \A i \in 0..n : SumTo(list, dt, i) \in Nat
      /\ \A i \in 1..n : SumTo(list, dt, i) = SumTo(list, dt, i - 1) + dt[list[i]]
      /\ \A i \in 0..n : \A j \in i..n : SumTo(list, dt, i) <= SumTo(list, dt, j)
  BY <1>2, <1>3, <1>4, <1>5
<1> QED BY <1>1, <1>6 DEF n

\* Two lists with the same differences after place a up to b, in the second k
\* places on.
SameStretch(list, dt, new, du, k, v, a, b) ==
    /\ a \in 0..Len(list) /\ b \in a..Len(list)
    /\ a + k \in 0..Len(new) /\ b + k \in 0..Len(new)
    /\ \A j \in (a + 1)..b : du[new[j + k]] = dt[list[j]]
    /\ SumTo(new, du, a + k) = SumTo(list, dt, a) + v

\* The sums of the two lists differ by v on that stretch.
SameSums(list, dt, new, du, k, v, a, b) ==
    \A j \in a..b : SumTo(new, du, j + k) = SumTo(list, dt, j) + v

\* What their sums differ by at place a, they differ by at all of these places.
LEMMA SumToShift ==
    ASSUME NEW list \in Seq(Timeouts), NEW dt \in [Timeouts -> Nat],
           NEW new \in Seq(Timeouts), NEW du \in [Timeouts -> Nat],
           NEW k \in Int, NEW v \in Int, NEW a \in Nat, NEW b \in Nat,
           SameStretch(list, dt, new, du, k, v, a, b)
    PROVE  SameSums(list, dt, new, du, k, v, a, b)
<1> USE DEF SameStretch
<1> DEFINE m == Len(list)
           n == Len(new)
           e == [j \in 1..m |-> dt[list[j]]]
           d == [j \in 1..n |-> du[new[j]]]
<1>1. /\ m \in Nat /\ n \in Nat
      /\ \A i \in 1..m : list[i] \in Timeouts
      /\ \A i \in 1..n : new[i] \in Timeouts
  BY LenProperties, ElementOfSeq
<1>2. \A j \in 1..m : e[j] \in Int /\ e[j] = dt[list[j]]
  BY <1>1
<1>3. \A j \in 1..n : d[j] \in Int /\ d[j] = du[new[j]]
  BY <1>1
<1>4. /\ \A i : SumTo(list, dt, i) = SumFunctionOnSet(e, 1..i)
      /\ \A i : SumTo(new, du, i) = SumFunctionOnSet(d, 1..i)
  BY DEF SumTo
<1>5. a \in 0..m /\ b \in a..m /\ a + k \in 0..n /\ b + k \in 0..n
  OBVIOUS
<1> HIDE DEF d, e, m, n
<1>6. \A j \in (a + 1)..b : d[j + k] = e[j]
  <2> SUFFICES ASSUME NEW j \in (a + 1)..b PROVE d[j + k] = e[j]
    OBVIOUS
  <2>1. j \in 1..m /\ j + k \in 1..n
    BY <1>1, <1>5
  <2> QED BY <1>2, <1>3, <2>1
<1>7. SumFunctionOnSet(d, 1..(a + k)) = SumFunctionOnSet(e, 1..a) + v
  BY <1>4
<1>8. \A j \in a..b : SumFunctionOnSet(d, 1..(j + k)) = SumFunctionOnSet(e, 1..j) + v
  <2>1. Shifted(e, m, d, n, k, v, a, b)
    BY <1>1, <1>2, <1>3, <1>5, <1>6, <1>7 DEF Shifted
  <2> QED BY <1>1, <2>1, SumShift
<1> QED BY <1>4, <1>8 DEF SameSums

\* The first timeout is the nearest one.
LEMMA DistHead ==
    ASSUME NEW list \in Seq(Timeouts), IsInjective(list),
           NEW dt \in [Timeouts -> Nat]
    PROVE  /\ \A u \in Range(list) : Dist(list, dt, u) \in Nat
           /\ list # <<>> =>
                 /\ Head(list) \in Range(list) /\ Head(list) = list[1]
                 /\ Head(list) \in Timeouts
                 /\ Dist(list, dt, Head(list)) = dt[Head(list)]
                 /\ \A u \in Range(list) : dt[Head(list)] <= Dist(list, dt, u)
                 /\ \A u \in Range(list) : dt[u] <= Dist(list, dt, u)
<1> DEFINE n == Len(list)
           S(i) == SumTo(list, dt, i)
<1>1. /\ n \in Nat /\ DOMAIN list = 1..n
      /\ \A i \in 1..n : list[i] \in Timeouts
      /\ S(0) = 0
      /\ \A i \in 0..n : S(i) \in Nat
      /\ \A i \in 1..n : S(i) = S(i - 1) + dt[list[i]]
      /\ \A i \in 0..n : \A j \in i..n : S(i) <= S(j)
  BY SumToFacts
<1>2. \A i \in 1..n : Dist(list, dt, list[i]) = S(i)
  BY DistAt
<1>3. \A u \in Range(list) : \E i \in 1..n : u = list[i]
  BY <1>1 DEF Range
<1> HIDE DEF n, S
<1>4. \A u \in Range(list) : Dist(list, dt, u) \in Nat
  BY <1>1, <1>2, <1>3
<1>5. ASSUME list # <<>>
      PROVE  /\ Head(list) \in Range(list) /\ Head(list) = list[1]
             /\ Head(list) \in Timeouts
             /\ Dist(list, dt, Head(list)) = dt[Head(list)]
             /\ \A u \in Range(list) : dt[Head(list)] <= Dist(list, dt, u)
             /\ \A u \in Range(list) : dt[u] <= Dist(list, dt, u)
  <2>1. 1 \in 1..n /\ Head(list) = list[1]
    BY <1>5, <1>1, EmptySeq DEF n
  <2>2. list[1] \in Range(list) /\ list[1] \in Timeouts
    BY <1>1, <2>1 DEF Range
  <2>3. S(1) = S(1 - 1) + dt[list[1]]
    BY <1>1, <2>1
  <2>4. S(1) = dt[list[1]]
    BY <1>1, <2>2, <2>3
  <2>5. Dist(list, dt, list[1]) = dt[list[1]]
    BY <1>2, <2>1, <2>4
  <2>6. \A i \in 1..n : S(1) <= S(i) /\ dt[list[i]] <= S(i)
    <3> SUFFICES ASSUME NEW i \in 1..n PROVE S(1) <= S(i) /\ dt[list[i]] <= S(i)
      OBVIOUS
    <3>1. 1 \in 0..n /\ i \in 1..n /\ i - 1 \in 0..n
      BY <1>1
    <3>2. S(1) <= S(i)
      BY <1>1, <3>1
    <3>3. S(i) = S(i - 1) + dt[list[i]] /\ S(i - 1) \in Nat /\ dt[list[i]] \in Nat
      BY <1>1, <3>1
    <3> QED BY <3>2, <3>3
  <2> QED BY <1>2, <1>3, <2>1, <2>2, <2>4, <2>5, <2>6
<1> QED BY <1>4, <1>5

\* The elements after an insertion, for lists of timeouts.
InsertElements(list, i, to, new) ==
    /\ new \in Seq(Timeouts) /\ Len(new) = Len(list) + 1
    /\ \A j \in 1..(Len(list) + 1) :
          new[j] = IF j < i THEN list[j] ELSE IF j = i THEN to ELSE list[j - 1]

\* InsertAt puts the timeout in its place.
LEMMA InsertTimeout ==
    ASSUME NEW list \in Seq(Timeouts), NEW to \in Timeouts,
           NEW i \in 1..(Len(list) + 1)
    PROVE  InsertElements(list, i, to, InsertAt(list, i, to))
<1>1. /\ InsertAt(list, i, to) \in Seq(Timeouts)
      /\ Len(InsertAt(list, i, to)) = Len(list) + 1
      /\ \A j \in 1..(Len(list) + 1) :
            InsertAt(list, i, to)[j] = IF j < i THEN list[j]
                                       ELSE IF j = i THEN to ELSE list[j - 1]
  BY InsertAtElements
<1> QED BY <1>1 DEF InsertElements

\* A timeout put into a list at place i, d ticks from curr_tick.
Inserted(list, dt, to, d, i, new, du) ==
    LET own == d - SumTo(list, dt, i - 1)
    IN  /\ SumTo(list, dt, i - 1) <= d
        /\ i <= Len(list) => d <= SumTo(list, dt, i)
        /\ new = InsertAt(list, i, to)
        /\ du = [t \in Timeouts |->
                    IF t = to THEN own
                    ELSE IF i <= Len(list) /\ t = list[i]
                         THEN dt[t] - own
                         ELSE dt[t]]

\* It is d ticks from curr_tick, and the others stay where they are.
InsertResult(list, dt, to, d, i, new, du) ==
    /\ new \in Seq(Timeouts) /\ IsInjective(new)
    /\ Range(new) = Range(list) \union {to}
    /\ du \in [Timeouts -> Nat]
    /\ Dist(new, du, to) = d
    /\ \A u \in Range(list) : Dist(new, du, u) = Dist(list, dt, u)
    /\ i = 1 => Head(new) = to
    /\ i # 1 => /\ list # <<>> /\ Head(new) = Head(list)
                /\ du[Head(list)] = dt[Head(list)]

\* Inserting has that result.
LEMMA InsertDist ==
    ASSUME NEW list \in Seq(Timeouts), IsInjective(list),
           NEW dt \in [Timeouts -> Nat], NEW to \in Timeouts, to \notin Range(list),
           NEW d \in Nat, NEW i \in 1..(Len(list) + 1), NEW new, NEW du,
           Inserted(list, dt, to, d, i, new, du)
    PROVE  InsertResult(list, dt, to, d, i, new, du)
<1> DEFINE n == Len(list)
           S(j) == SumTo(list, dt, j)
           U(j) == SumTo(new, du, j)
           own == d - S(i - 1)
<1>1. /\ n \in Nat /\ DOMAIN list = 1..n
      /\ \A j \in 1..n : list[j] \in Timeouts
      /\ S(0) = 0
      /\ \A j \in 0..n : S(j) \in Nat
      /\ \A j \in 1..n : S(j) = S(j - 1) + dt[list[j]]
  BY SumToFacts
<1>2. /\ new \in Seq(Timeouts) /\ Len(new) = n + 1
      /\ \A j \in 1..(n + 1) : new[j] = IF j < i THEN list[j]
                                        ELSE IF j = i THEN to ELSE list[j - 1]
  <2>1. new = InsertAt(list, i, to)
    BY DEF Inserted
  <2>2. InsertElements(list, i, to, new)
    BY <2>1, InsertTimeout
  <2> QED BY <2>2 DEF InsertElements
<1>3. Range(new) = Range(list) \union {to} /\ IsInjective(new)
  <2>1. new = InsertAt(list, i, to)
    BY DEF Inserted
  <2> QED BY <2>1, InsertAtRange
<1>4. \A j, k \in 1..n : list[j] = list[k] => j = k
  BY <1>1 DEF IsInjective
<1>5. \A j \in 1..n : list[j] # to
  BY <1>1 DEF Range
<1>6. i - 1 \in 0..n /\ (i <= n => i \in 1..n) /\ i \in Nat
  BY <1>1
<1>7. own \in Nat /\ own = d - S(i - 1) /\ S(i - 1) <= d
  <2>1. S(i - 1) <= d /\ own = d - S(i - 1)
    BY DEF Inserted
  <2>2. S(i - 1) \in Nat
    BY <1>1, <1>6
  <2> HIDE DEF S, own
  <2> QED BY <2>1, <2>2
<1>8. i <= n => d <= S(i) /\ own <= dt[list[i]]
  <2> SUFFICES ASSUME i <= n PROVE d <= S(i) /\ own <= dt[list[i]]
    OBVIOUS
  <2>1. d <= S(i)
    BY DEF Inserted
  <2>2. S(i) = S(i - 1) + dt[list[i]] /\ S(i - 1) \in Nat /\ dt[list[i]] \in Nat
    BY <1>1, <1>6
  <2> HIDE DEF S, own
  <2> QED BY <1>7, <2>1, <2>2
<1>a. du = [t \in Timeouts |-> IF t = to THEN own
                              ELSE IF i <= n /\ t = list[i] THEN dt[t] - own
                              ELSE dt[t]]
  BY DEF Inserted
<1> HIDE DEF own
<1>9. du \in [Timeouts -> Nat]
  <2>1. \A t \in Timeouts : i <= n /\ t = list[i] => dt[t] - own \in Nat
    BY <1>7, <1>8
  <2> QED BY <1>7, <1>a, <2>1
<1>10. /\ du[to] = own
       /\ \A j \in 1..n : du[list[j]] = IF j = i THEN dt[list[j]] - own ELSE dt[list[j]]
  BY <1>1, <1>4, <1>5, <1>6, <1>a
<1>11. /\ U(0) = 0
       /\ \A j \in 0..(n + 1) : U(j) \in Nat
       /\ \A j \in 1..(n + 1) : U(j) = U(j - 1) + du[new[j]]
  BY <1>2, <1>9, SumToFacts
<1>12. PICK z \in Int : z = 0
  OBVIOUS
<1> HIDE DEF n, S, U
<1>13. \A j \in 0..(i - 1) : U(j) = S(j)
  <2>1. ASSUME NEW j \in 1..(i - 1) PROVE du[new[j]] = dt[list[j]]
    <3>1. j \in 1..n /\ j \in 1..(n + 1) /\ j < i /\ j # i
      BY <1>1, <1>6
    <3>2. new[j] = list[j]
      BY <1>2, <3>1
    <3> QED BY <1>10, <3>1, <3>2
  <2>2. SameStretch(list, dt, new, du, z, z, 0, i - 1)
    <3>1. \A j \in (0 + 1)..(i - 1) : j + z = j /\ j \in 1..(i - 1)
      BY <1>6, <1>12
    <3>2. \A j \in (0 + 1)..(i - 1) : du[new[j + z]] = dt[list[j]]
      BY <2>1, <3>1
    <3>3. 0 + z = 0 /\ (i - 1) + z = i - 1
      BY <1>6, <1>12
    <3>4. SumTo(new, du, 0 + z) = SumTo(list, dt, 0) + z
      BY <1>1, <1>11, <1>12, <3>3 DEF U, S
    <3>5. 0 \in 0..n /\ i - 1 \in 0..n /\ 0 \in 0..(n + 1) /\ i - 1 \in 0..(n + 1)
      BY <1>1, <1>6
    <3> QED BY <1>2, <3>2, <3>3, <3>4, <3>5 DEF SameStretch, n
  <2>3. i - 1 \in Nat
    BY <1>6
  <2>4. \A j \in 0..(i - 1) : SumTo(new, du, j + z) = SumTo(list, dt, j) + z
    <3>1. SameSums(list, dt, new, du, z, z, 0, i - 1)
      BY <1>2, <1>9, <2>2, <2>3, SumToShift
    <3> QED BY <3>1 DEF SameSums
  <2> SUFFICES ASSUME NEW j \in 0..(i - 1) PROVE U(j) = S(j)
    OBVIOUS
  <2>5. j \in 0..n /\ S(j) \in Nat
    BY <1>1, <1>6
  <2>6. j + z = j /\ S(j) + z = S(j)
    BY <1>12, <2>5
  <2> QED BY <2>4, <2>6 DEF U, S
<1>14. U(i) = d
  <2>1. new[i] = to /\ i \in 1..(n + 1) /\ i - 1 \in 0..(i - 1)
    BY <1>2, <1>1 DEF n
  <2>2. U(i) = U(i - 1) + own
    BY <1>10, <1>11, <2>1
  <2>3. U(i - 1) = S(i - 1) /\ S(i - 1) \in Nat
    BY <1>1, <1>6, <1>13, <2>1
  <2> QED BY <1>7, <2>2, <2>3
<1>15. \A j \in i..n : U(j + 1) = S(j)
  <2> SUFFICES ASSUME i <= n PROVE \A j \in i..n : U(j + 1) = S(j)
    BY <1>1, <1>6
  <2>1. U(i + 1) = S(i)
    <3>1. i + 1 \in 1..(n + 1) /\ i \in 1..n /\ (i + 1) - 1 = i
      BY <1>1, <1>6
    <3>2. new[i + 1] = list[i]
      BY <1>2, <3>1
    <3>3. U(i + 1) = U(i) + (dt[list[i]] - own)
      BY <1>10, <1>11, <3>1, <3>2
    <3>4. S(i) = S(i - 1) + dt[list[i]] /\ S(i - 1) \in Nat /\ dt[list[i]] \in Nat
      BY <1>1, <1>6, <3>1
    <3> QED BY <1>7, <1>14, <3>3, <3>4
  <2>2. \A j \in (i + 1)..n : du[new[j + 1]] = dt[list[j]]
    <3> SUFFICES ASSUME NEW j \in (i + 1)..n PROVE du[new[j + 1]] = dt[list[j]]
      OBVIOUS
    <3>1. j + 1 \in 1..(n + 1) /\ j \in 1..n /\ j # i /\ ~(j + 1 < i) /\ j + 1 # i
          /\ (j + 1) - 1 = j
      BY <1>1, <1>6
    <3>2. new[j + 1] = list[j]
      BY <1>2, <3>1
    <3> QED BY <1>10, <3>1, <3>2
  <2>3. SameStretch(list, dt, new, du, 1, z, i, n)
    <3>1. U(i + 1) = S(i) + z
      BY <1>1, <1>6, <1>12, <2>1
    <3>2. SumTo(new, du, i + 1) = SumTo(list, dt, i) + z
      BY <3>1 DEF U, S
    <3>3. i \in 0..n /\ n \in i..n /\ i + 1 \in 0..(n + 1) /\ n + 1 \in 0..(n + 1)
      BY <1>1, <1>6
    <3> QED BY <1>2, <2>2, <3>2, <3>3 DEF SameStretch, n
  <2>4. \A j \in i..n : SumTo(new, du, j + 1) = SumTo(list, dt, j) + z
    <3>0. i \in Nat /\ n \in Nat /\ 1 \in Int /\ new \in Seq(Timeouts)
      BY <1>1, <1>2, <1>6
    <3>1. SameSums(list, dt, new, du, 1, z, i, n)
      BY <1>9, <1>12, <2>3, <3>0, SumToShift
    <3> QED BY <3>1 DEF SameSums
  <2> SUFFICES ASSUME NEW j \in i..n PROVE U(j + 1) = S(j)
    OBVIOUS
  <2>5. S(j) + z = S(j)
    BY <1>1, <1>6, <1>12
  <2> QED BY <2>4, <2>5 DEF U, S
<1>16. \A j \in 1..(n + 1) : Dist(new, du, new[j]) = U(j)
  BY <1>2, <1>3, DistAt DEF U, n
<1>17. \A j \in 1..n : Dist(list, dt, list[j]) = S(j)
  BY DistAt DEF S, n
<1>18. Dist(new, du, to) = d
  <2>1. i \in 1..(n + 1) /\ new[i] = to
    BY <1>1, <1>2 DEF n
  <2> QED BY <1>14, <1>16, <2>1
<1>19. ASSUME NEW j \in 1..n PROVE Dist(new, du, list[j]) = Dist(list, dt, list[j])
  <2>1. CASE j < i
    <3>1. j \in 1..(n + 1) /\ new[j] = list[j] /\ j \in 0..(i - 1)
      BY <1>1, <1>2, <1>6, <2>1
    <3> QED BY <1>13, <1>16, <1>17, <3>1
  <2>2. CASE ~(j < i)
    <3>1. /\ j + 1 \in 1..(n + 1) /\ ~(j + 1 < i) /\ j + 1 # i /\ (j + 1) - 1 = j
          /\ j \in i..n
      BY <1>1, <1>6, <2>2
    <3>2. new[j + 1] = list[j]
      BY <1>2, <3>1
    <3>3. Dist(new, du, list[j]) = U(j + 1)
      BY <1>16, <3>1, <3>2
    <3> QED BY <1>15, <1>17, <3>1, <3>3
  <2> QED BY <2>1, <2>2
<1>20. \A u \in Range(list) : Dist(new, du, u) = Dist(list, dt, u)
  <2>1. \A u \in Range(list) : \E j \in 1..n : u = list[j]
    BY <1>1 DEF Range
  <2> QED BY <1>19, <2>1
<1>21. Head(new) = new[1] /\ 1 \in 1..(n + 1)
  BY <1>1, <1>2, EmptySeq DEF Head
<1>22. i = 1 => Head(new) = to
  BY <1>2, <1>21
<1>23. i # 1 => /\ list # <<>> /\ Head(new) = Head(list)
                /\ du[Head(list)] = dt[Head(list)]
  <2> SUFFICES ASSUME i # 1
               PROVE  /\ list # <<>> /\ Head(new) = Head(list)
                      /\ du[Head(list)] = dt[Head(list)]
    OBVIOUS
  <2>1. 1 \in 1..n /\ 1 < i
    BY <1>1, <1>6
  <2>2. list # <<>> /\ Head(list) = list[1]
    BY <1>1, <2>1, EmptySeq DEF n
  <2>3. new[1] = list[1]
    BY <1>2, <1>21, <2>1
  <2> QED BY <1>10, <1>21, <2>1, <2>2, <2>3
<1> QED BY <1>2, <1>3, <1>9, <1>18, <1>20, <1>22, <1>23 DEF InsertResult

\* The elements after a removal, for lists of timeouts.
RemoveElements(list, i, new) ==
    /\ new \in Seq(Timeouts) /\ Len(new) = Len(list) - 1
    /\ \A j \in 1..(Len(list) - 1) :
          new[j] = IF j < i THEN list[j] ELSE list[j + 1]

\* RemoveAt takes the timeout at its place out.
LEMMA RemoveTimeout ==
    ASSUME NEW list \in Seq(Timeouts), NEW i \in 1..Len(list)
    PROVE  RemoveElements(list, i, RemoveAt(list, i))
<1>1. /\ RemoveAt(list, i) \in Seq(Timeouts)
      /\ Len(RemoveAt(list, i)) = Len(list) - 1
      /\ \A j \in 1..(Len(list) - 1) :
            RemoveAt(list, i)[j] = IF j < i THEN list[j] ELSE list[j + 1]
  BY RemoveAtElements
<1> QED BY <1>1 DEF RemoveElements

\* A timeout taken out of the list at place i, its difference given to the
\* next one.
TakenOut(list, dt, i, new, du) ==
    /\ new = RemoveAt(list, i)
    /\ \A j \in 1..Len(list) : j # i =>
          du[list[j]] = IF j = i + 1 THEN dt[list[j]] + dt[list[i]] ELSE dt[list[j]]

\* The others stay where they are.
RemoveResult(list, dt, i, new, du) ==
    /\ new \in Seq(Timeouts) /\ IsInjective(new)
    /\ Range(new) = Range(list) \ {list[i]}
    /\ \A u \in Range(new) : Dist(new, du, u) = Dist(list, dt, u)
    /\ new # <<>> => dt[Head(list)] <= du[Head(new)]

\* Taking out has that result.
LEMMA RemoveDist ==
    ASSUME NEW list \in Seq(Timeouts), IsInjective(list),
           NEW dt \in [Timeouts -> Nat], NEW i \in 1..Len(list),
           NEW new, NEW du \in [Timeouts -> Nat], TakenOut(list, dt, i, new, du)
    PROVE  RemoveResult(list, dt, i, new, du)
<1> DEFINE n == Len(list)
           S(j) == SumTo(list, dt, j)
           U(j) == SumTo(new, du, j)
<1>0. \A j \in 1..n : j # i =>
         du[list[j]] = IF j = i + 1 THEN dt[list[j]] + dt[list[i]] ELSE dt[list[j]]
  BY DEF TakenOut
<1>1. /\ n \in Nat /\ DOMAIN list = 1..n
      /\ \A j \in 1..n : list[j] \in Timeouts
      /\ S(0) = 0
      /\ \A j \in 0..n : S(j) \in Nat
      /\ \A j \in 1..n : S(j) = S(j - 1) + dt[list[j]]
  BY SumToFacts
<1>2. /\ new \in Seq(Timeouts) /\ Len(new) = n - 1
      /\ \A j \in 1..(n - 1) : new[j] = IF j < i THEN list[j] ELSE list[j + 1]
  <2>1. RemoveElements(list, i, new)
    BY RemoveTimeout DEF TakenOut
  <2> QED BY <2>1 DEF RemoveElements
<1>3. Range(new) = Range(list) \ {list[i]} /\ IsInjective(new)
  <2>1. new = RemoveAt(list, i)
    BY DEF TakenOut
  <2> QED BY <2>1, RemoveAtRange
<1>4. i \in 1..n /\ i - 1 \in 0..n /\ i - 1 \in Nat /\ n - 1 \in Nat /\ i \in Nat
  BY <1>1
<1>5. DOMAIN new = 1..(n - 1)
  BY <1>2, LenProperties
<1>6. /\ U(0) = 0
      /\ \A j \in 0..(n - 1) : U(j) \in Nat
      /\ \A j \in 1..(n - 1) : U(j) = U(j - 1) + du[new[j]]
  BY <1>2, SumToFacts
<1>7. PICK z \in Int : z = 0
  OBVIOUS
<1> HIDE DEF n, S, U
<1>8. \A j \in 0..(i - 1) : U(j) = S(j)
  <2>1. ASSUME NEW j \in 1..(i - 1) PROVE du[new[j]] = dt[list[j]]
    <3>1. j \in 1..n /\ j \in 1..(n - 1) /\ j < i /\ j # i /\ j # i + 1
      BY <1>1, <1>4
    <3>2. new[j] = list[j]
      BY <1>2, <3>1
    <3> QED BY <1>0, <3>1, <3>2
  <2>2. SameStretch(list, dt, new, du, z, z, 0, i - 1)
    <3>1. \A j \in (0 + 1)..(i - 1) : j + z = j /\ j \in 1..(i - 1)
      BY <1>4, <1>7
    <3>2. \A j \in (0 + 1)..(i - 1) : du[new[j + z]] = dt[list[j]]
      BY <2>1, <3>1
    <3>3. 0 + z = 0 /\ (i - 1) + z = i - 1
      BY <1>4, <1>7
    <3>4. SumTo(new, du, 0 + z) = SumTo(list, dt, 0) + z
      BY <1>1, <1>6, <1>7, <3>3 DEF U, S
    <3>5. 0 \in 0..n /\ i - 1 \in 0..n /\ 0 \in 0..(n - 1) /\ i - 1 \in 0..(n - 1)
      BY <1>1, <1>4
    <3> QED BY <1>2, <3>2, <3>3, <3>4, <3>5 DEF SameStretch, n
  <2>3. SameSums(list, dt, new, du, z, z, 0, i - 1)
    BY <1>2, <1>4, <2>2, SumToShift
  <2> SUFFICES ASSUME NEW j \in 0..(i - 1) PROVE U(j) = S(j)
    OBVIOUS
  <2>4. SumTo(new, du, j + z) = SumTo(list, dt, j) + z
    BY <2>3 DEF SameSums
  <2>5. j \in 0..n /\ S(j) \in Nat
    <3>1. j \in 0..n
      BY <1>1, <1>4
    <3> QED BY <1>1, <3>1
  <2>6. j + z = j /\ S(j) + z = S(j)
    BY <1>7, <2>5
  <2> QED BY <2>4, <2>6 DEF U, S
<1>9. \A j \in (i + 1)..n : U(j - 1) = S(j)
  <2> SUFFICES ASSUME i + 1 <= n PROVE \A j \in (i + 1)..n : U(j - 1) = S(j)
    BY <1>1, <1>4
  <2>1. U(i) = S(i + 1)
    <3>1. /\ i + 1 \in 1..n /\ i + 1 # i /\ i \in 1..(n - 1) /\ ~(i < i)
          /\ (i + 1) - 1 = i /\ i - 1 \in 0..(i - 1)
      BY <1>1, <1>4
    <3>2. new[i] = list[i + 1] /\ du[list[i + 1]] = dt[list[i + 1]] + dt[list[i]]
      BY <1>0, <1>2, <3>1
    <3>3. U(i) = U(i - 1) + (dt[list[i + 1]] + dt[list[i]])
      BY <1>6, <3>1, <3>2
    <3>4. S(i + 1) = S(i) + dt[list[i + 1]] /\ S(i) = S(i - 1) + dt[list[i]]
      BY <1>1, <1>4, <3>1
    <3>5. U(i - 1) = S(i - 1) /\ S(i - 1) \in Nat
      BY <1>1, <1>4, <1>8, <3>1
    <3>6. dt[list[i + 1]] \in Nat /\ dt[list[i]] \in Nat
      BY <1>1, <1>4, <3>1
    <3> QED BY <3>3, <3>4, <3>5, <3>6
  <2>2. PICK k \in Int : k = -1
    OBVIOUS
  <2>3. \A j \in ((i + 1) + 1)..n : du[new[j + k]] = dt[list[j]]
    <3> SUFFICES ASSUME NEW j \in ((i + 1) + 1)..n PROVE du[new[j + k]] = dt[list[j]]
      OBVIOUS
    <3>1. /\ j + k = j - 1 /\ j - 1 \in 1..(n - 1) /\ j \in 1..n /\ j # i /\ j # i + 1
          /\ ~(j - 1 < i) /\ (j - 1) + 1 = j
      BY <1>1, <1>4, <2>2
    <3>2. new[j - 1] = list[j]
      <4>1. new[j - 1] = list[(j - 1) + 1]
        BY <1>2, <3>1
      <4> QED BY <3>1, <4>1
    <3> QED BY <1>0, <3>1, <3>2
  <2>4. SameStretch(list, dt, new, du, k, z, i + 1, n)
    <3>1. /\ i + 1 \in 0..n /\ n \in (i + 1)..n /\ (i + 1) + k = i /\ n + k = n - 1
          /\ i \in 0..(n - 1) /\ n - 1 \in 0..(n - 1)
      BY <1>1, <1>4, <2>2
    <3>2. U((i + 1) + k) = S(i + 1) + z
      BY <1>1, <1>7, <2>1, <3>1
    <3>3. SumTo(new, du, (i + 1) + k) = SumTo(list, dt, i + 1) + z
      BY <3>2 DEF U, S
    <3> QED BY <1>2, <2>3, <3>1, <3>3 DEF SameStretch, n
  <2>5. SameSums(list, dt, new, du, k, z, i + 1, n)
    <3>1. i + 1 \in Nat /\ n \in Nat /\ new \in Seq(Timeouts)
      BY <1>1, <1>2, <1>4
    <3> QED BY <1>7, <2>2, <2>4, <3>1, SumToShift
  <2> SUFFICES ASSUME NEW j \in (i + 1)..n PROVE U(j - 1) = S(j)
    OBVIOUS
  <2>6. SumTo(new, du, j + k) = SumTo(list, dt, j) + z
    BY <2>5 DEF SameSums
  <2>7. j \in 0..n /\ S(j) \in Nat /\ j + k = j - 1
    <3>1. j \in 0..n /\ j + k = j - 1
      BY <1>1, <1>4, <2>2
    <3> QED BY <1>1, <3>1
  <2>8. S(j) + z = S(j)
    BY <1>7, <2>7
  <2> QED BY <2>6, <2>7, <2>8 DEF U, S
<1>10. \A j \in 1..(n - 1) : Dist(new, du, new[j]) = U(j)
  BY <1>2, <1>3, DistAt DEF U, n
<1>11. \A j \in 1..n : Dist(list, dt, list[j]) = S(j)
  BY DistAt DEF S, n
<1>12. \A u \in Range(new) : Dist(new, du, u) = Dist(list, dt, u)
  <2> SUFFICES ASSUME NEW j \in 1..(n - 1)
               PROVE  Dist(new, du, new[j]) = Dist(list, dt, new[j])
    BY <1>5 DEF Range
  <2>1. CASE j < i
    <3>1. j \in 1..n /\ j \in 0..(i - 1) /\ new[j] = list[j]
      BY <1>1, <1>2, <1>4, <2>1
    <3> QED BY <1>8, <1>10, <1>11, <3>1
  <2>2. CASE ~(j < i)
    <3>1. j + 1 \in 1..n /\ j + 1 \in (i + 1)..n /\ (j + 1) - 1 = j
      BY <1>1, <1>4, <2>2
    <3>2. new[j] = list[j + 1]
      BY <1>2, <2>2
    <3>3. U(j) = S(j + 1)
      <4>1. U((j + 1) - 1) = S(j + 1)
        BY <1>9, <3>1
      <4> QED BY <3>1, <4>1
    <3> QED BY <1>10, <1>11, <3>1, <3>2, <3>3
  <2> QED BY <2>1, <2>2
<1>13. new # <<>> => dt[Head(list)] <= du[Head(new)]
  <2> SUFFICES ASSUME new # <<>> PROVE dt[Head(list)] <= du[Head(new)]
    OBVIOUS
  <2>1. 1 \in 1..(n - 1) /\ 1 \in 1..n /\ 2 \in 1..n
    BY <1>1, <1>2, EmptySeq
  <2>2. Head(new) = new[1] /\ Head(list) = list[1]
    BY <1>1, <1>2, <2>1, EmptySeq DEF Head, n
  <2>3. dt[list[1]] \in Nat /\ dt[list[2]] \in Nat /\ du[list[1]] \in Nat
    BY <1>1, <2>1
  <2>4. CASE i = 1
    <3>1. new[1] = list[2] /\ du[list[2]] = dt[list[2]] + dt[list[1]]
      BY <1>0, <1>2, <2>1, <2>4
    <3> QED BY <2>2, <2>3, <3>1
  <2>5. CASE i # 1
    <3>1. 1 < i /\ 1 # i + 1
      BY <1>4, <2>5
    <3>2. new[1] = list[1] /\ du[list[1]] = dt[list[1]]
      BY <1>0, <1>2, <2>1, <3>1
    <3> QED BY <2>2, <2>3, <3>2
  <2> QED BY <2>4, <2>5
<1> QED BY <1>2, <1>3, <1>12, <1>13 DEF RemoveResult

\* When the first timeout is taken out, the others are nearer by its distance.
LEMMA TailDist ==
    ASSUME NEW list \in Seq(Timeouts), IsInjective(list), list # <<>>,
           NEW dt \in [Timeouts -> Nat]
    PROVE  /\ Tail(list) \in Seq(Timeouts) /\ IsInjective(Tail(list))
           /\ Range(Tail(list)) = Range(list) \ {Head(list)}
           /\ \A u \in Range(Tail(list)) :
                 Dist(Tail(list), [dt EXCEPT ![Head(list)] = 0], u)
                    = Dist(list, dt, u) - dt[Head(list)]
<1> DEFINE n == Len(list)
           S(j) == SumTo(list, dt, j)
           new == Tail(list)
           h == Head(list)
           du == [dt EXCEPT ![h] = 0]
           U(j) == SumTo(new, du, j)
<1>1. /\ n \in Nat /\ DOMAIN list = 1..n
      /\ \A j \in 1..n : list[j] \in Timeouts
      /\ S(0) = 0
      /\ \A j \in 0..n : S(j) \in Nat
      /\ \A j \in 1..n : S(j) = S(j - 1) + dt[list[j]]
  BY SumToFacts
<1>2. /\ h \in Timeouts /\ new \in Seq(Timeouts) /\ Len(new) = n - 1
      /\ \A j \in 1..(n - 1) : new[j] = list[j + 1]
  BY HeadTailProperties
<1>3. IsInjective(new) /\ Range(new) = Range(list) \ {h}
  BY TailRange
<1>4. n - 1 \in Nat /\ h = list[1] /\ 1 \in 1..n
  BY <1>1, EmptySeq
<1>5. \A j \in 1..n : list[j] = h => j = 1
  BY <1>1, <1>4 DEF IsInjective
<1>6. du \in [Timeouts -> Nat] /\ \A j \in 1..n : j # 1 => du[list[j]] = dt[list[j]]
  BY <1>1, <1>2, <1>5
<1>7. U(0) = 0
  BY <1>2, <1>6, SumToFacts
<1>8. dt[h] \in Nat
  BY <1>2
<1>9. PICK k \in Int : k = -1
  OBVIOUS
<1>10. PICK v \in Int : v = 0 - dt[h]
  BY <1>8
<1> HIDE DEF n, S, U, new, du
<1>11. S(1) = dt[h]
  <2>1. S(1) = S(1 - 1) + dt[h]
    BY <1>1, <1>4
  <2> QED BY <1>1, <1>8, <2>1
<1>12. SameStretch(list, dt, new, du, k, v, 1, n)
  <2>1. \A j \in (1 + 1)..n : du[new[j + k]] = dt[list[j]]
    <3> SUFFICES ASSUME NEW j \in (1 + 1)..n PROVE du[new[j + k]] = dt[list[j]]
      OBVIOUS
    <3>1. j + k = j - 1 /\ j - 1 \in 1..(n - 1) /\ j \in 1..n /\ j # 1 /\ (j - 1) + 1 = j
      BY <1>1, <1>9
    <3>2. new[j - 1] = list[j]
      BY <1>2, <3>1
    <3> QED BY <1>6, <3>1, <3>2
  <2>2. 1 + k = 0 /\ n + k = n - 1 /\ 0 \in 0..(n - 1) /\ n - 1 \in 0..(n - 1)
        /\ 1 \in 0..n /\ n \in 1..n
    BY <1>1, <1>4, <1>9
  <2>3. U(1 + k) = S(1) + v
    BY <1>7, <1>8, <1>10, <1>11, <2>2
  <2>4. SumTo(new, du, 1 + k) = SumTo(list, dt, 1) + v
    BY <2>3 DEF U, S
  <2> QED BY <1>2, <2>1, <2>2, <2>4 DEF SameStretch, n
<1>13. SameSums(list, dt, new, du, k, v, 1, n)
  <2>1. n \in Nat /\ 1 \in Nat /\ new \in Seq(Timeouts) /\ du \in [Timeouts -> Nat]
    BY <1>1, <1>2, <1>6
  <2> QED BY <1>9, <1>10, <1>12, <2>1, SumToShift
<1>14. ASSUME NEW j \in 1..(n - 1)
       PROVE  Dist(new, du, new[j]) = Dist(list, dt, new[j]) - dt[h]
  <2>1. j + 1 \in 1..n /\ (j + 1) + k = j /\ j + 1 \in 0..n
    BY <1>1, <1>4, <1>9
  <2>2. SumTo(new, du, (j + 1) + k) = SumTo(list, dt, j + 1) + v
    BY <1>13, <2>1 DEF SameSums
  <2>3. new[j] = list[j + 1]
    BY <1>2
  <2>4. Dist(new, du, new[j]) = SumTo(new, du, j)
    BY <1>2, <1>3, DistAt
  <2>5. Dist(list, dt, list[j + 1]) = S(j + 1)
    BY <2>1, DistAt DEF S, n
  <2>6. S(j + 1) \in Nat /\ SumTo(new, du, j) = S(j + 1) + v
    BY <1>1, <2>1, <2>2 DEF S
  <2>7. S(j + 1) + v = S(j + 1) - dt[h]
    BY <1>8, <1>10, <2>6
  <2> QED BY <2>3, <2>4, <2>5, <2>6, <2>7
<1>15. DOMAIN new = 1..(n - 1)
  BY <1>2, LenProperties
<1>16. \A u \in Range(new) : Dist(new, du, u) = Dist(list, dt, u) - dt[h]
  BY <1>14, <1>15 DEF Range
<1> QED BY <1>2, <1>3, <1>16 DEF new, du

\* Every timeout of the list is nearer by r.
HeadResult(list, dt, r, du) ==
    /\ du \in [Timeouts -> Nat]
    /\ \A u \in Range(list) : Dist(list, du, u) = Dist(list, dt, u) - r

\* It is when the first difference shrinks by r.
LEMMA HeadDist ==
    ASSUME NEW list \in Seq(Timeouts), IsInjective(list), list # <<>>,
           NEW dt \in [Timeouts -> Nat], NEW r \in Nat, r <= dt[Head(list)]
    PROVE  HeadResult(list, dt, r, [dt EXCEPT ![Head(list)] = @ - r])
<1> DEFINE n == Len(list)
           S(j) == SumTo(list, dt, j)
           h == Head(list)
           du == [dt EXCEPT ![h] = @ - r]
           U(j) == SumTo(list, du, j)
<1>1. /\ n \in Nat /\ DOMAIN list = 1..n
      /\ \A j \in 1..n : list[j] \in Timeouts
      /\ S(0) = 0
      /\ \A j \in 0..n : S(j) \in Nat
      /\ \A j \in 1..n : S(j) = S(j - 1) + dt[list[j]]
  BY SumToFacts
<1>2. h \in Timeouts /\ h = list[1] /\ 1 \in 1..n
  BY <1>1, EmptySeq, HeadTailProperties
<1>3. \A j \in 1..n : list[j] = h => j = 1
  BY <1>1, <1>2 DEF IsInjective
<1>4. dt[h] \in Nat /\ dt[h] - r \in Nat
  BY <1>2
<1>5. /\ du \in [Timeouts -> Nat] /\ du[h] = dt[h] - r
      /\ \A j \in 1..n : j # 1 => du[list[j]] = dt[list[j]]
  BY <1>1, <1>2, <1>3, <1>4
<1>6. U(0) = 0 /\ \A j \in 1..n : U(j) = U(j - 1) + du[list[j]]
  BY <1>5, SumToFacts
<1>7. PICK z \in Int : z = 0
  OBVIOUS
<1>8. PICK v \in Int : v = 0 - r
  OBVIOUS
<1> HIDE DEF n, S, U, du
<1>9. U(1) = S(1) + v /\ S(1) \in Nat
  <2>1. S(1) = S(1 - 1) + dt[h] /\ U(1) = U(1 - 1) + du[h]
    BY <1>1, <1>2, <1>6
  <2> QED BY <1>1, <1>4, <1>5, <1>6, <1>8, <2>1
<1>10. SameStretch(list, dt, list, du, z, v, 1, n)
  <2>1. \A j \in (1 + 1)..n : du[list[j + z]] = dt[list[j]]
    <3> SUFFICES ASSUME NEW j \in (1 + 1)..n PROVE du[list[j + z]] = dt[list[j]]
      OBVIOUS
    <3>1. j + z = j /\ j \in 1..n /\ j # 1
      BY <1>1, <1>7
    <3> QED BY <1>5, <3>1
  <2>2. 1 + z = 1 /\ n + z = n /\ 1 \in 0..n /\ n \in 1..n /\ n \in 0..n
    BY <1>1, <1>2, <1>7
  <2>3. U(1 + z) = S(1) + v
    BY <1>9, <2>2
  <2>4. SumTo(list, du, 1 + z) = SumTo(list, dt, 1) + v
    BY <2>3 DEF U, S
  <2> QED BY <2>1, <2>2, <2>4 DEF SameStretch, n
<1>11. SameSums(list, dt, list, du, z, v, 1, n)
  <2>1. n \in Nat /\ 1 \in Nat /\ du \in [Timeouts -> Nat]
    BY <1>1, <1>5
  <2> QED BY <1>7, <1>8, <1>10, <2>1, SumToShift
<1>12. ASSUME NEW j \in 1..n
       PROVE  Dist(list, du, list[j]) = Dist(list, dt, list[j]) - r
  <2>1. SumTo(list, du, j + z) = SumTo(list, dt, j) + v
    BY <1>11 DEF SameSums
  <2>2. j + z = j /\ j \in 0..n
    BY <1>1, <1>7
  <2>3. Dist(list, du, list[j]) = SumTo(list, du, j)
    BY DistAt DEF n
  <2>4. Dist(list, dt, list[j]) = S(j)
    BY DistAt DEF S, n
  <2>5. S(j) \in Nat
    BY <1>1, <2>2
  <2>6. SumTo(list, du, j) = S(j) + v
    BY <2>1, <2>2 DEF S
  <2>7. S(j) + v = S(j) - r
    BY <1>8, <2>5
  <2> QED BY <2>3, <2>4, <2>6, <2>7
<1>13. \A u \in Range(list) : Dist(list, du, u) = Dist(list, dt, u) - r
  BY <1>1, <1>12 DEF Range
<1> QED BY <1>5, <1>13 DEF HeadResult, du

\* The search of z_add_timeout stops in front of the first timeout that
\* expires later.
LEMMA InsertionPointFacts ==
    ASSUME timeout_list \in Seq(Timeouts), dticks \in [Timeouts -> Nat], NEW d \in Nat
    PROVE  LET i == InsertionPoint(d)
           IN  /\ i \in 1..(Len(timeout_list) + 1)
               /\ SumTo(timeout_list, dticks, i - 1) <= d
               /\ i <= Len(timeout_list) => d <= SumTo(timeout_list, dticks, i)
<1> DEFINE n == Len(timeout_list)
           S(j) == SumTo(timeout_list, dticks, j)
           later == {j \in 1..n : S(j) > d}
           i == InsertionPoint(d)
<1>1. n \in Nat /\ S(0) = 0 /\ \A j \in 0..n : S(j) \in Nat
  BY SumToFacts
<1>2. i = IF later = {} THEN n + 1 ELSE Min(later)
  BY DEF InsertionPoint
<1> HIDE DEF n, S, i
<1>3. CASE later = {}
  <2>1. i = n + 1 /\ i - 1 = n
    BY <1>1, <1>2, <1>3
  <2>2. \A j \in 1..n : S(j) <= d
    <3> SUFFICES ASSUME NEW j \in 1..n PROVE S(j) <= d
      OBVIOUS
    <3>1. j \in 0..n /\ ~(S(j) > d)
      BY <1>1, <1>3
    <3> QED BY <1>1, <3>1
  <2>3. S(n) <= d
    BY <1>1, <2>2
  <2> QED BY <1>1, <2>1, <2>3 DEF i, n, S
<1>4. CASE later # {}
  <2>1. later \in SUBSET Nat
    BY <1>1
  <2>2. \E x \in later : \A y \in later : x <= y
    <3> HIDE DEF later
    <3> QED BY <1>4, <2>1, LeastNatural
  <2>3. i \in later /\ \A y \in later : i <= y
    <3> HIDE DEF later
    <3> QED BY <1>2, <1>4, <2>2 DEF Min
  <2>4. i \in 1..n /\ S(i) > d
    BY <2>3
  <2>5. S(i - 1) <= d
    <3>1. CASE i = 1
      BY <1>1, <3>1
    <3>2. CASE i # 1
      <4>1. i - 1 \in 1..n /\ i - 1 \in 0..n /\ ~(i <= i - 1)
        BY <1>1, <2>4, <3>2
      <4>2. ~(S(i - 1) > d)
        BY <2>3, <4>1
      <4> QED BY <1>1, <4>1, <4>2
    <3> QED BY <3>1, <3>2
  <2>6. i \in 1..(n + 1) /\ d <= S(i)
    <3>1. i \in 0..n
      BY <1>1, <2>4
    <3> QED BY <1>1, <2>4, <3>1
  <2> QED BY <2>5, <2>6 DEF i, n, S
<1> QED BY <1>3, <1>4

-----------------------------------------------------------------------------
(* The inductive invariant. *)

\* The types, without the bounds that follow from the other parts.
TimeType ==
    /\ hw \in Nat /\ hw <= MaxHw
    /\ last_cycle \in Nat /\ last_cycle <= hw
    /\ alarm \in [CPUs -> 1..Never]
    /\ curr_tick \in Nat /\ announce_remaining \in Nat
    /\ timeout_list \in Seq(Timeouts) /\ IsInjective(timeout_list)
    /\ dticks \in [Timeouts -> Nat]
    /\ pc \in [CPUs -> {"thread", "announce", "callback"}]
    /\ ticks \in [CPUs -> Nat]
    /\ cb \in [CPUs -> Timeouts \union {NULL}]
    /\ due \in [Timeouts -> Nat] /\ latest \in [Timeouts -> Nat]

\* Only a CPU on its way into sys_clock_announce() holds ticks, and ticks
\* are left over only while a CPU is in the loop.
Announcing ==
    /\ \A c \in CPUs : pc[c] # "announce" => ticks[c] = 0
    /\ announce_remaining # 0 => \E c \in CPUs : pc[c] = "callback"

\* What keeps the numbers within the explored time.
Bounded ==
    /\ \A to \in Timeouts : due[to] <= latest[to] /\ latest[to] <= MaxHw
    /\ \A to \in Timeouts : to \notin Linked => dticks[to] = 0

Inv == /\ TimeType /\ Announcing /\ Bounded
       /\ TickConservation /\ NeverLate /\ AlarmArmed

-----------------------------------------------------------------------------
(* What the operations do to the expiry ticks. *)

\* The larger of two numbers.
LEMMA MaxTwo ==
    ASSUME NEW a \in Int, NEW b \in Int
    PROVE  /\ Max({a, b}) \in {a, b}
           /\ Max({a, b}) >= a /\ Max({a, b}) >= b
<1>1. \E x \in {a, b} : \A y \in {a, b} : x >= y
  OBVIOUS
<1> QED BY <1>1 DEF Max

\* The smaller one.
LEMMA MinTwo ==
    ASSUME NEW a \in Int, NEW b \in Int
    PROVE  /\ Min({a, b}) \in {a, b}
           /\ Min({a, b}) <= a /\ Min({a, b}) <= b
<1>1. \E x \in {a, b} : \A y \in {a, b} : x <= y
  OBVIOUS
<1> QED BY <1>1 DEF Min

\* Where a compare register stands after sys_clock_set_timeout().
LEMMA SetTimeout ==
    ASSUME TimeType, NEW c \in CPUs, NEW n \in Nat, sys_clock_set_timeout(c, n)
    PROVE  /\ alarm' \in [CPUs -> 1..Never]
           /\ alarm'[c] <= hw + 2 \/ alarm'[c] <= hw + n
<1>1. hw \in Nat /\ Never \in Nat /\ Never >= 1 /\ alarm \in [CPUs -> 1..Never]
  BY TimeoutQAssumption DEF TimeType, Never
<1>2. PICK k \in CompareTicks(n) : alarm' = [alarm EXCEPT ![c] = Min({Never, hw + k})]
  BY DEF sys_clock_set_timeout
<1>3. k \in Int /\ k >= 1 /\ (k <= 2 \/ k <= n)
  <2>1. /\ Max({1, n - 1}) \in {1, n - 1} /\ Max({1, n - 1}) >= 1
        /\ Max({1, n}) \in {1, n} /\ Max({1, n}) >= 1
    <3>1. \E x \in {1, n - 1} : \A y \in {1, n - 1} : x >= y
      OBVIOUS
    <3>2. \E x \in {1, n} : \A y \in {1, n} : x >= y
      OBVIOUS
    <3> QED BY <3>1, <3>2 DEF Max
  <2>2. k = Max({1, n - 1}) \/ k = Max({1, n}) \/ k = 2
    BY <1>2 DEF CompareTicks
  <2> QED BY <2>1, <2>2
<1>4. Min({Never, hw + k}) \in {Never, hw + k} /\ Min({Never, hw + k}) <= Never
      /\ Min({Never, hw + k}) <= hw + k
  <2>1. Never \in Int /\ hw + k \in Int
    BY <1>1, <1>3
  <2> QED BY <2>1, MinTwo
<1> DEFINE m == Min({Never, hw + k})
<1>5. m \in 1..Never /\ (m <= hw + 2 \/ m <= hw + n)
  <2> HIDE DEF m
  <2>1. m \in {Never, hw + k} /\ m <= Never /\ m <= hw + k
    BY <1>4 DEF m
  <2> QED BY <1>1, <1>3, <2>1
<1>6. alarm' = [alarm EXCEPT ![c] = m]
  BY <1>2
<1> HIDE DEF m
<1> QED BY <1>1, <1>5, <1>6

\* The alarm that z_add_timeout() and the end of the loop set is in time for
\* the first timeout of the list.
LEMMA ArmAlarm ==
    ASSUME TimeType, NEW c \in CPUs, NEW list, NEW dt, NEW rem \in Nat,
           list # <<>> => dt[Head(list)] \in Nat,
           sys_clock_set_timeout(c, next_timeout(list, dt, rem))
    PROVE  /\ alarm' \in [CPUs -> 1..Never]
           /\ rem = 0 /\ list # <<>> =>
                 alarm'[c] <= hw + 2 \/ alarm'[c] <= last_cycle + dt[Head(list)]
<1> DEFINE n == next_timeout(list, dt, rem)
<1>1. elapsed(rem) \in Nat /\ (rem = 0 => elapsed(rem) = hw - last_cycle)
  BY DEF TimeType, elapsed, sys_clock_elapsed
<1>2. Never \in Nat
  BY TimeoutQAssumption DEF Never
<1>3. /\ n \in Nat
      /\ list # <<>> => n = 0 \/ n = dt[Head(list)] - elapsed(rem)
  <2>1. CASE list = <<>>
    BY <1>2, <2>1 DEF next_timeout
  <2>2. CASE list # <<>>
    <3> DEFINE x == dt[Head(list)] - elapsed(rem)
    <3>1. x \in Int
      BY <1>1, <2>2
    <3>2. n = Max({0, x})
      BY <2>2 DEF next_timeout
    <3> HIDE DEF x, n
    <3>3. Max({0, x}) \in {0, x} /\ Max({0, x}) >= 0 /\ Max({0, x}) >= x
      <4>1. \E y \in {0, x} : \A w \in {0, x} : y >= w
        BY <3>1
      <4> QED BY <4>1 DEF Max
    <3>4. n \in Nat /\ (n = 0 \/ n = x)
      BY <3>1, <3>2, <3>3
    <3> QED BY <3>4 DEF x
  <2> QED BY <2>1, <2>2
<1>4. sys_clock_set_timeout(c, n)
  OBVIOUS
<1> HIDE DEF n
<1>5. alarm' \in [CPUs -> 1..Never] /\ (alarm'[c] <= hw + 2 \/ alarm'[c] <= hw + n)
  BY <1>3, <1>4, SetTimeout
<1>6. ASSUME rem = 0, list # <<>>
      PROVE  alarm'[c] <= hw + 2 \/ alarm'[c] <= last_cycle + dt[Head(list)]
  <2>1. hw \in Nat /\ last_cycle \in Nat /\ dt[Head(list)] \in Nat
    BY <1>6 DEF TimeType
  <2>2. alarm'[c] \in Int
    BY <1>2, <1>5
  <2>3. n = 0 \/ n = dt[Head(list)] - (hw - last_cycle)
    BY <1>1, <1>3, <1>6
  <2> QED BY <1>5, <2>1, <2>2, <2>3
<1> QED BY <1>5, <1>6

\* A step leaves the timeouts of a set where they are.
Kept(T) == \A u \in T : Expires(u)' = Expires(u)

\* The head of the list after a step, and how it stands to the alarms.
HeadDue == last_cycle + dticks[Head(timeout_list)]

\* z_add_timeout() arms a timeout d ticks from now and moves no other one.
Added(c, to, d) ==
    /\ to \notin Linked /\ Linked' = Linked \union {to}
    /\ Expires(to)' = curr_tick + d
    /\ Kept(Linked)
    /\ timeout_list' # <<>>
    /\ \/ timeout_list # <<>> /\ HeadDue' = HeadDue /\ alarm' = alarm
       \/ announce_remaining = 0 => alarm'[c] <= hw + 2 \/ alarm'[c] <= HeadDue'
    /\ \A u \in Timeouts : u \notin Linked' => dticks'[u] = dticks[u]

\* That is what it does.
LEMMA AddStep ==
    ASSUME TimeType, NEW c \in CPUs, NEW to \in Timeouts, NEW d \in Nat,
           NEW lo \in Nat, NEW hi \in Nat, z_add_timeout(c, to, d, lo, hi)
    PROVE  TimeType' /\ Added(c, to, d)
<1> DEFINE list == timeout_list
           i == InsertionPoint(d)
           own == d - SumTo(list, dticks, i - 1)
           new == InsertAt(list, i, to)
           du == [t \in Timeouts |->
                    IF t = to THEN own
                    ELSE IF i <= Len(list) /\ t = list[i] THEN dticks[t] - own
                    ELSE dticks[t]]
<1>1. /\ list \in Seq(Timeouts) /\ IsInjective(list) /\ dticks \in [Timeouts -> Nat]
      /\ announce_remaining \in Nat /\ curr_tick \in Nat /\ last_cycle \in Nat
  BY DEF TimeType
<1>2. /\ i \in 1..(Len(list) + 1)
      /\ SumTo(list, dticks, i - 1) <= d
      /\ i <= Len(list) => d <= SumTo(list, dticks, i)
  BY <1>1, InsertionPointFacts
<1>3. /\ to \notin Range(list) /\ timeout_list' = new /\ dticks' = du
      /\ i = 1 => sys_clock_set_timeout(c, next_timeout(new, du, announce_remaining))
      /\ i # 1 => alarm' = alarm
      /\ due' = [due EXCEPT ![to] = lo] /\ latest' = [latest EXCEPT ![to] = hi]
      /\ UNCHANGED <<hw, last_cycle, curr_tick, announce_remaining, pc, ticks, cb>>
  BY DEF z_add_timeout, Linked, driverVars
<1>4. Inserted(list, dticks, to, d, i, new, du)
  BY <1>2 DEF Inserted
<1>5. /\ new \in Seq(Timeouts) /\ IsInjective(new)
      /\ Range(new) = Range(list) \union {to}
      /\ du \in [Timeouts -> Nat]
      /\ Dist(new, du, to) = d
      /\ \A u \in Range(list) : Dist(new, du, u) = Dist(list, dticks, u)
      /\ i = 1 => Head(new) = to
      /\ i # 1 => /\ list # <<>> /\ Head(new) = Head(list)
                  /\ du[Head(list)] = dticks[Head(list)]
  <2> HIDE DEF i, new, du, own
  <2>1. to \notin Range(list)
    BY <1>3
  <2>2. InsertResult(list, dticks, to, d, i, new, du)
    BY <1>1, <1>2, <1>4, <2>1, InsertDist
  <2> QED BY <2>2 DEF InsertResult
<1>6. \A u \in Timeouts : u \notin Range(new) => du[u] = dticks[u]
  <2>1. i <= Len(list) => list[i] \in Range(list)
    <3> HIDE DEF i
    <3>1. Len(list) \in Nat /\ DOMAIN list = 1..Len(list)
      BY <1>1, LenProperties
    <3> QED BY <1>2, <3>1 DEF Range
  <2> HIDE DEF i, new, own
  <2> QED BY <1>5, <2>1
<1> HIDE DEF i, new, du, own
<1>7. new # <<>> /\ Head(new) \in Timeouts /\ du[Head(new)] \in Nat
  <2>1. new # <<>>
    <3>1. Range(new) # {}
      BY <1>5
    <3> QED BY <3>1, RangeMembers, <1>5, EmptySeq
  <2> QED BY <1>5, <2>1, HeadTailProperties
<1>8. /\ alarm' \in [CPUs -> 1..Never]
      /\ \/ list # <<>> /\ HeadDue' = HeadDue /\ alarm' = alarm
         \/ announce_remaining = 0 => alarm'[c] <= hw + 2 \/ alarm'[c] <= HeadDue'
  <2>1. CASE i = 1
    <3>1. /\ alarm' \in [CPUs -> 1..Never]
          /\ announce_remaining = 0 =>
                alarm'[c] <= hw + 2 \/ alarm'[c] <= last_cycle + du[Head(new)]
      BY <1>1, <1>3, <1>7, <2>1, ArmAlarm
    <3> QED BY <1>3, <3>1 DEF HeadDue
  <2>2. CASE i # 1
    BY <1>3, <1>5, <2>2 DEF HeadDue, TimeType
  <2> QED BY <2>1, <2>2
<1>9. Linked' = Linked \union {to} /\ to \notin Linked
  BY <1>3, <1>5 DEF Linked
<1>10. Expires(to)' = curr_tick + d /\ Kept(Linked)
  <2>1. \A u : Expires(u)' = curr_tick + Dist(new, du, u)
    BY <1>3 DEF Expires, Position, Dist
  <2>2. \A u : Expires(u) = curr_tick + Dist(list, dticks, u)
    BY ExpiresIsDist
  <2> QED BY <1>5, <2>1, <2>2 DEF Kept, Linked
<1>11. TimeType'
  <2>1. due' \in [Timeouts -> Nat] /\ latest' \in [Timeouts -> Nat]
    BY <1>3 DEF TimeType
  <2>2. timeout_list' \in Seq(Timeouts) /\ IsInjective(timeout_list')
        /\ dticks' \in [Timeouts -> Nat]
    BY <1>3, <1>5
  <2> QED BY <1>3, <1>8, <2>1, <2>2 DEF TimeType, Never
<1>12. \A u \in Timeouts : u \notin Linked' => dticks'[u] = dticks[u]
  BY <1>3, <1>6 DEF Linked
<1> QED BY <1>3, <1>7, <1>8, <1>9, <1>10, <1>11, <1>12 DEF Added

\* z_abort_timeout() disarms one timeout and moves no other one.
Removed(to) ==
    /\ to \in Linked /\ Linked' = Linked \ {to}
    /\ Kept(Linked \ {to})
    /\ timeout_list' # <<>> => timeout_list # <<>> /\ HeadDue <= HeadDue'
    /\ dticks'[to] = 0
    /\ \A u \in Timeouts : u \notin Linked => dticks'[u] = dticks[u]

\* That is what it does.
LEMMA AbortStep ==
    ASSUME TimeType, NEW to \in Timeouts, z_abort_timeout(to)
    PROVE  TimeType' /\ Removed(to)
<1> DEFINE list == timeout_list
           n == Len(list)
           i == Position(to)
           new == RemoveAt(list, i)
           du == RemoveDticks(to)
<1>1. /\ list \in Seq(Timeouts) /\ IsInjective(list) /\ dticks \in [Timeouts -> Nat]
      /\ curr_tick \in Nat /\ last_cycle \in Nat
  BY DEF TimeType
<1>2. n \in Nat /\ DOMAIN list = 1..n /\ \A j \in 1..n : list[j] \in Timeouts
  BY <1>1, LenProperties, ElementOfSeq
<1>3. /\ to \in Range(list) /\ timeout_list' = new /\ dticks' = du
      /\ due' = [due EXCEPT ![to] = 0] /\ latest' = [latest EXCEPT ![to] = 0]
      /\ UNCHANGED <<hw, last_cycle, alarm, curr_tick, announce_remaining, pc, ticks, cb>>
  BY DEF z_abort_timeout, Linked, driverVars
<1>4. i \in 1..n /\ list[i] = to
  <2>1. \E j \in 1..n : list[j] = to
    BY <1>2, <1>3 DEF Range
  <2> QED BY <2>1 DEF Position
<1>5. \A j, k \in 1..n : list[j] = list[k] => j = k
  BY <1>1, <1>2 DEF IsInjective
<1>6. du = [t \in Timeouts |->
              IF t = to THEN 0
              ELSE IF \E k \in 2..n : list[k] = t /\ list[k - 1] = to
                   THEN dticks[t] + dticks[to] ELSE dticks[t]]
  BY DEF RemoveDticks
<1> HIDE DEF n, i, new, du
<1>7. du \in [Timeouts -> Nat] /\ du[to] = 0
  BY <1>1, <1>6
<1>8. \A j \in 1..n : j # i =>
         du[list[j]] = IF j = i + 1 THEN dticks[list[j]] + dticks[list[i]]
                       ELSE dticks[list[j]]
  <2> SUFFICES ASSUME NEW j \in 1..n, j # i
               PROVE  du[list[j]] = IF j = i + 1 THEN dticks[list[j]] + dticks[list[i]]
                                    ELSE dticks[list[j]]
    OBVIOUS
  <2>1. list[j] # to /\ list[j] \in Timeouts
    BY <1>2, <1>4, <1>5
  <2>2. (\E k \in 2..n : list[k] = list[j] /\ list[k - 1] = to) <=> j = i + 1
    <3>1. ASSUME NEW k \in 2..n, list[k] = list[j], list[k - 1] = to PROVE j = i + 1
      <4>1. k \in 1..n /\ k - 1 \in 1..n
        BY <1>2
      <4>2. k = j /\ k - 1 = i
        BY <1>4, <1>5, <3>1, <4>1
      <4> QED BY <4>2
    <3>2. ASSUME j = i + 1 PROVE \E k \in 2..n : list[k] = list[j] /\ list[k - 1] = to
      <4>1. j \in 2..n /\ j - 1 = i
        BY <1>2, <1>4, <3>2
      <4> QED BY <1>4, <4>1
    <3> QED BY <3>1, <3>2
  <2> QED BY <1>4, <1>6, <2>1, <2>2
<1>9. /\ new \in Seq(Timeouts) /\ IsInjective(new)
      /\ Range(new) = Range(list) \ {to}
      /\ \A u \in Range(new) : Dist(new, du, u) = Dist(list, dticks, u)
      /\ new # <<>> => dticks[Head(list)] <= du[Head(new)]
  <2>1. new = RemoveAt(list, i)
    BY DEF new
  <2>2. i \in 1..Len(list)
    BY <1>4 DEF n
  <2>3. \A j \in 1..Len(list) : j # i =>
           du[list[j]] = IF j = i + 1 THEN dticks[list[j]] + dticks[list[i]]
                         ELSE dticks[list[j]]
    BY <1>8 DEF n
  <2>4. TakenOut(list, dticks, i, new, du)
    BY <2>1, <2>3 DEF TakenOut
  <2>5. RemoveResult(list, dticks, i, new, du)
    BY <1>1, <1>7, <2>2, <2>4, RemoveDist
  <2> QED BY <1>4, <2>5 DEF RemoveResult
<1>10. Linked' = Linked \ {to} /\ to \in Linked
  BY <1>3, <1>9 DEF Linked
<1>11. Kept(Linked \ {to})
  <2>1. \A u : Expires(u)' = curr_tick + Dist(new, du, u)
    BY <1>3 DEF Expires, Position, Dist
  <2>2. \A u : Expires(u) = curr_tick + Dist(list, dticks, u)
    BY ExpiresIsDist
  <2> QED BY <1>9, <2>1, <2>2 DEF Kept, Linked
<1>12. timeout_list' # <<>> => timeout_list # <<>> /\ HeadDue <= HeadDue'
  <2> SUFFICES ASSUME new # <<>> PROVE list # <<>> /\ HeadDue <= HeadDue'
    BY <1>3
  <2>1. list # <<>>
    BY <1>2, <1>4, EmptySeq DEF n
  <2>2. Head(list) \in Timeouts /\ Head(new) \in Timeouts
    BY <1>1, <1>9, <2>1, HeadTailProperties
  <2>3. dticks[Head(list)] \in Nat /\ du[Head(new)] \in Nat
    BY <1>1, <1>7, <2>2
  <2>4. HeadDue = last_cycle + dticks[Head(list)]
        /\ HeadDue' = last_cycle + du[Head(new)]
    BY <1>3 DEF HeadDue
  <2> QED BY <1>1, <1>9, <2>1, <2>3, <2>4
<1>13. \A u \in Timeouts : u \notin Linked => du[u] = dticks[u]
  <2>1. \A k \in 2..n : list[k] \in Range(list)
    BY <1>2 DEF Range
  <2> QED BY <1>3, <1>6, <2>1 DEF Linked
<1>14. TimeType'
  <2>1. due' \in [Timeouts -> Nat] /\ latest' \in [Timeouts -> Nat]
    BY <1>3 DEF TimeType
  <2>2. timeout_list' \in Seq(Timeouts) /\ IsInjective(timeout_list')
        /\ dticks' \in [Timeouts -> Nat]
    BY <1>3, <1>7, <1>9
  <2> QED BY <1>3, <2>1, <2>2 DEF TimeType, Never
<1> QED BY <1>3, <1>7, <1>10, <1>11, <1>12, <1>13, <1>14 DEF Removed

\* One turn of the loop of sys_clock_announce() that takes a timeout out: it
\* is the earliest one, and the uptime becomes its expiry tick.
TookOut(c, rem) ==
    LET t == Head(timeout_list)
    IN  /\ t \in Linked /\ Linked' = Linked \ {t} /\ t \in Timeouts
        /\ curr_tick' = Expires(t)
        /\ \A u \in Linked : Expires(t) <= Expires(u)
        /\ Kept(Linked \ {t})
        /\ curr_tick' + announce_remaining' = curr_tick + rem
        /\ pc' = [pc EXCEPT ![c] = "callback"]
        /\ dticks' = [dticks EXCEPT ![t] = 0]
        /\ due' = [due EXCEPT ![t] = 0] /\ latest' = [latest EXCEPT ![t] = 0]

\* The turn that ends the loop: the uptime becomes the last announced tick,
\* which is before every timeout, and the alarm is set for the first one.
Finished(c, rem) ==
    /\ Linked' = Linked
    /\ curr_tick' = curr_tick + rem /\ announce_remaining' = 0
    /\ \A u \in Linked : curr_tick' < Expires(u)
    /\ Kept(Linked)
    /\ timeout_list' # <<>> => alarm'[c] <= hw + 2 \/ alarm'[c] <= HeadDue'
    /\ pc' = [pc EXCEPT ![c] = "thread"]
    /\ \A u \in Timeouts : u \notin Linked => dticks'[u] = dticks[u]
    /\ UNCHANGED <<due, latest>>

\* A turn does one of the two.
LEMMA LoopStep ==
    ASSUME TimeType, NEW c \in CPUs, NEW rem \in Nat, AnnounceLoop(c, rem),
           UNCHANGED <<hw, last_cycle>>, ticks' \in [CPUs -> Nat]
    PROVE  TimeType' /\ (TookOut(c, rem) \/ Finished(c, rem))
<1> DEFINE list == timeout_list
           h == Head(list)
<1>1. /\ list \in Seq(Timeouts) /\ IsInjective(list) /\ dticks \in [Timeouts -> Nat]
      /\ curr_tick \in Nat /\ last_cycle \in Nat /\ announce_remaining \in Nat
  BY DEF TimeType
<1>2. /\ \A u \in Range(list) : Dist(list, dticks, u) \in Nat
      /\ list # <<>> => /\ h \in Range(list) /\ h \in Timeouts
                        /\ Dist(list, dticks, h) = dticks[h]
                        /\ \A u \in Range(list) : dticks[h] <= Dist(list, dticks, u)
  BY <1>1, DistHead
<1>3. \A u : Expires(u) = curr_tick + Dist(list, dticks, u)
  BY ExpiresIsDist
<1>4. CASE Expired(rem)
  <2>1. list # <<>> /\ dticks[h] <= rem
    BY <1>4 DEF Expired
  <2>2. h \in Timeouts /\ dticks[h] \in Nat /\ h \in Range(list)
    BY <1>1, <1>2, <2>1
  <2>3. /\ curr_tick' = curr_tick + dticks[h] /\ announce_remaining' = rem - dticks[h]
        /\ timeout_list' = Tail(list) /\ dticks' = [dticks EXCEPT ![h] = 0]
        /\ cb' = [cb EXCEPT ![c] = h]
        /\ due' = [due EXCEPT ![h] = 0] /\ latest' = [latest EXCEPT ![h] = 0]
        /\ pc' = [pc EXCEPT ![c] = "callback"] /\ alarm' = alarm
    BY <1>4 DEF AnnounceLoop
  <2> DEFINE new == Tail(list)
             du == [dticks EXCEPT ![h] = 0]
  <2>4. /\ new \in Seq(Timeouts) /\ IsInjective(new)
        /\ Range(new) = Range(list) \ {h}
        /\ \A u \in Range(new) : Dist(new, du, u) = Dist(list, dticks, u) - dticks[h]
    BY <1>1, <2>1, TailDist
  <2>5. Linked' = Linked \ {h} /\ h \in Linked
    BY <2>2, <2>3, <2>4 DEF Linked
  <2>6. curr_tick' = Expires(h) /\ \A u \in Linked : Expires(h) <= Expires(u)
    <3>1. Expires(h) = curr_tick + dticks[h]
      BY <1>2, <1>3, <2>1
    <3>2. ASSUME NEW u \in Linked PROVE Expires(h) <= Expires(u)
      <4>1. Dist(list, dticks, u) \in Nat /\ dticks[h] <= Dist(list, dticks, u)
        BY <1>2, <2>1 DEF Linked
      <4>2. Expires(u) = curr_tick + Dist(list, dticks, u)
        BY <1>3
      <4> QED BY <1>1, <2>2, <3>1, <4>1, <4>2
    <3> QED BY <2>3, <3>1, <3>2
  <2>7. Kept(Linked \ {h})
    <3> SUFFICES ASSUME NEW u \in Range(new) PROVE Expires(u)' = Expires(u)
      BY <2>4 DEF Kept, Linked
    <3>1. Expires(u)' = curr_tick' + Dist(new, du, u)
      BY <2>3 DEF Expires, Position, Dist
    <3>2. Dist(new, du, u) = Dist(list, dticks, u) - dticks[h]
      BY <2>4
    <3>3. Dist(list, dticks, u) \in Nat
      BY <1>2, <2>4
    <3>4. Expires(u) = curr_tick + Dist(list, dticks, u)
      BY <1>3
    <3> QED BY <1>1, <2>2, <2>3, <3>1, <3>2, <3>3, <3>4
  <2>8. curr_tick' + announce_remaining' = curr_tick + rem
    BY <1>1, <2>2, <2>3
  <2>9. TimeType'
    <3>1. due' \in [Timeouts -> Nat] /\ latest' \in [Timeouts -> Nat]
          /\ dticks' \in [Timeouts -> Nat]
      BY <2>2, <2>3 DEF TimeType
    <3>2. curr_tick' \in Nat /\ announce_remaining' \in Nat
      BY <1>1, <2>1, <2>2, <2>3
    <3>3. pc' \in [CPUs -> {"thread", "announce", "callback"}]
          /\ cb' \in [CPUs -> Timeouts \union {NULL}]
      BY <2>2, <2>3 DEF TimeType
    <3>4. timeout_list' \in Seq(Timeouts) /\ IsInjective(timeout_list')
      BY <2>3, <2>4
    <3> QED BY <2>3, <3>1, <3>2, <3>3, <3>4 DEF TimeType, Never
  <2>10. TookOut(c, rem)
    BY <2>2, <2>3, <2>5, <2>6, <2>7, <2>8 DEF TookOut
  <2> QED BY <2>9, <2>10
<1>5. CASE ~Expired(rem)
  <2>1. /\ dticks' = IF list = <<>> THEN dticks ELSE [dticks EXCEPT ![h] = @ - rem]
        /\ curr_tick' = curr_tick + rem /\ announce_remaining' = 0
        /\ sys_clock_set_timeout(c, next_timeout(list, dticks', 0))
        /\ cb' = [cb EXCEPT ![c] = NULL] /\ pc' = [pc EXCEPT ![c] = "thread"]
        /\ UNCHANGED <<timeout_list, due, latest>>
    BY <1>5 DEF AnnounceLoop
  <2>2. list # <<>> => h \in Timeouts /\ dticks[h] \in Nat /\ rem < dticks[h]
    <3> SUFFICES ASSUME list # <<>>
                 PROVE  h \in Timeouts /\ dticks[h] \in Nat /\ rem < dticks[h]
      OBVIOUS
    <3>1. h \in Timeouts /\ dticks[h] \in Nat
      BY <1>1, <1>2
    <3>2. ~(dticks[h] <= rem)
      BY <1>5 DEF Expired
    <3> QED BY <3>1, <3>2
  <2>3. /\ dticks' \in [Timeouts -> Nat]
        /\ \A u \in Range(list) : Dist(list, dticks', u) = Dist(list, dticks, u) - rem
    <3>1. CASE list = <<>>
      <4>1. Range(list) = {}
        <5>1. Len(list) = 0
          BY <3>1
        <5>2. \A x : x \in Range(list) <=> \E j \in 1..Len(list) : list[j] = x
          BY <1>1, RangeMembers
        <5> QED BY <5>1, <5>2
      <4> QED BY <1>1, <2>1, <3>1, <4>1
    <3>2. CASE list # <<>>
      <4>1. dticks' = [dticks EXCEPT ![h] = @ - rem] /\ rem <= dticks[h]
        BY <2>1, <2>2, <3>2
      <4>2. HeadResult(list, dticks, rem, dticks')
        BY <1>1, <3>2, <4>1, HeadDist
      <4> QED BY <4>2 DEF HeadResult
    <3> QED BY <3>1, <3>2
  <2>4. Linked' = Linked
    BY <2>1 DEF Linked
  <2>5. Kept(Linked) /\ \A u \in Linked : curr_tick' < Expires(u)
    <3> SUFFICES ASSUME NEW u \in Range(list)
                 PROVE  Expires(u)' = Expires(u) /\ curr_tick' < Expires(u)
      BY DEF Kept, Linked
    <3>1. Expires(u)' = curr_tick' + Dist(list, dticks', u)
      BY <2>1 DEF Expires, Position, Dist
    <3>2. Dist(list, dticks', u) = Dist(list, dticks, u) - rem
      BY <2>3
    <3>3. list # <<>>
      BY <1>1, RangeMembers, EmptySeq
    <3>4. Dist(list, dticks, u) \in Nat /\ dticks[h] <= Dist(list, dticks, u)
      BY <1>2, <3>3
    <3>5. Expires(u) = curr_tick + Dist(list, dticks, u)
      BY <1>3
    <3>6. rem < dticks[h] /\ dticks[h] \in Nat
      BY <2>2, <3>3
    <3> QED BY <1>1, <2>1, <3>1, <3>2, <3>4, <3>5, <3>6
  <2>6. /\ alarm' \in [CPUs -> 1..Never]
        /\ list # <<>> => alarm'[c] <= hw + 2 \/ alarm'[c] <= last_cycle + dticks'[h]
    <3>1. list # <<>> => dticks'[h] \in Nat
      BY <2>2, <2>3
    <3>2. PICK z \in Nat : z = 0
      OBVIOUS
    <3>3. sys_clock_set_timeout(c, next_timeout(list, dticks', z))
      BY <2>1, <3>2
    <3> QED BY <3>1, <3>2, <3>3, ArmAlarm
  <2>7. timeout_list' # <<>> => alarm'[c] <= hw + 2 \/ alarm'[c] <= HeadDue'
    BY <2>1, <2>6 DEF HeadDue
  <2>8. TimeType'
    <3>1. curr_tick' \in Nat /\ announce_remaining' \in Nat
      BY <1>1, <2>1
    <3>2. pc' \in [CPUs -> {"thread", "announce", "callback"}]
          /\ cb' \in [CPUs -> Timeouts \union {NULL}]
      BY <2>1 DEF TimeType
    <3> QED BY <2>1, <2>3, <2>6, <3>1, <3>2 DEF TimeType, Never
  <2>9. \A u \in Timeouts : u \notin Linked => dticks'[u] = dticks[u]
    BY <1>1, <1>2, <2>1 DEF Linked
  <2>10. Finished(c, rem)
    BY <2>1, <2>4, <2>5, <2>7, <2>9 DEF Finished
  <2> QED BY <2>8, <2>10
<1> QED BY <1>4, <1>5

-----------------------------------------------------------------------------
(* The invariant is inductive. *)

\* At or before the larger of two numbers.
LEMMA MaxAtLeast ==
    ASSUME NEW a \in Int, NEW b \in Int, NEW x \in Int
    PROVE  x <= Max({a, b}) <=> x <= a \/ x <= b
<1>1. Max({a, b}) \in {a, b} /\ Max({a, b}) >= a /\ Max({a, b}) >= b
  BY MaxTwo
<1> QED BY <1>1

\* AlarmArmed without Max.
AlarmSet ==
    timeout_list # <<>> /\ (\A c \in CPUs : pc[c] = "thread") =>
        \E c \in CPUs : alarm[c] <= hw + 2 \/ alarm[c] <= HeadDue

\* The two say the same.
LEMMA AlarmForm ==
    /\ TimeType => (AlarmArmed <=> AlarmSet)
    /\ TimeType' => (AlarmArmed' <=> AlarmSet')
<1>0. Never \in Nat
  BY TimeoutQAssumption DEF Never
<1>1. ASSUME TimeType PROVE AlarmArmed <=> AlarmSet
  <2>1. CASE timeout_list = <<>>
    BY <2>1 DEF AlarmArmed, AlarmSet
  <2>2. CASE timeout_list # <<>>
    <3>1. Head(timeout_list) \in Timeouts
      BY <1>1, <2>2, HeadTailProperties DEF TimeType
    <3>2. HeadDue \in Int /\ hw + 2 \in Int /\ \A c \in CPUs : alarm[c] \in Int
      BY <1>0, <1>1, <3>1 DEF TimeType, HeadDue
    <3>3. \A c \in CPUs : alarm[c] <= Max({HeadDue, hw + 2})
                             <=> alarm[c] <= hw + 2 \/ alarm[c] <= HeadDue
      BY <3>2, MaxAtLeast
    <3> QED BY <3>3 DEF AlarmArmed, AlarmSet, HeadDue
  <2> QED BY <2>1, <2>2
<1>2. ASSUME TimeType' PROVE AlarmArmed' <=> AlarmSet'
  <2>1. CASE timeout_list' = <<>>
    BY <2>1 DEF AlarmArmed, AlarmSet
  <2>2. CASE timeout_list' # <<>>
    <3>1. Head(timeout_list') \in Timeouts
      BY <1>2, <2>2, HeadTailProperties DEF TimeType
    <3>2. HeadDue' \in Int /\ hw' + 2 \in Int /\ \A c \in CPUs : alarm'[c] \in Int
      BY <1>0, <1>2, <3>1 DEF TimeType, HeadDue, Never
    <3>3. \A c \in CPUs : alarm'[c] <= Max({HeadDue', hw' + 2})
                             <=> alarm'[c] <= hw' + 2 \/ alarm'[c] <= HeadDue'
      BY <3>2, MaxAtLeast
    <3> QED BY <3>3 DEF AlarmArmed, AlarmSet, HeadDue
  <2> QED BY <2>1, <2>2
<1> QED BY <1>1, <1>2

\* What the conservation of ticks says of the uptime.
LEMMA UptimeBounds ==
    ASSUME TimeType, TickConservation
    PROVE  /\ SumFunctionOnSet(ticks, CPUs) \in Nat
           /\ \A c \in CPUs : ticks[c] <= SumFunctionOnSet(ticks, CPUs)
           /\ curr_tick + announce_remaining + SumFunctionOnSet(ticks, CPUs) = last_cycle
           /\ curr_tick <= last_cycle /\ curr_tick <= hw
           /\ announce_remaining <= hw
           /\ \A c \in CPUs : ticks[c] <= hw
<1>1. IsFiniteSet(CPUs) /\ \A c \in CPUs : ticks[c] \in Nat
  BY TimeoutQAssumption DEF TimeType
<1>2. /\ SumFunctionOnSet(ticks, CPUs) \in Nat
      /\ \A c \in CPUs : ticks[c] <= SumFunctionOnSet(ticks, CPUs)
  BY <1>1, SumBounds
<1>3. curr_tick + announce_remaining + SumFunctionOnSet(ticks, CPUs) = last_cycle
  BY DEF TickConservation
<1>4. /\ curr_tick \in Nat /\ announce_remaining \in Nat /\ last_cycle \in Nat
      /\ hw \in Nat /\ last_cycle <= hw
  BY DEF TimeType
<1> QED BY <1>1, <1>2, <1>3, <1>4

\* A linked timeout expires at a tick, not before the uptime.
LEMMA ExpiresNat ==
    ASSUME TimeType
    PROVE  \A u \in Linked : /\ Expires(u) \in Nat /\ u \in Timeouts
                             /\ curr_tick + dticks[u] <= Expires(u)
<1>1. /\ timeout_list \in Seq(Timeouts) /\ IsInjective(timeout_list)
      /\ dticks \in [Timeouts -> Nat] /\ curr_tick \in Nat
  BY DEF TimeType
<1>2. Linked \subseteq Timeouts
  BY <1>1, RangeMembers DEF Linked
<1> SUFFICES ASSUME NEW u \in Linked
             PROVE  Expires(u) \in Nat /\ curr_tick + dticks[u] <= Expires(u)
  BY <1>2
<1>3. timeout_list # <<>>
  BY <1>1, RangeMembers, EmptySeq DEF Linked
<1>4. /\ Dist(timeout_list, dticks, u) \in Nat
      /\ dticks[u] <= Dist(timeout_list, dticks, u)
  BY <1>1, <1>3, DistHead DEF Linked
<1>5. Expires(u) = curr_tick + Dist(timeout_list, dticks, u)
  BY ExpiresIsDist
<1> QED BY <1>1, <1>2, <1>4, <1>5

\* z_add_timeout() by a caller that asks for a time that the queue can keep.
LEMMA AddKeeps ==
    ASSUME Inv, NEW c \in CPUs, NEW to \in Timeouts, NEW d \in Nat,
           NEW lo \in Nat, NEW hi \in Nat, lo <= hi, curr_tick + d <= hi,
           z_add_timeout(c, to, d, lo, hi)
    PROVE  Inv'
<1>1. TimeType' /\ Added(c, to, d)
  BY AddStep DEF Inv
<1>2. /\ due' = [due EXCEPT ![to] = lo] /\ latest' = [latest EXCEPT ![to] = hi]
      /\ hi <= MaxHw - Settle
      /\ UNCHANGED <<hw, last_cycle, curr_tick, announce_remaining, pc, ticks, cb>>
  BY DEF z_add_timeout, driverVars
<1>3. /\ due \in [Timeouts -> Nat] /\ latest \in [Timeouts -> Nat] /\ MaxHw \in Nat
      /\ \A u \in Linked : u \in Timeouts
  BY TimeoutQAssumption, ExpiresNat DEF Inv, TimeType
<1>4. Announcing'
  BY <1>2 DEF Inv, Announcing
<1>5. Bounded'
  <2>1. \A u \in Timeouts : due'[u] <= latest'[u] /\ latest'[u] <= MaxHw
    BY <1>2, <1>3 DEF Inv, Bounded, Settle
  <2>2. \A u \in Timeouts : u \notin Linked' => dticks'[u] = 0
    BY <1>1 DEF Inv, Bounded, Added
  <2> QED BY <2>1, <2>2 DEF Bounded
<1>6. TickConservation'
  BY <1>2 DEF Inv, TickConservation
<1>7. NeverLate'
  <2> SUFFICES ASSUME NEW u \in Linked' PROVE Expires(u)' <= latest'[u]
    BY DEF NeverLate
  <2>1. CASE u = to
    BY <1>1, <1>2, <1>3, <2>1 DEF Added
  <2>2. CASE u # to
    <3>1. u \in Linked /\ Expires(u)' = Expires(u) /\ latest'[u] = latest[u]
      BY <1>1, <1>2, <1>3, <2>2 DEF Added, Kept
    <3> QED BY <3>1 DEF Inv, NeverLate
  <2> QED BY <2>1, <2>2
<1>8. AlarmArmed'
  <2>1. AlarmSet
    BY AlarmForm DEF Inv
  <2>2. ASSUME \A k \in CPUs : pc'[k] = "thread"
        PROVE  \E k \in CPUs : alarm'[k] <= hw' + 2 \/ alarm'[k] <= HeadDue'
    <3>1. \A k \in CPUs : pc[k] = "thread"
      BY <1>2, <2>2
    <3>2. announce_remaining = 0
      BY <3>1 DEF Inv, Announcing
    <3>3. CASE timeout_list # <<>> /\ HeadDue' = HeadDue /\ alarm' = alarm
      BY <1>2, <2>1, <3>1, <3>3 DEF AlarmSet
    <3>4. CASE alarm'[c] <= hw + 2 \/ alarm'[c] <= HeadDue'
      BY <1>2, <3>4
    <3> QED BY <1>1, <3>2, <3>3, <3>4 DEF Added
  <2>3. AlarmSet'
    BY <2>2 DEF AlarmSet
  <2> QED BY <1>1, <2>3, AlarmForm
<1> QED BY <1>1, <1>4, <1>5, <1>6, <1>7, <1>8 DEF Inv

\* z_abort_timeout().
LEMMA AbortKeeps ==
    ASSUME Inv, NEW to \in Timeouts, z_abort_timeout(to)
    PROVE  Inv'
<1>1. TimeType' /\ Removed(to)
  BY AbortStep DEF Inv
<1>2. /\ due' = [due EXCEPT ![to] = 0] /\ latest' = [latest EXCEPT ![to] = 0]
      /\ UNCHANGED <<hw, last_cycle, alarm, curr_tick, announce_remaining, pc, ticks, cb>>
  BY DEF z_abort_timeout, driverVars
<1>3. /\ due \in [Timeouts -> Nat] /\ latest \in [Timeouts -> Nat] /\ MaxHw \in Nat
      /\ \A u \in Linked : u \in Timeouts
  BY TimeoutQAssumption, ExpiresNat DEF Inv, TimeType
<1>4. Announcing'
  BY <1>2 DEF Inv, Announcing
<1>5. Bounded'
  <2>1. \A u \in Timeouts : due'[u] <= latest'[u] /\ latest'[u] <= MaxHw
    BY <1>2, <1>3 DEF Inv, Bounded
  <2>2. \A u \in Timeouts : u \notin Linked' => dticks'[u] = 0
    BY <1>1 DEF Inv, Bounded, Removed
  <2> QED BY <2>1, <2>2 DEF Bounded
<1>6. TickConservation'
  BY <1>2 DEF Inv, TickConservation
<1>7. NeverLate'
  <2> SUFFICES ASSUME NEW u \in Linked' PROVE Expires(u)' <= latest'[u]
    BY DEF NeverLate
  <2>1. u \in Linked /\ Expires(u)' = Expires(u) /\ latest'[u] = latest[u]
    BY <1>1, <1>2, <1>3 DEF Removed, Kept
  <2> QED BY <2>1 DEF Inv, NeverLate
<1>8. AlarmArmed'
  <2>1. AlarmSet
    BY AlarmForm DEF Inv
  <2>2. ASSUME timeout_list' # <<>>, \A k \in CPUs : pc'[k] = "thread"
        PROVE  \E k \in CPUs : alarm'[k] <= hw' + 2 \/ alarm'[k] <= HeadDue'
    <3>1. timeout_list # <<>> /\ HeadDue <= HeadDue'
      BY <1>1, <2>2 DEF Removed
    <3>2. PICK k \in CPUs : alarm[k] <= hw + 2 \/ alarm[k] <= HeadDue
      BY <1>2, <2>1, <2>2, <3>1 DEF AlarmSet
    <3>3. alarm[k] \in Int /\ HeadDue \in Int /\ HeadDue' \in Int
      <4>1. Head(timeout_list) \in Timeouts /\ Head(timeout_list') \in Timeouts
        BY <1>1, <2>2, <3>1, HeadTailProperties DEF Inv, TimeType
      <4>2. /\ alarm[k] \in 1..Never /\ last_cycle \in Nat /\ last_cycle' \in Nat
            /\ dticks[Head(timeout_list)] \in Nat /\ dticks'[Head(timeout_list')] \in Nat
        BY <1>1, <4>1 DEF Inv, TimeType
      <4> QED BY <4>2 DEF HeadDue
    <3>4. alarm'[k] <= hw' + 2 \/ alarm'[k] <= HeadDue'
      BY <1>2, <3>1, <3>2, <3>3
    <3> QED BY <3>4
  <2>3. AlarmSet'
    BY <2>2 DEF AlarmSet
  <2> QED BY <1>1, <2>3, AlarmForm
<1> QED BY <1>1, <1>4, <1>5, <1>6, <1>7, <1>8 DEF Inv

\* One more real tick.
LEMMA TickKeeps ==
    ASSUME Inv, Tick
    PROVE  Inv'
<1>1. /\ hw < MaxHw /\ hw' = hw + 1 /\ hw \in Nat /\ MaxHw \in Nat
      /\ UNCHANGED <<last_cycle, alarm, curr_tick, announce_remaining,
                     timeout_list, dticks, pc, ticks, cb, due, latest>>
  BY TimeoutQAssumption DEF Tick, Inv, TimeType
<1>2. TimeType'
  BY <1>1 DEF Inv, TimeType, Never
<1>3. Announcing' /\ Bounded' /\ TickConservation'
  BY <1>1 DEF Inv, Announcing, Bounded, Linked, TickConservation
<1>4. NeverLate'
  BY <1>1 DEF Inv, NeverLate, Linked, Expires, Position
<1>5. AlarmArmed'
  <2>1. AlarmSet
    BY AlarmForm DEF Inv
  <2>2. AlarmSet'
    <3> SUFFICES ASSUME timeout_list # <<>>, \A c \in CPUs : pc[c] = "thread"
                 PROVE  \E c \in CPUs : alarm[c] <= hw' + 2 \/ alarm[c] <= HeadDue
      BY <1>1 DEF AlarmSet, HeadDue
    <3>1. PICK c \in CPUs : alarm[c] <= hw + 2 \/ alarm[c] <= HeadDue
      BY <2>1 DEF AlarmSet
    <3>2. alarm[c] \in 1..Never
      BY DEF Inv, TimeType
    <3>3. alarm[c] <= hw' + 2 \/ alarm[c] <= HeadDue
      BY <1>1, <3>1, <3>2
    <3> QED BY <3>3
  <2> QED BY <1>2, <2>2, AlarmForm
<1> QED BY <1>2, <1>3, <1>4, <1>5 DEF Inv

\* The compare interrupt takes the ticks that have passed.
LEMMA IsrKeeps ==
    ASSUME Inv, NEW c \in CPUs, arm_arch_timer_compare_isr(c)
    PROVE  Inv'
<1>1. /\ pc[c] = "thread" /\ ticks' = [ticks EXCEPT ![c] = hw - last_cycle]
      /\ last_cycle' = hw /\ alarm' = [alarm EXCEPT ![c] = Never]
      /\ pc' = [pc EXCEPT ![c] = "announce"]
      /\ UNCHANGED <<hw, curr_tick, announce_remaining, timeout_list, dticks, cb,
                     due, latest>>
  BY DEF arm_arch_timer_compare_isr
<1>2. /\ hw \in Nat /\ last_cycle \in Nat /\ last_cycle <= hw
      /\ ticks \in [CPUs -> Nat] /\ pc \in [CPUs -> {"thread", "announce", "callback"}]
      /\ curr_tick \in Nat /\ announce_remaining \in Nat
      /\ alarm \in [CPUs -> 1..Never]
  BY DEF Inv, TimeType
<1>3. Never \in 1..Never /\ hw - last_cycle \in Nat
  BY <1>2, TimeoutQAssumption DEF Never
<1>4. TimeType'
  <2>1. /\ alarm' \in [CPUs -> 1..Never] /\ ticks' \in [CPUs -> Nat]
        /\ pc' \in [CPUs -> {"thread", "announce", "callback"}]
    BY <1>1, <1>2, <1>3
  <2> QED BY <1>1, <1>2, <2>1 DEF Inv, TimeType, Never
<1>5. Announcing'
  <2>1. \A k \in CPUs : pc'[k] # "announce" => ticks'[k] = 0
    BY <1>1, <1>2 DEF Inv, Announcing
  <2>2. announce_remaining # 0 => \E k \in CPUs : pc'[k] = "callback"
    BY <1>1, <1>2 DEF Inv, Announcing
  <2> QED BY <1>1, <2>1, <2>2 DEF Announcing
<1>6. Bounded' /\ NeverLate'
  BY <1>1 DEF Inv, Bounded, NeverLate, Linked, Expires, Position
<1>7. TickConservation'
  <2>1. ticks[c] = 0
    BY <1>1 DEF Inv, Announcing
  <2>2. SumFunctionOnSet(ticks', CPUs)
           = SumFunctionOnSet(ticks, CPUs) - ticks[c] + (hw - last_cycle)
    <3>1. IsFiniteSet(CPUs) /\ Changed(CPUs, ticks, ticks', c, hw - last_cycle)
      BY <1>1, <1>2, <1>3, TimeoutQAssumption DEF Changed
    <3> QED BY <3>1, SumChange
  <2>3. /\ SumFunctionOnSet(ticks, CPUs) \in Nat
        /\ curr_tick + announce_remaining + SumFunctionOnSet(ticks, CPUs) = last_cycle
    BY UptimeBounds DEF Inv
  <2>4. curr_tick + announce_remaining + SumFunctionOnSet(ticks', CPUs) = hw
    BY <1>2, <2>1, <2>2, <2>3
  <2> QED BY <1>1, <2>4 DEF TickConservation
<1>8. AlarmArmed'
  <2>1. pc'[c] = "announce"
    BY <1>1, <1>2
  <2> QED BY <2>1 DEF AlarmArmed
<1> QED BY <1>4, <1>5, <1>6, <1>7, <1>8 DEF Inv

\* One turn of the loop of sys_clock_announce() with rem ticks left.
LEMMA LoopKeeps ==
    ASSUME Inv, NEW c \in CPUs, NEW rem \in Nat, AnnounceLoop(c, rem),
           UNCHANGED <<hw, last_cycle>>, ticks' \in [CPUs -> Nat],
           curr_tick + rem + SumFunctionOnSet(ticks', CPUs) = last_cycle,
           \A k \in CPUs : k # c /\ pc[k] # "announce" => ticks'[k] = 0,
           ticks'[c] = 0
    PROVE  Inv'
<1>1. TimeType' /\ (TookOut(c, rem) \/ Finished(c, rem))
  BY LoopStep DEF Inv
<1>2. /\ due \in [Timeouts -> Nat] /\ latest \in [Timeouts -> Nat]
      /\ pc \in [CPUs -> {"thread", "announce", "callback"}]
      /\ curr_tick \in Nat /\ MaxHw \in Nat /\ dticks \in [Timeouts -> Nat]
      /\ curr_tick' \in Nat /\ announce_remaining' \in Nat
      /\ \A u \in Linked : u \in Timeouts
  BY <1>1, TimeoutQAssumption, ExpiresNat DEF Inv, TimeType
<1>3. TickConservation'
  <2>1. curr_tick' + announce_remaining' = curr_tick + rem
    <3>1. CASE TookOut(c, rem)
      BY <3>1 DEF TookOut
    <3>2. CASE Finished(c, rem)
      <4>1. curr_tick' = curr_tick + rem /\ announce_remaining' = 0
        BY <3>2 DEF Finished
      <4> QED BY <1>2, <4>1
    <3> QED BY <1>1, <3>1, <3>2
  <2>2. curr_tick' + announce_remaining' + SumFunctionOnSet(ticks', CPUs) = last_cycle
    BY <2>1
  <2> QED BY <2>2 DEF TickConservation
<1>4. CASE TookOut(c, rem)
  <2> DEFINE t == Head(timeout_list)
  <2>1. /\ t \in Linked /\ Linked' = Linked \ {t} /\ t \in Timeouts
        /\ Kept(Linked \ {t})
        /\ pc' = [pc EXCEPT ![c] = "callback"]
        /\ dticks' = [dticks EXCEPT ![t] = 0]
        /\ due' = [due EXCEPT ![t] = 0] /\ latest' = [latest EXCEPT ![t] = 0]
    BY <1>4 DEF TookOut
  <2> HIDE DEF t
  <2>2. pc'[c] = "callback" /\ \A k \in CPUs : k # c => pc'[k] = pc[k]
    BY <1>2, <2>1
  <2>3. Announcing'
    BY <2>2 DEF Announcing
  <2>4. Bounded'
    <3>1. \A u \in Timeouts : due'[u] <= latest'[u] /\ latest'[u] <= MaxHw
      BY <1>2, <2>1 DEF Inv, Bounded
    <3>2. \A u \in Timeouts : u \notin Linked' => dticks'[u] = 0
      BY <1>2, <2>1 DEF Inv, Bounded
    <3> QED BY <3>1, <3>2 DEF Bounded
  <2>5. NeverLate'
    <3> SUFFICES ASSUME NEW u \in Linked' PROVE Expires(u)' <= latest'[u]
      BY DEF NeverLate
    <3>1. u \in Linked /\ Expires(u)' = Expires(u) /\ latest'[u] = latest[u]
      BY <1>2, <2>1 DEF Kept
    <3> QED BY <3>1 DEF Inv, NeverLate
  <2>6. AlarmArmed'
    BY <2>2 DEF AlarmArmed
  <2> QED BY <1>1, <1>3, <2>3, <2>4, <2>5, <2>6 DEF Inv
<1>5. CASE Finished(c, rem)
  <2>1. /\ Linked' = Linked /\ announce_remaining' = 0 /\ Kept(Linked)
        /\ timeout_list' # <<>> => alarm'[c] <= hw + 2 \/ alarm'[c] <= HeadDue'
        /\ pc' = [pc EXCEPT ![c] = "thread"]
        /\ \A u \in Timeouts : u \notin Linked => dticks'[u] = dticks[u]
        /\ UNCHANGED <<due, latest>>
    BY <1>5 DEF Finished
  <2>2. pc'[c] = "thread" /\ \A k \in CPUs : k # c => pc'[k] = pc[k]
    BY <1>2, <2>1
  <2>3. Announcing'
    BY <2>1, <2>2 DEF Announcing
  <2>4. Bounded'
    BY <2>1 DEF Inv, Bounded
  <2>5. NeverLate'
    BY <2>1 DEF Inv, NeverLate, Kept
  <2>6. AlarmSet'
    BY <2>1 DEF AlarmSet
  <2> QED BY <1>1, <1>3, <2>3, <2>4, <2>5, <2>6, AlarmForm DEF Inv
<1> QED BY <1>1, <1>4, <1>5

\* sys_clock_announce() up to the first callback.
LEMMA AnnounceKeeps ==
    ASSUME Inv, NEW c \in CPUs, sys_clock_announce(c)
    PROVE  Inv'
<1>1. /\ pc[c] = "announce" /\ ticks' = [ticks EXCEPT ![c] = 0]
      /\ UNCHANGED <<hw, last_cycle>>
  BY DEF sys_clock_announce, driverVars
<1>2. /\ ticks \in [CPUs -> Nat] /\ pc \in [CPUs -> {"thread", "announce", "callback"}]
      /\ curr_tick \in Nat /\ announce_remaining \in Nat /\ ticks[c] \in Nat
  BY DEF Inv, TimeType
<1>3. /\ SumFunctionOnSet(ticks, CPUs) \in Nat
      /\ curr_tick + announce_remaining + SumFunctionOnSet(ticks, CPUs) = last_cycle
  BY UptimeBounds DEF Inv
<1>4. SumFunctionOnSet(ticks', CPUs) = SumFunctionOnSet(ticks, CPUs) - ticks[c]
  <2>1. PICK z \in Int : z = 0
    OBVIOUS
  <2>2. IsFiniteSet(CPUs) /\ Changed(CPUs, ticks, ticks', c, z)
    BY <1>1, <1>2, <2>1, TimeoutQAssumption DEF Changed
  <2>3. SumFunctionOnSet(ticks', CPUs) = SumFunctionOnSet(ticks, CPUs) - ticks[c] + z
    BY <2>2, SumChange
  <2> QED BY <1>2, <1>3, <2>1, <2>3
<1>5. /\ ticks' \in [CPUs -> Nat] /\ ticks'[c] = 0
      /\ \A k \in CPUs : k # c /\ pc[k] # "announce" => ticks'[k] = 0
  BY <1>1, <1>2 DEF Inv, Announcing
<1>6. CASE CONFIG_SMP /\ announce_remaining # 0
  <2>1. /\ announce_remaining' = announce_remaining + ticks[c]
        /\ pc' = [pc EXCEPT ![c] = "thread"]
        /\ UNCHANGED <<alarm, curr_tick, timeout_list, dticks, cb, due, latest>>
    BY <1>6 DEF sys_clock_announce
  <2>2. TimeType'
    BY <1>1, <1>2, <1>5, <2>1 DEF Inv, TimeType, Never
  <2>3. PICK k \in CPUs : pc[k] = "callback" /\ pc'[k] = "callback"
    BY <1>1, <1>2, <1>6, <2>1 DEF Inv, Announcing
  <2>4. Announcing'
    <3>1. \A j \in CPUs : pc'[j] # "announce" => ticks'[j] = 0
      BY <1>2, <1>5, <2>1
    <3> QED BY <2>3, <3>1 DEF Announcing
  <2>5. Bounded' /\ NeverLate'
    BY <1>1, <2>1 DEF Inv, Bounded, NeverLate, Linked, Expires, Position
  <2>6. TickConservation'
    BY <1>1, <1>2, <1>3, <1>4, <2>1 DEF TickConservation
  <2>7. AlarmArmed'
    BY <2>3 DEF AlarmArmed
  <2> QED BY <2>2, <2>4, <2>5, <2>6, <2>7 DEF Inv
<1>7. CASE ~(CONFIG_SMP /\ announce_remaining # 0)
  <2>1. AnnounceLoop(c, ticks[c])
    BY <1>7 DEF sys_clock_announce
  <2>2. announce_remaining = 0
    <3>1. CASE CONFIG_SMP
      BY <1>7, <3>1
    <3>2. CASE ~CONFIG_SMP
      <4>1. \E x : CPUs = {x}
        BY <3>2, TimeoutQAssumption, FS_Singleton
      <4>2. \A k \in CPUs : pc[k] # "callback"
        BY <1>1, <4>1
      <4> QED BY <4>2 DEF Inv, Announcing
    <3> QED BY <3>1, <3>2
  <2>3. curr_tick + ticks[c] + SumFunctionOnSet(ticks', CPUs) = last_cycle
    BY <1>2, <1>3, <1>4, <2>2
  <2> QED BY <1>1, <1>2, <1>5, <2>1, <2>3, LoopKeeps
<1> QED BY <1>6, <1>7

\* A callback returns and the loop goes on.
LEMMA ReturnKeeps ==
    ASSUME Inv, NEW c \in CPUs, CallbackReturn(c)
    PROVE  Inv'
<1>1. /\ pc[c] = "callback" /\ UNCHANGED <<hw, last_cycle>> /\ ticks' = ticks
      /\ AnnounceLoop(c, announce_remaining)
  BY DEF CallbackReturn, driverVars
<1>2. ticks \in [CPUs -> Nat] /\ announce_remaining \in Nat
  BY DEF Inv, TimeType
<1>3. curr_tick + announce_remaining + SumFunctionOnSet(ticks', CPUs) = last_cycle
  BY <1>1 DEF Inv, TickConservation
<1>4. ticks'[c] = 0 /\ \A k \in CPUs : k # c /\ pc[k] # "announce" => ticks'[k] = 0
  BY <1>1 DEF Inv, Announcing
<1>5. ticks' \in [CPUs -> Nat]
  BY <1>1, <1>2
<1> QED BY <1>1, <1>2, <1>3, <1>4, <1>5, LoopKeeps

-----------------------------------------------------------------------------
(* The callers. *)

\* There is one CPU.
OneCPU == \A j, k \in CPUs : j = k

\* With one CPU a running thread sees an uptime that is up to date.
LEMMA ThreadSeesUptime ==
    ASSUME Inv, OneCPU, NEW c \in CPUs, pc[c] = "thread"
    PROVE  announce_remaining = 0 /\ curr_tick = last_cycle
<1>1. \A k \in CPUs : pc[k] = "thread"
  BY DEF OneCPU
<1>2. announce_remaining = 0 /\ \A k \in CPUs : ticks[k] = 0
  BY <1>1 DEF Inv, Announcing
<1>3. SumFunctionOnSet(ticks, CPUs) = 0
  BY <1>2, TimeoutQAssumption, SumZero
<1>4. curr_tick + announce_remaining + SumFunctionOnSet(ticks, CPUs) = last_cycle
      /\ curr_tick \in Nat
  BY UptimeBounds DEF Inv, TimeType
<1> QED BY <1>2, <1>3, <1>4

\* A call of z_add_timeout() for a tick to come, by a caller whose demands
\* are met.  That none is met early takes a single CPU.
Asks(c, to) ==
    \E d \in Nat, lo \in Nat, hi \in Nat :
        /\ d >= 1 /\ lo <= hi /\ curr_tick + d <= hi
        /\ OneCPU => lo <= curr_tick + d
        /\ z_add_timeout(c, to, d, lo, hi)

\* What is elapsed.
LEMMA ElapsedFacts ==
    ASSUME Inv
    PROVE  /\ elapsed(announce_remaining) \in Nat
           /\ curr_tick + elapsed(announce_remaining) <= hw
           /\ announce_remaining = 0 =>
                 elapsed(announce_remaining) = hw - last_cycle
<1>1. /\ curr_tick \in Nat /\ hw \in Nat /\ last_cycle \in Nat /\ last_cycle <= hw
      /\ curr_tick <= last_cycle /\ curr_tick <= hw
  BY UptimeBounds DEF Inv, TimeType
<1> QED BY <1>1 DEF elapsed, sys_clock_elapsed

\* The callers ask like that.
LEMMA CallersAsk ==
    ASSUME Inv, NEW c \in CPUs, NEW to \in Timeouts
    PROVE  /\ \A n \in Durations : ThreadAdd(c, to, n) => Asks(c, to)
           /\ \A n \in Durations : CallbackAdd(c, to, n) => Asks(c, to)
           /\ \A tick \in Absolutes : AddAbsolute(c, to, tick) => Asks(c, to)
<1> DEFINE el == elapsed(announce_remaining)
<1>1. /\ curr_tick \in Nat /\ hw \in Nat /\ last_cycle \in Nat /\ last_cycle <= hw
      /\ curr_tick <= hw /\ el \in Nat /\ curr_tick + el <= hw
      /\ announce_remaining = 0 => el = hw - last_cycle
  BY UptimeBounds, ElapsedFacts DEF Inv, TimeType
<1> HIDE DEF el
<1>2. ASSUME NEW n \in Durations, ThreadAdd(c, to, n) PROVE Asks(c, to)
  <2> DEFINE d == RelativeTicks(n)
             hi == hw + n + 1
  <2>1. n \in Nat /\ d = n + 1 + el
    BY TimeoutQAssumption DEF RelativeTicks, el
  <2>2. pc[c] = "thread" /\ z_add_timeout(c, to, d, hi, hi)
    BY <1>2 DEF ThreadAdd
  <2>3. OneCPU => hi <= curr_tick + d
    <3> SUFFICES ASSUME OneCPU PROVE hi <= curr_tick + d
      OBVIOUS
    <3>1. el = hw - last_cycle /\ curr_tick = last_cycle
      BY <1>1, <2>2, ThreadSeesUptime
    <3> HIDE DEF d
    <3> QED BY <1>1, <2>1, <3>1
  <2> HIDE DEF d
  <2>4. d \in Nat /\ hi \in Nat /\ d >= 1 /\ hi <= hi /\ curr_tick + d <= hi
    BY <1>1, <2>1
  <2> HIDE DEF hi
  <2> QED BY <2>2, <2>3, <2>4 DEF Asks
<1>3. ASSUME NEW n \in Durations, CallbackAdd(c, to, n) PROVE Asks(c, to)
  <2> DEFINE d == RelativeTicks(n)
             lo == curr_tick + n + 1
             hi == hw + n + 1
  <2>1. n \in Nat /\ d = n + 1 + el
    BY TimeoutQAssumption DEF RelativeTicks, el
  <2>2. z_add_timeout(c, to, d, lo, hi)
    BY <1>3 DEF CallbackAdd
  <2> HIDE DEF d
  <2>3. /\ d \in Nat /\ lo \in Nat /\ hi \in Nat /\ d >= 1 /\ lo <= hi
        /\ curr_tick + d <= hi /\ lo <= curr_tick + d
    BY <1>1, <2>1
  <2> HIDE DEF lo, hi
  <2> QED BY <2>2, <2>3 DEF Asks
<1>4. ASSUME NEW tick \in Absolutes, AddAbsolute(c, to, tick) PROVE Asks(c, to)
  <2> DEFINE x == tick - curr_tick
             y == hw + 1
             d == Max({1, x})
             hi == Max({tick, y})
  <2>1. tick \in Nat /\ x \in Int /\ y \in Nat
    BY <1>1, TimeoutQAssumption
  <2>2. z_add_timeout(c, to, d, tick, hi)
    BY <1>4 DEF AddAbsolute, AbsoluteTicks
  <2> HIDE DEF x, y
  <2>3. d \in {1, x} /\ d >= 1 /\ d >= x
    <3>1. \E k \in {1, x} : \A w \in {1, x} : k >= w
      BY <2>1
    <3> QED BY <3>1 DEF Max
  <2>4. hi \in {tick, y} /\ hi >= tick /\ hi >= y
    BY <2>1, MaxTwo
  <2> HIDE DEF d, hi
  <2>5. /\ d \in Nat /\ hi \in Nat /\ d >= 1 /\ tick <= hi
        /\ curr_tick + d <= hi /\ tick <= curr_tick + d
    BY <1>1, <2>1, <2>3, <2>4 DEF x, y
  <2> QED BY <2>1, <2>2, <2>5 DEF Asks
<1> QED BY <1>2, <1>3, <1>4

-----------------------------------------------------------------------------
(* Theorems. *)

\* The invariant holds at the start.
LEMMA InitInv == Init => Inv
<1> SUFFICES ASSUME Init PROVE Inv
  OBVIOUS
<1>1. /\ IsFiniteSet(CPUs) /\ MaxHw \in Nat /\ Never \in Nat /\ 1 \in 1..Never
  BY TimeoutQAssumption DEF Never
<1>2. /\ timeout_list = <<>> /\ timeout_list \in Seq(Timeouts)
      /\ IsInjective(timeout_list) /\ Range(timeout_list) = {}
  <2>1. timeout_list = <<>> /\ DOMAIN timeout_list = {}
    BY DEF Init
  <2> QED BY <2>1 DEF IsInjective, Range
<1>3. TimeType
  BY <1>1, <1>2 DEF Init, TimeType
<1>4. Announcing /\ Bounded
  BY <1>1 DEF Init, Announcing, Bounded
<1>5. TickConservation
  <2>1. \A c \in CPUs : ticks[c] = 0
    BY DEF Init
  <2>2. SumFunctionOnSet(ticks, CPUs) = 0
    BY <1>1, <2>1, SumZero
  <2> QED BY <2>2 DEF Init, TickConservation
<1>6. NeverLate /\ AlarmArmed
  BY <1>2 DEF NeverLate, Linked, AlarmArmed
<1> QED BY <1>3, <1>4, <1>5, <1>6 DEF Inv

\* A step that leaves the queue alone keeps it.
LEMMA StutterKeeps ==
    ASSUME Inv, UNCHANGED vars
    PROVE  Inv'
<1>1. UNCHANGED <<hw, last_cycle, alarm, curr_tick, announce_remaining,
                  timeout_list, dticks, pc, ticks, cb, due, latest>>
  BY DEF vars
<1>2. TimeType' /\ Announcing' /\ Bounded' /\ TickConservation'
  BY <1>1 DEF Inv, TimeType, Announcing, Bounded, TickConservation, Linked, Never
<1>3. NeverLate' /\ AlarmArmed'
  BY <1>1 DEF Inv, NeverLate, AlarmArmed, Linked, Expires, Position
<1> QED BY <1>2, <1>3 DEF Inv

\* Every step keeps it.
LEMMA NextInv == Inv /\ [Next]_vars => Inv'
<1> SUFFICES ASSUME Inv, [Next]_vars PROVE Inv'
  OBVIOUS
<1>1. CASE UNCHANGED vars
  BY <1>1, StutterKeeps
<1>2. CASE Tick
  BY <1>2, TickKeeps
<1>3. CASE Horizon
  BY <1>1, <1>3 DEF Horizon
<1>4. ASSUME NEW c \in CPUs, Interrupt(c) PROVE Inv'
  BY <1>4, IsrKeeps, AnnounceKeeps, ReturnKeeps DEF Interrupt
<1>5. ASSUME NEW c \in CPUs, NEW to \in Timeouts, Asks(c, to) PROVE Inv'
  <2>1. PICK d \in Nat, lo \in Nat, hi \in Nat :
            /\ lo <= hi /\ curr_tick + d <= hi /\ z_add_timeout(c, to, d, lo, hi)
    BY <1>5 DEF Asks
  <2> QED BY <2>1, AddKeeps
<1>6. ASSUME NEW c \in CPUs, NEW to \in Timeouts,
             ThreadAbort(c, to) \/ CallbackAbort(c, to)
      PROVE  Inv'
  BY <1>6, AbortKeeps DEF ThreadAbort, CallbackAbort
<1> QED BY <1>1, <1>2, <1>3, <1>4, <1>5, <1>6, CallersAsk DEF Next

\* The invariant holds in every reachable state.
THEOREM InvAlways == Spec => []Inv
BY InitInv, NextInv, PTL DEF Spec

\* The bounds of TypeOK follow from the invariant: no number in the queue
\* passes the last tick of the explored time, because no uptime does and no
\* timeout is late.
LEMMA InvTypes == Inv => TypeOK
<1> SUFFICES ASSUME Inv PROVE TypeOK
  OBVIOUS
<1>1. /\ hw \in Nat /\ hw <= MaxHw /\ MaxHw \in Nat
      /\ curr_tick \in Nat /\ curr_tick <= hw
      /\ announce_remaining \in Nat /\ announce_remaining <= hw
      /\ ticks \in [CPUs -> Nat] /\ \A c \in CPUs : ticks[c] <= hw
  BY UptimeBounds, TimeoutQAssumption DEF Inv, TimeType
<1>2. \A c \in CPUs : ticks[c] \in 0..MaxHw
  BY <1>1
<1>3. \A u \in Timeouts : dticks[u] \in 0..MaxHw
  <2> SUFFICES ASSUME NEW u \in Timeouts PROVE dticks[u] \in 0..MaxHw
    OBVIOUS
  <2>1. dticks[u] \in Nat /\ latest[u] \in Nat /\ latest[u] <= MaxHw
    BY DEF Inv, TimeType, Bounded
  <2>2. CASE u \in Linked
    <3>1. curr_tick + dticks[u] <= Expires(u) /\ Expires(u) \in Nat
      BY <2>2, ExpiresNat DEF Inv
    <3>2. Expires(u) <= latest[u]
      BY <2>2 DEF Inv, NeverLate
    <3> QED BY <1>1, <2>1, <3>1, <3>2
  <2>3. CASE u \notin Linked
    BY <1>1, <2>3 DEF Inv, Bounded
  <2> QED BY <2>2, <2>3
<1>4. \A u \in Timeouts : due[u] \in 0..MaxHw /\ latest[u] \in 0..MaxHw
  <2> SUFFICES ASSUME NEW u \in Timeouts
               PROVE  due[u] \in 0..MaxHw /\ latest[u] \in 0..MaxHw
    OBVIOUS
  <2>1. due[u] \in Nat /\ latest[u] \in Nat /\ due[u] <= latest[u] /\ latest[u] <= MaxHw
    BY DEF Inv, TimeType, Bounded
  <2> QED BY <1>1, <2>1
<1>5. /\ ticks \in [CPUs -> 0..MaxHw] /\ dticks \in [Timeouts -> 0..MaxHw]
      /\ due \in [Timeouts -> 0..MaxHw] /\ latest \in [Timeouts -> 0..MaxHw]
  BY <1>2, <1>3, <1>4 DEF Inv, TimeType
<1>6. /\ hw \in 0..MaxHw /\ last_cycle \in 0..hw /\ curr_tick \in 0..MaxHw
      /\ announce_remaining \in 0..MaxHw
  BY <1>1 DEF Inv, TimeType
<1> QED BY <1>5, <1>6 DEF Inv, TimeType, TypeOK

\* The state of the timeout queue always has its type, and no timeout is in
\* the list twice.
THEOREM TimeoutTypes == Spec => []TypeOK
BY InvAlways, InvTypes, PTL

\* sys_clock_announce() on any number of CPUs loses no tick and counts none
\* twice, whatever adds, aborts and callbacks come between.
THEOREM TicksConserved == Spec => []TickConservation
<1>1. Inv => TickConservation
  BY DEF Inv
<1> QED BY InvAlways, <1>1, PTL

\* No interleaving of adds, aborts and announcements delays a timeout beyond
\* what its caller asked for.
THEOREM NoTimeoutLate == Spec => []NeverLate
<1>1. Inv => NeverLate
  BY DEF Inv
<1> QED BY InvAlways, <1>1, PTL

\* Whenever the interrupt handlers have returned, the compare register of
\* some CPU is set in time for the first timeout.
THEOREM AlarmAlwaysArmed == Spec => []AlarmArmed
<1>1. Inv => AlarmArmed
  BY DEF Inv
<1> QED BY InvAlways, <1>1, PTL

-----------------------------------------------------------------------------
(* No timeout is early, on one CPU. *)

\* z_add_timeout() for a caller who is not served early keeps NeverEarly.
LEMMA EarlyAdd ==
    ASSUME Inv, NeverEarly, NEW c \in CPUs, NEW to \in Timeouts, NEW d \in Nat,
           NEW lo \in Nat, NEW hi \in Nat, lo <= curr_tick + d,
           z_add_timeout(c, to, d, lo, hi)
    PROVE  NeverEarly'
<1>1. Added(c, to, d)
  BY AddStep DEF Inv
<1>2. due' = [due EXCEPT ![to] = lo] /\ due \in [Timeouts -> Nat]
  BY DEF z_add_timeout, Inv, TimeType
<1>3. \A u \in Linked : u \in Timeouts
  BY ExpiresNat DEF Inv
<1>4. curr_tick \in Nat
  BY DEF Inv, TimeType
<1> SUFFICES ASSUME NEW u \in Linked' PROVE Expires(u)' >= due'[u]
  BY DEF NeverEarly
<1>5. CASE u = to
  <2>1. Expires(u)' = curr_tick + d /\ due'[u] = lo
    BY <1>1, <1>2, <1>5 DEF Added
  <2> QED BY <1>4, <2>1
<1>6. CASE u # to
  <2>1. u \in Linked /\ Expires(u)' = Expires(u) /\ due'[u] = due[u]
    BY <1>1, <1>2, <1>3, <1>6 DEF Added, Kept
  <2> QED BY <2>1 DEF NeverEarly
<1> QED BY <1>5, <1>6

\* So does z_abort_timeout().
LEMMA EarlyAbort ==
    ASSUME Inv, NeverEarly, NEW to \in Timeouts, z_abort_timeout(to)
    PROVE  NeverEarly'
<1>1. Removed(to)
  BY AbortStep DEF Inv
<1>2. due' = [due EXCEPT ![to] = 0] /\ due \in [Timeouts -> Nat]
  BY DEF z_abort_timeout, Inv, TimeType
<1>3. \A u \in Linked : u \in Timeouts
  BY ExpiresNat DEF Inv
<1> SUFFICES ASSUME NEW u \in Linked' PROVE Expires(u)' >= due'[u]
  BY DEF NeverEarly
<1>4. u \in Linked /\ Expires(u)' = Expires(u) /\ due'[u] = due[u]
  BY <1>1, <1>2, <1>3 DEF Removed, Kept
<1> QED BY <1>4 DEF NeverEarly

\* So does a turn of the loop of sys_clock_announce().
LEMMA EarlyLoop ==
    ASSUME Inv, NeverEarly, NEW c \in CPUs, NEW rem \in Nat, AnnounceLoop(c, rem),
           UNCHANGED <<hw, last_cycle>>, ticks' \in [CPUs -> Nat]
    PROVE  NeverEarly'
<1>1. TookOut(c, rem) \/ Finished(c, rem)
  BY LoopStep DEF Inv
<1>2. due \in [Timeouts -> Nat] /\ \A u \in Linked : u \in Timeouts
  BY ExpiresNat DEF Inv, TimeType
<1> SUFFICES ASSUME NEW u \in Linked' PROVE Expires(u)' >= due'[u]
  BY DEF NeverEarly
<1>3. u \in Linked /\ Expires(u)' = Expires(u) /\ due'[u] = due[u]
  <2>1. CASE TookOut(c, rem)
    <3> DEFINE t == Head(timeout_list)
    <3>1. /\ Linked' = Linked \ {t} /\ Kept(Linked \ {t})
          /\ due' = [due EXCEPT ![t] = 0]
      BY <2>1 DEF TookOut
    <3> HIDE DEF t
    <3> QED BY <1>2, <3>1 DEF Kept
  <2>2. CASE Finished(c, rem)
    BY <2>2 DEF Finished, Kept
  <2> QED BY <1>1, <2>1, <2>2
<1> QED BY <1>3 DEF NeverEarly

\* So does every step of the interrupt handler.
LEMMA EarlyInterrupt ==
    ASSUME Inv, NeverEarly, NEW c \in CPUs,
           arm_arch_timer_compare_isr(c) \/ sys_clock_announce(c) \/ CallbackReturn(c)
    PROVE  NeverEarly'
<1>1. ticks \in [CPUs -> Nat] /\ announce_remaining \in Nat
  BY DEF Inv, TimeType
<1>2. CASE arm_arch_timer_compare_isr(c)
  BY <1>2 DEF arm_arch_timer_compare_isr, NeverEarly, Linked, Expires, Position
<1>3. CASE sys_clock_announce(c)
  <2>1. CASE CONFIG_SMP /\ announce_remaining # 0
    <3>1. UNCHANGED <<curr_tick, timeout_list, dticks, due>>
      BY <1>3, <2>1 DEF sys_clock_announce
    <3> QED BY <3>1 DEF NeverEarly, Linked, Expires, Position
  <2>2. CASE ~(CONFIG_SMP /\ announce_remaining # 0)
    <3>1. /\ AnnounceLoop(c, ticks[c]) /\ ticks' = [ticks EXCEPT ![c] = 0]
          /\ UNCHANGED <<hw, last_cycle>>
      BY <1>3, <2>2 DEF sys_clock_announce, driverVars
    <3>2. ticks[c] \in Nat /\ ticks' \in [CPUs -> Nat]
      BY <1>1, <3>1
    <3> QED BY <3>1, <3>2, EarlyLoop
  <2> QED BY <2>1, <2>2
<1>4. CASE CallbackReturn(c)
  <2>1. /\ AnnounceLoop(c, announce_remaining) /\ ticks' = ticks
        /\ UNCHANGED <<hw, last_cycle>>
    BY <1>4 DEF CallbackReturn, driverVars
  <2> QED BY <1>1, <2>1, EarlyLoop
<1> QED BY <1>2, <1>3, <1>4

\* On a single CPU no timeout expires before the duration its caller asked
\* for has passed.  (On several CPUs the property does not hold.)
THEOREM NoTimeoutEarly ==
    ASSUME OneCPU
    PROVE  Spec => []NeverEarly
<1>1. Init => NeverEarly
  <2> SUFFICES ASSUME Init PROVE Linked = {}
    BY DEF NeverEarly
  <2>1. timeout_list = <<>> /\ DOMAIN timeout_list = {}
    BY DEF Init
  <2> QED BY <2>1 DEF Linked, Range
<1>2. Inv /\ NeverEarly /\ [Next]_vars => NeverEarly'
  <2> SUFFICES ASSUME Inv, NeverEarly, [Next]_vars PROVE NeverEarly'
    OBVIOUS
  <2>1. CASE UNCHANGED vars
    BY <2>1 DEF vars, NeverEarly, Linked, Expires, Position
  <2>2. CASE Tick
    BY <2>2 DEF Tick, NeverEarly, Linked, Expires, Position
  <2>3. CASE Horizon
    BY <2>1, <2>3 DEF Horizon
  <2>4. ASSUME NEW c \in CPUs, Interrupt(c) PROVE NeverEarly'
    BY <2>4, EarlyInterrupt DEF Interrupt
  <2>5. ASSUME NEW c \in CPUs, NEW to \in Timeouts, Asks(c, to) PROVE NeverEarly'
    <3>1. PICK d \in Nat, lo \in Nat, hi \in Nat :
              lo <= curr_tick + d /\ z_add_timeout(c, to, d, lo, hi)
      BY <2>5, OneCPU DEF Asks
    <3> QED BY <3>1, EarlyAdd
  <2>6. ASSUME NEW c \in CPUs, NEW to \in Timeouts,
               ThreadAbort(c, to) \/ CallbackAbort(c, to)
        PROVE  NeverEarly'
    BY <2>6, EarlyAbort DEF ThreadAbort, CallbackAbort
  <2> QED BY <2>1, <2>2, <2>3, <2>4, <2>5, <2>6, CallersAsk DEF Next
<1> QED BY InvAlways, <1>1, <1>2, PTL DEF Spec

-----------------------------------------------------------------------------
(* Refinement. *)

\* z_add_timeout() is an Arm step of the abstract specification.
LEMMA AddArms ==
    ASSUME Inv, NEW c \in CPUs, NEW to \in Timeouts, Asks(c, to)
    PROVE  TimeoutSpecOf!Arm(to)
<1>1. PICK d \in Nat, lo \in Nat, hi \in Nat :
          d >= 1 /\ z_add_timeout(c, to, d, lo, hi)
  BY DEF Asks
<1>2. Added(c, to, d)
  BY <1>1, AddStep DEF Inv
<1>3. curr_tick' = curr_tick /\ curr_tick \in Nat
  BY <1>1 DEF z_add_timeout, Inv, TimeType
<1>4. /\ to \notin Linked /\ Linked' = Linked \union {to}
      /\ Expires(to)' = curr_tick + d
      /\ \A u \in Linked : Expires(u)' = Expires(u)
  BY <1>2 DEF Added, Kept
<1>5. curr_tick + d > curr_tick
  BY <1>1, <1>3
<1> QED BY <1>3, <1>4, <1>5 DEF TimeoutSpecOf!Arm

\* z_abort_timeout() is a Disarm step.
LEMMA AbortDisarms ==
    ASSUME Inv, NEW to \in Timeouts, z_abort_timeout(to)
    PROVE  TimeoutSpecOf!Disarm(to)
<1>1. Removed(to)
  BY AbortStep DEF Inv
<1>2. curr_tick' = curr_tick
  BY DEF z_abort_timeout
<1>3. /\ to \in Linked /\ Linked' = Linked \ {to}
      /\ \A u \in Linked \ {to} : Expires(u)' = Expires(u)
  BY <1>1 DEF Removed, Kept
<1> QED BY <1>2, <1>3 DEF TimeoutSpecOf!Disarm

\* A turn of the loop is an Expire or an Advance step, or a stutter.
LEMMA LoopExpires ==
    ASSUME Inv, NEW c \in CPUs, NEW rem \in Nat, AnnounceLoop(c, rem),
           UNCHANGED <<hw, last_cycle>>, ticks' \in [CPUs -> Nat]
    PROVE  \/ \E t \in Timeouts : TimeoutSpecOf!Expire(t)
           \/ TimeoutSpecOf!Advance
           \/ UNCHANGED TimeoutSpecOf!specVars
<1>1. TookOut(c, rem) \/ Finished(c, rem)
  BY LoopStep DEF Inv
<1>2. CASE TookOut(c, rem)
  <2> DEFINE t == Head(timeout_list)
  <2>1. /\ t \in Linked /\ Linked' = Linked \ {t} /\ t \in Timeouts
        /\ curr_tick' = Expires(t)
        /\ \A u \in Linked : Expires(t) <= Expires(u)
        /\ \A u \in Linked \ {t} : Expires(u)' = Expires(u)
    BY <1>2 DEF TookOut, Kept
  <2> HIDE DEF t
  <2>2. TimeoutSpecOf!Expire(t)
    BY <2>1 DEF TimeoutSpecOf!Expire
  <2> QED BY <2>1, <2>2
<1>3. CASE Finished(c, rem)
  <2>1. /\ Linked' = Linked /\ curr_tick' = curr_tick + rem
        /\ \A u \in Linked : curr_tick' < Expires(u)
        /\ \A u \in Linked : Expires(u)' = Expires(u)
    BY <1>3 DEF Finished, Kept
  <2>2. [to \in Linked |-> Expires(to)]' = [to \in Linked |-> Expires(to)]
    BY <2>1
  <2>3. curr_tick \in Nat
    BY DEF Inv, TimeType
  <2>4. CASE rem = 0
    <3>1. curr_tick' = curr_tick
      BY <2>1, <2>3, <2>4
    <3> QED BY <2>2, <3>1 DEF TimeoutSpecOf!specVars
  <2>5. CASE rem # 0
    <3>1. curr_tick' > curr_tick
      BY <2>1, <2>3, <2>5
    <3>2. TimeoutSpecOf!Advance
      BY <2>1, <2>2, <3>1 DEF TimeoutSpecOf!Advance
    <3> QED BY <3>2
  <2> QED BY <2>4, <2>5
<1> QED BY <1>1, <1>2, <1>3

\* A step that leaves the queue and the uptime alone.
LEMMA QueueStutters ==
    ASSUME UNCHANGED <<curr_tick, timeout_list, dticks>>
    PROVE  UNCHANGED TimeoutSpecOf!specVars
<1>1. Linked' = Linked /\ \A u : Expires(u)' = Expires(u)
  BY DEF Linked, Expires, Position
<1> QED BY <1>1 DEF TimeoutSpecOf!specVars

\* The list of differences, worked on by several CPUs with the lock released
\* around every callback, implements a clock and a set of absolute expiry
\* ticks: adding or aborting a timeout moves no other one, each expires at
\* its own tick and in order, and the clock passes none that is armed.
THEOREM Refinement == Spec => ImplementsTimeoutSpec
<1>1. Init => TimeoutSpecOf!SpecInit
  <2> SUFFICES ASSUME Init PROVE TimeoutSpecOf!SpecInit
    OBVIOUS
  <2>1. timeout_list = <<>> /\ DOMAIN timeout_list = {} /\ curr_tick = 0
    BY DEF Init
  <2>2. Linked = {}
    BY <2>1 DEF Linked, Range
  <2> QED BY <2>1, <2>2 DEF TimeoutSpecOf!SpecInit
<1>2. Inv /\ [Next]_vars => [TimeoutSpecOf!SpecNext]_(TimeoutSpecOf!specVars)
  <2> SUFFICES ASSUME Inv, [Next]_vars
               PROVE  TimeoutSpecOf!SpecNext \/ UNCHANGED TimeoutSpecOf!specVars
    OBVIOUS
  <2>0. ticks \in [CPUs -> Nat] /\ announce_remaining \in Nat
    BY DEF Inv, TimeType
  <2>1. CASE UNCHANGED vars
    BY <2>1, QueueStutters DEF vars
  <2>2. CASE Tick
    BY <2>2, QueueStutters DEF Tick
  <2>3. CASE Horizon
    BY <2>1, <2>3 DEF Horizon
  <2>4. ASSUME NEW c \in CPUs, arm_arch_timer_compare_isr(c)
        PROVE  UNCHANGED TimeoutSpecOf!specVars
    BY <2>4, QueueStutters DEF arm_arch_timer_compare_isr
  <2>5. ASSUME NEW c \in CPUs, sys_clock_announce(c)
        PROVE  TimeoutSpecOf!SpecNext \/ UNCHANGED TimeoutSpecOf!specVars
    <3>1. CASE CONFIG_SMP /\ announce_remaining # 0
      BY <2>5, <3>1, QueueStutters DEF sys_clock_announce
    <3>2. CASE ~(CONFIG_SMP /\ announce_remaining # 0)
      <4>1. /\ AnnounceLoop(c, ticks[c]) /\ ticks' = [ticks EXCEPT ![c] = 0]
            /\ UNCHANGED <<hw, last_cycle>>
        BY <2>5, <3>2 DEF sys_clock_announce, driverVars
      <4>2. ticks[c] \in Nat /\ ticks' \in [CPUs -> Nat]
        BY <2>0, <4>1
      <4> QED BY <4>1, <4>2, LoopExpires DEF TimeoutSpecOf!SpecNext
    <3> QED BY <3>1, <3>2
  <2>6. ASSUME NEW c \in CPUs, CallbackReturn(c)
        PROVE  TimeoutSpecOf!SpecNext \/ UNCHANGED TimeoutSpecOf!specVars
    <3>1. /\ AnnounceLoop(c, announce_remaining) /\ ticks' = ticks
          /\ UNCHANGED <<hw, last_cycle>>
      BY <2>6 DEF CallbackReturn, driverVars
    <3> QED BY <2>0, <3>1, LoopExpires DEF TimeoutSpecOf!SpecNext
  <2>7. ASSUME NEW c \in CPUs, NEW to \in Timeouts, Asks(c, to)
        PROVE  TimeoutSpecOf!SpecNext
    BY <2>7, AddArms DEF TimeoutSpecOf!SpecNext
  <2>8. ASSUME NEW c \in CPUs, NEW to \in Timeouts,
               ThreadAbort(c, to) \/ CallbackAbort(c, to)
        PROVE  TimeoutSpecOf!SpecNext
    BY <2>8, AbortDisarms DEF ThreadAbort, CallbackAbort, TimeoutSpecOf!SpecNext
  <2> QED BY <2>1, <2>2, <2>3, <2>4, <2>5, <2>6, <2>7, <2>8, CallersAsk
          DEF Next, Interrupt
<1> QED BY InvAlways, <1>1, <1>2, PTL
        DEF Spec, ImplementsTimeoutSpec, TimeoutSpecOf!TimeoutSpec

=============================================================================
