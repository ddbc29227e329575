----------------------------- MODULE SeqLemmas -----------------------------
(***************************************************************************)
(* What the queues of the kernel need to know about inserting into and     *)
(* removing from sequences: the elements, their order, and that none comes *)
(* twice; and about finite sums, which the timeout queue is made of.       *)
(***************************************************************************)
EXTENDS Integers, Sequences, SequencesExt, SequenceTheorems,
        FiniteSets, FiniteSetTheorems, WellFoundedInduction, TLAPS

\* The elements of a sequence after an insertion, position by position.
LEMMA InsertAtElements ==
    ASSUME NEW S, NEW s \in Seq(S), NEW e \in S, NEW i \in 1..(Len(s) + 1)
    PROVE  /\ InsertAt(s, i, e) \in Seq(S)
           /\ Len(InsertAt(s, i, e)) = Len(s) + 1
           /\ \A j \in 1..(Len(s) + 1) :
                 InsertAt(s, i, e)[j] = IF j < i THEN s[j]
                                        ELSE IF j = i THEN e ELSE s[j - 1]
<1> DEFINE a == SubSeq(s, 1, i - 1)
           b == SubSeq(s, i, Len(s))
           ae == a \o <<e>>
<1>0. Len(s) \in Nat /\ DOMAIN s = 1..Len(s) /\ \A j \in 1..Len(s) : s[j] \in S
  BY LenProperties, ElementOfSeq
<1>1. /\ a \in Seq(S) /\ Len(a) = i - 1
      /\ \A j \in 1..(i - 1) : a[j] = s[j]
  <2>1. \A j \in 1..(i - 1) : s[j] \in S
    BY <1>0
  <2>2. /\ a \in Seq(S)
        /\ Len(a) = IF 1 <= i - 1 THEN (i - 1) - 1 + 1 ELSE 0
        /\ \A j \in 1..((i - 1) - 1 + 1) : a[j] = s[1 + j - 1]
    BY <2>1, <1>0, SubSeqProperties
  <2> QED BY <2>2, <1>0
<1>2. /\ b \in Seq(S) /\ Len(b) = Len(s) - i + 1
      /\ \A j \in 1..(Len(s) - i + 1) : b[j] = s[i + j - 1]
  <2>1. \A j \in i..Len(s) : s[j] \in S
    BY <1>0
  <2>2. /\ b \in Seq(S)
        /\ Len(b) = IF i <= Len(s) THEN Len(s) - i + 1 ELSE 0
        /\ \A j \in 1..(Len(s) - i + 1) : b[j] = s[i + j - 1]
    BY <2>1, <1>0, SubSeqProperties
  <2> QED BY <2>2, <1>0
<1>3. <<e>> \in Seq(S) /\ Len(<<e>>) = 1 /\ <<e>>[1] = e
  OBVIOUS
<1>4. /\ ae \in Seq(S) /\ Len(ae) = i
      /\ \A j \in 1..i : ae[j] = IF j < i THEN s[j] ELSE e
  <2>1. /\ ae \in Seq(S) /\ Len(ae) = Len(a) + Len(<<e>>)
        /\ \A j \in 1..(Len(a) + Len(<<e>>)) :
              ae[j] = IF j <= Len(a) THEN a[j] ELSE <<e>>[j - Len(a)]
    BY <1>1, <1>3, ConcatProperties
  <2> HIDE DEF a, ae
  <2> QED BY <2>1, <1>1, <1>3, <1>0
<1>5. /\ ae \o b \in Seq(S) /\ Len(ae \o b) = Len(ae) + Len(b)
      /\ \A j \in 1..(Len(ae) + Len(b)) :
            (ae \o b)[j] = IF j <= Len(ae) THEN ae[j] ELSE b[j - Len(ae)]
  <2> HIDE DEF a, b, ae
  <2> QED BY <1>2, <1>4, ConcatProperties
<1>6. InsertAt(s, i, e) = ae \o b
  BY DEF InsertAt
<1> HIDE DEF a, b, ae
<1> QED
  BY <1>0, <1>2, <1>4, <1>5, <1>6

\* The length of what follows position i in a sequence of length n.
LEMMA RestLength ==
    ASSUME NEW n \in Nat, NEW i \in 1..n
    PROVE  (IF i + 1 <= n THEN n - (i + 1) + 1 ELSE 0) = n - i
OBVIOUS

\* The elements of a sequence after a removal, position by position.
LEMMA RemoveAtElements ==
    ASSUME NEW S, NEW s \in Seq(S), NEW i \in 1..Len(s)
    PROVE  /\ RemoveAt(s, i) \in Seq(S)
           /\ Len(RemoveAt(s, i)) = Len(s) - 1
           /\ \A j \in 1..(Len(s) - 1) :
                 RemoveAt(s, i)[j] = IF j < i THEN s[j] ELSE s[j + 1]
<1> DEFINE a == SubSeq(s, 1, i - 1)
           b == SubSeq(s, i + 1, Len(s))
<1>0. Len(s) \in Nat /\ DOMAIN s = 1..Len(s) /\ \A j \in 1..Len(s) : s[j] \in S
  BY LenProperties, ElementOfSeq
<1>1. /\ a \in Seq(S) /\ Len(a) = i - 1
      /\ \A j \in 1..(i - 1) : a[j] = s[j]
  <2>1. \A j \in 1..(i - 1) : s[j] \in S
    BY <1>0
  <2>2. /\ a \in Seq(S)
        /\ Len(a) = IF 1 <= i - 1 THEN (i - 1) - 1 + 1 ELSE 0
        /\ \A j \in 1..((i - 1) - 1 + 1) : a[j] = s[1 + j - 1]
    BY <2>1, <1>0, SubSeqProperties
  <2> HIDE DEF a
  <2>3. Len(a) = i - 1
    <3>1. Len(a) = IF 1 <= i - 1 THEN (i - 1) - 1 + 1 ELSE 0
      BY <2>2
    <3> QED BY <3>1, <1>0
  <2>4. ASSUME NEW j \in 1..(i - 1) PROVE a[j] = s[j]
    <3>1. j \in 1..((i - 1) - 1 + 1) /\ 1 + j - 1 = j
      BY <1>0
    <3>2. a[j] = s[1 + j - 1]
      BY <2>2, <3>1
    <3> QED BY <3>1, <3>2
  <2> QED BY <2>2, <2>3, <2>4
<1>2. /\ b \in Seq(S) /\ Len(b) = Len(s) - i
      /\ \A j \in 1..(Len(s) - i) : b[j] = s[i + j]
  <2>1. \A j \in (i + 1)..Len(s) : s[j] \in S
    BY <1>0
  <2>2. /\ b \in Seq(S)
        /\ Len(b) = IF i + 1 <= Len(s) THEN Len(s) - (i + 1) + 1 ELSE 0
        /\ \A j \in 1..(Len(s) - (i + 1) + 1) : b[j] = s[(i + 1) + j - 1]
    BY <2>1, <1>0, SubSeqProperties
  <2> HIDE DEF b
  <2>3. ASSUME NEW j \in 1..(Len(s) - i) PROVE b[j] = s[i + j]
    <3>1. j \in 1..(Len(s) - (i + 1) + 1) /\ (i + 1) + j - 1 = i + j
      BY <1>0
    <3>2. b[j] = s[(i + 1) + j - 1]
      BY <2>2, <3>1
    <3> QED BY <3>1, <3>2
  <2>4. Len(b) = Len(s) - i
    <3>1. Len(b) = IF i + 1 <= Len(s) THEN Len(s) - (i + 1) + 1 ELSE 0
      BY <2>2
    <3>2. (IF i + 1 <= Len(s) THEN Len(s) - (i + 1) + 1 ELSE 0) = Len(s) - i
      BY <1>0, RestLength
    <3> QED BY <3>1, <3>2
  <2>5. b \in Seq(S)
    BY <2>2
  <2> QED BY <2>3, <2>4, <2>5
<1>3. /\ a \o b \in Seq(S) /\ Len(a \o b) = Len(a) + Len(b)
      /\ \A j \in 1..(Len(a) + Len(b)) :
            (a \o b)[j] = IF j <= Len(a) THEN a[j] ELSE b[j - Len(a)]
  <2> HIDE DEF a, b
  <2> QED BY <1>1, <1>2, ConcatProperties
<1>4. RemoveAt(s, i) = a \o b
  BY DEF RemoveAt
<1> HIDE DEF a, b
<1>5. ASSUME NEW j \in 1..(Len(s) - 1)
      PROVE  (a \o b)[j] = IF j < i THEN s[j] ELSE s[j + 1]
  <2>1. (a \o b)[j] = IF j <= i - 1 THEN a[j] ELSE b[j - (i - 1)]
    BY <1>0, <1>1, <1>2, <1>3
  <2>2. CASE j < i
    BY <2>1, <2>2, <1>0, <1>1
  <2>3. CASE ~(j < i)
    <3>1. j - (i - 1) \in 1..(Len(s) - i) /\ i + (j - (i - 1)) = j + 1
      BY <2>3, <1>0
    <3>2. b[j - (i - 1)] = s[i + (j - (i - 1))]
      BY <3>1, <1>2
    <3> QED BY <2>1, <2>3, <3>1, <3>2, <1>0
  <2> QED BY <2>2, <2>3
<1>6. Len(a \o b) = Len(s) - 1
  BY <1>0, <1>1, <1>2, <1>3
<1> QED
  BY <1>3, <1>4, <1>5, <1>6

\* The members of a sequence.
LEMMA RangeMembers ==
    ASSUME NEW S, NEW s \in Seq(S)
    PROVE  /\ Range(s) \subseteq S
           /\ \A x : x \in Range(s) <=> \E j \in 1..Len(s) : s[j] = x
BY LenProperties, ElementOfSeq DEF Range

\* Inserting adds one member, and none comes twice if it is new.
LEMMA InsertAtRange ==
    ASSUME NEW S, NEW s \in Seq(S), NEW e \in S, NEW i \in 1..(Len(s) + 1)
    PROVE  /\ Range(InsertAt(s, i, e)) = Range(s) \union {e}
           /\ IsInjective(s) /\ e \notin Range(s) => IsInjective(InsertAt(s, i, e))
<1> DEFINE r == InsertAt(s, i, e)
<1>1. /\ r \in Seq(S) /\ Len(r) = Len(s) + 1
      /\ \A j \in 1..(Len(s) + 1) :
            r[j] = IF j < i THEN s[j] ELSE IF j = i THEN e ELSE s[j - 1]
  BY InsertAtElements
<1> HIDE DEF r
<1>2. Len(s) \in Nat /\ DOMAIN s = 1..Len(s) /\ DOMAIN r = 1..(Len(s) + 1)
  BY <1>1, LenProperties
<1>3. ASSUME NEW x \in Range(r) PROVE x \in Range(s) \union {e}
  BY <1>1, <1>2 DEF Range
<1>4. e \in Range(r)
  <2>1. i \in DOMAIN r /\ r[i] = e
    BY <1>1, <1>2
  <2> QED BY <2>1 DEF Range
<1>5. ASSUME NEW x \in Range(s) PROVE x \in Range(r)
  <2>1. PICK j \in 1..Len(s) : s[j] = x
    BY <1>2 DEF Range
  <2>2. CASE j < i
    <3>1. j \in DOMAIN r /\ r[j] = x
      BY <1>1, <1>2, <2>1, <2>2
    <3> QED BY <3>1 DEF Range
  <2>3. CASE ~(j < i)
    <3>1. j + 1 \in DOMAIN r /\ r[j + 1] = x
      BY <1>1, <1>2, <2>1, <2>3
    <3> QED BY <3>1 DEF Range
  <2> QED BY <2>2, <2>3
<1>6. ASSUME IsInjective(s), e \notin Range(s) PROVE IsInjective(r)
  <2>1. \A j \in 1..Len(s) : s[j] # e
    BY <1>2, <1>6 DEF Range
  <2>2. \A j, k \in 1..Len(s) : s[j] = s[k] => j = k
    BY <1>2, <1>6 DEF IsInjective
  <2>3. SUFFICES ASSUME NEW j \in 1..(Len(s) + 1), NEW k \in 1..(Len(s) + 1), r[j] = r[k]
                 PROVE  j = k
    BY <1>2 DEF IsInjective
  <2> QED BY <1>1, <1>2, <2>1, <2>2, <2>3
<1> QED
  BY <1>3, <1>4, <1>5, <1>6 DEF r

\* Removing one takes its member out if none comes twice, and that stays so.
LEMMA RemoveAtRange ==
    ASSUME NEW S, NEW s \in Seq(S), NEW i \in 1..Len(s)
    PROVE  /\ Range(RemoveAt(s, i)) \subseteq Range(s)
           /\ IsInjective(s) => /\ Range(RemoveAt(s, i)) = Range(s) \ {s[i]}
                               /\ IsInjective(RemoveAt(s, i))
<1> DEFINE r == RemoveAt(s, i)
<1>1. /\ r \in Seq(S) /\ Len(r) = Len(s) - 1
      /\ \A j \in 1..(Len(s) - 1) : r[j] = IF j < i THEN s[j] ELSE s[j + 1]
  BY RemoveAtElements
<1> HIDE DEF r
<1>2. Len(s) \in Nat /\ DOMAIN s = 1..Len(s) /\ DOMAIN r = 1..(Len(s) - 1)
  BY <1>1, LenProperties
<1>3. ASSUME NEW x \in Range(r) PROVE x \in Range(s)
  BY <1>1, <1>2 DEF Range
<1>4. ASSUME IsInjective(s)
      PROVE  Range(r) = Range(s) \ {s[i]} /\ IsInjective(r)
  <2>1. \A j, k \in 1..Len(s) : s[j] = s[k] => j = k
    BY <1>2, <1>4 DEF IsInjective
  <2>2. \A j \in 1..(Len(s) - 1) : r[j] # s[i]
    BY <1>1, <1>2, <2>1
  <2>3. s[i] \notin Range(r)
    BY <2>2, <1>2 DEF Range
  <2>4. ASSUME NEW x \in Range(s), x # s[i] PROVE x \in Range(r)
    <3>1. PICK j \in 1..Len(s) : s[j] = x
      BY <1>2 DEF Range
    <3>2. CASE j < i
      <4>1. j \in DOMAIN r /\ r[j] = x
        BY <1>1, <1>2, <3>1, <3>2
      <4> QED BY <4>1 DEF Range
    <3>3. CASE j > i
      <4>1. j - 1 \in DOMAIN r /\ r[j - 1] = x
        BY <1>1, <1>2, <3>1, <3>3
      <4> QED BY <4>1 DEF Range
    <3> QED BY <3>1, <3>2, <3>3, <2>4, <1>2
  <2>5. IsInjective(r)
    <3> SUFFICES ASSUME NEW j \in 1..(Len(s) - 1), NEW k \in 1..(Len(s) - 1), r[j] = r[k]
                 PROVE  j = k
      BY <1>2 DEF IsInjective
    <3> QED BY <1>1, <1>2, <2>1
  <2> QED BY <1>3, <2>3, <2>4, <2>5
<1> QED
  BY <1>3, <1>4 DEF r

\* Removing one leaves the others, also where one comes twice.
LEMMA RemoveAtOthers ==
    ASSUME NEW S, NEW s \in Seq(S), NEW i \in 1..Len(s)
    PROVE  Range(s) \ {s[i]} \subseteq Range(RemoveAt(s, i))
<1> DEFINE r == RemoveAt(s, i)
<1>1. /\ r \in Seq(S) /\ Len(r) = Len(s) - 1 /\ Len(s) \in Nat
      /\ \A j \in 1..(Len(s) - 1) : r[j] = IF j < i THEN s[j] ELSE s[j + 1]
  BY RemoveAtElements, LenProperties
<1> HIDE DEF r
<1> SUFFICES ASSUME NEW x \in Range(s), x # s[i] PROVE x \in Range(r)
  BY DEF r
<1>2. PICK j \in 1..Len(s) : s[j] = x
  BY RangeMembers
<1> DEFINE k == IF j < i THEN j ELSE j - 1
<1>3. k \in 1..Len(r) /\ r[k] = x
  BY <1>1, <1>2
<1> HIDE DEF k
<1> QED BY <1>1, <1>3, RangeMembers

\* Taking the head off.
LEMMA TailRange ==
    ASSUME NEW S, NEW s \in Seq(S), s # <<>>
    PROVE  /\ Head(s) \in S /\ Head(s) \in Range(s)
           /\ Tail(s) \in Seq(S) /\ Range(Tail(s)) \subseteq Range(s)
           /\ IsInjective(s) => /\ Range(Tail(s)) = Range(s) \ {Head(s)}
                               /\ IsInjective(Tail(s))
<1>1. /\ Head(s) \in S /\ Tail(s) \in Seq(S) /\ Len(Tail(s)) = Len(s) - 1
      /\ \A j \in 1..Len(Tail(s)) : Tail(s)[j] = s[j + 1]
  BY HeadTailProperties
<1>2. Len(s) \in Nat \ {0} /\ DOMAIN s = 1..Len(s) /\ Head(s) = s[1]
      /\ DOMAIN Tail(s) = 1..(Len(s) - 1)
  BY <1>1, LenProperties, EmptySeq
<1>3. Head(s) \in Range(s)
  BY <1>2 DEF Range
<1>4. Range(Tail(s)) \subseteq Range(s)
  BY <1>1, <1>2 DEF Range
<1>5. ASSUME IsInjective(s)
      PROVE  Range(Tail(s)) = Range(s) \ {Head(s)} /\ IsInjective(Tail(s))
  <2>1. \A j, k \in 1..Len(s) : s[j] = s[k] => j = k
    BY <1>2, <1>5 DEF IsInjective
  <2>2. Head(s) \notin Range(Tail(s))
    <3>1. \A j \in 1..(Len(s) - 1) : Tail(s)[j] # Head(s)
      BY <1>1, <1>2, <2>1
    <3> QED BY <3>1, <1>2 DEF Range
  <2>3. ASSUME NEW x \in Range(s), x # Head(s) PROVE x \in Range(Tail(s))
    <3>1. PICK j \in 1..Len(s) : s[j] = x
      BY <1>2 DEF Range
    <3>2. j - 1 \in 1..(Len(s) - 1) /\ (j - 1) + 1 = j
      BY <3>1, <2>3, <1>2
    <3>3. Tail(s)[j - 1] = x
      BY <3>1, <3>2, <1>1
    <3> QED BY <3>2, <3>3, <1>2 DEF Range
  <2>4. IsInjective(Tail(s))
    <3> SUFFICES ASSUME NEW j \in 1..(Len(s) - 1), NEW k \in 1..(Len(s) - 1),
                        Tail(s)[j] = Tail(s)[k]
                 PROVE  j = k
      BY <1>2 DEF IsInjective
    <3>1. s[j + 1] = s[k + 1] /\ j + 1 \in 1..Len(s) /\ k + 1 \in 1..Len(s)
      BY <1>1, <1>2
    <3> QED BY <3>1, <2>1
  <2> QED BY <1>4, <2>2, <2>3, <2>4
<1> QED
  BY <1>1, <1>3, <1>4, <1>5

\* A set of natural numbers has a least one.
LEMMA LeastNatural ==
    ASSUME NEW T \in SUBSET Nat, T # {}
    PROVE  \E x \in T : \A y \in T : x <= y
<1> DEFINE R == {ss \in Nat \X Nat : ss[1] < ss[2]}
<1>1. \A x, y \in Nat : y < x => <<y, x>> \in R
  OBVIOUS
<1>2. IsWellFoundedOn(R, Nat)
  BY NatLessThanWellFounded DEF OpToRel
<1> HIDE DEF R
<1>3. PICK x \in T : \A y \in T : ~(<<y, x>> \in R)
  BY <1>2, WFMin
<1>4. \A y \in T : ~(y < x)
  BY <1>1, <1>3
<1> QED BY <1>3, <1>4

-----------------------------------------------------------------------------
(* Order in a sequence. *)

\* x is somewhere ahead of y.
Precedes(s, x, y) == \E i, j \in 1..Len(s) : i < j /\ s[i] = x /\ s[j] = y

\* What is ahead of something is in the sequence.
LEMMA PrecedesRange ==
    ASSUME NEW S, NEW s \in Seq(S), NEW x, NEW y, Precedes(s, x, y)
    PROVE  x \in Range(s) /\ y \in Range(s)
BY RangeMembers DEF Precedes

\* Appending adds a last member and leaves the order of the others.
LEMMA AppendFacts ==
    ASSUME NEW S, NEW s \in Seq(S), NEW e \in S
    PROVE  /\ Append(s, e) \in Seq(S) /\ Append(s, e) # <<>>
           /\ Range(Append(s, e)) = Range(s) \union {e}
           /\ IsInjective(s) /\ e \notin Range(s) => IsInjective(Append(s, e))
           /\ \A x, y : Precedes(s, x, y) => Precedes(Append(s, e), x, y)
<1> DEFINE r == Append(s, e)
<1>1. /\ r \in Seq(S) /\ Len(r) = Len(s) + 1 /\ Len(s) \in Nat
      /\ \A j \in 1..Len(s) : r[j] = s[j]
      /\ r[Len(s) + 1] = e
  BY AppendProperties, LenProperties
<1> HIDE DEF r
<1>2. DOMAIN s = 1..Len(s) /\ DOMAIN r = 1..(Len(s) + 1)
  BY <1>1, LenProperties
<1>3. r # <<>>
  BY <1>1, EmptySeq
<1>4. Range(r) = Range(s) \union {e}
  <2>1. \A j \in DOMAIN r : r[j] \in Range(s) \union {e}
    BY <1>1, <1>2 DEF Range
  <2>2. \A j \in DOMAIN s : j \in DOMAIN r /\ r[j] = s[j]
    BY <1>1, <1>2
  <2>3. Len(s) + 1 \in DOMAIN r
    BY <1>1, <1>2
  <2> QED BY <2>1, <2>2, <2>3, <1>1 DEF Range
<1>5. ASSUME IsInjective(s), e \notin Range(s) PROVE IsInjective(r)
  <2>1. \A j \in 1..Len(s) : s[j] # e
    BY <1>2, <1>5 DEF Range
  <2>2. \A j, k \in 1..Len(s) : s[j] = s[k] => j = k
    BY <1>2, <1>5 DEF IsInjective
  <2>3. SUFFICES ASSUME NEW j \in 1..(Len(s) + 1), NEW k \in 1..(Len(s) + 1), r[j] = r[k]
                 PROVE  j = k
    BY <1>2 DEF IsInjective
  <2> QED BY <1>1, <2>1, <2>2, <2>3
<1>6. ASSUME NEW x, NEW y, Precedes(s, x, y) PROVE Precedes(r, x, y)
  BY <1>1, <1>6 DEF Precedes
<1> QED
  BY <1>1, <1>3, <1>4, <1>5, <1>6 DEF r

\* Inserting leaves the order of the others.
LEMMA InsertAtPrecedes ==
    ASSUME NEW S, NEW s \in Seq(S), NEW e \in S, NEW i \in 1..(Len(s) + 1)
    PROVE  /\ \A x, y : Precedes(s, x, y) => Precedes(InsertAt(s, i, e), x, y)
           /\ \A j \in 1..Len(s) : j < i => Precedes(InsertAt(s, i, e), s[j], e)
<1> DEFINE r == InsertAt(s, i, e)
<1>1. /\ r \in Seq(S) /\ Len(r) = Len(s) + 1 /\ Len(s) \in Nat
      /\ \A j \in 1..(Len(s) + 1) :
            r[j] = IF j < i THEN s[j] ELSE IF j = i THEN e ELSE s[j - 1]
  BY InsertAtElements, LenProperties
<1> HIDE DEF r
<1>2. ASSUME NEW x, NEW y, Precedes(s, x, y) PROVE Precedes(r, x, y)
  <2>1. PICK j, k \in 1..Len(s) : j < k /\ s[j] = x /\ s[k] = y
    BY <1>2 DEF Precedes
  <2> DEFINE jj == IF j < i THEN j ELSE j + 1
             kk == IF k < i THEN k ELSE k + 1
  <2>2. jj \in 1..Len(r) /\ kk \in 1..Len(r) /\ jj < kk
    BY <1>1, <2>1
  <2>3. r[jj] = x
    BY <1>1, <2>1
  <2>4. r[kk] = y
    BY <1>1, <2>1
  <2> HIDE DEF jj, kk
  <2> QED BY <2>2, <2>3, <2>4 DEF Precedes
<1>3. ASSUME NEW j \in 1..Len(s), j < i PROVE Precedes(r, s[j], e)
  <2>1. j \in 1..Len(r) /\ i \in 1..Len(r) /\ r[j] = s[j] /\ r[i] = e
    BY <1>1, <1>3
  <2> QED BY <1>3, <2>1 DEF Precedes
<1> QED
  BY <1>2, <1>3 DEF r

\* Removing leaves the order of the others.
LEMMA RemoveAtPrecedes ==
    ASSUME NEW S, NEW s \in Seq(S), NEW i \in 1..Len(s), NEW x, NEW y,
           Precedes(s, x, y), x # s[i], y # s[i]
    PROVE  Precedes(RemoveAt(s, i), x, y)
<1> DEFINE r == RemoveAt(s, i)
<1>1. /\ Len(r) = Len(s) - 1 /\ Len(s) \in Nat
      /\ \A j \in 1..(Len(s) - 1) : r[j] = IF j < i THEN s[j] ELSE s[j + 1]
  BY RemoveAtElements, LenProperties
<1> HIDE DEF r
<1>2. PICK j, k \in 1..Len(s) : j < k /\ s[j] = x /\ s[k] = y
  BY DEF Precedes
<1> DEFINE jj == IF j < i THEN j ELSE j - 1
           kk == IF k < i THEN k ELSE k - 1
<1>3. j # i /\ k # i
  BY <1>2
<1>4. jj \in 1..Len(r) /\ kk \in 1..Len(r) /\ jj < kk
  BY <1>1, <1>2, <1>3
<1>5. r[jj] = x
  BY <1>1, <1>2, <1>3
<1>6. r[kk] = y
  BY <1>1, <1>2, <1>3
<1> HIDE DEF jj, kk
<1> QED BY <1>4, <1>5, <1>6 DEF Precedes, r

\* Nothing is ahead of the head, and taking it off leaves the order of the
\* others.
LEMMA TailPrecedes ==
    ASSUME NEW S, NEW s \in Seq(S), s # <<>>, IsInjective(s), NEW x, NEW y,
           Precedes(s, x, y)
    PROVE  /\ y # Head(s)
           /\ x # Head(s) => Precedes(Tail(s), x, y)
<1>1. /\ Len(Tail(s)) = Len(s) - 1 /\ Len(s) \in Nat /\ Head(s) = s[1]
      /\ \A j \in 1..Len(Tail(s)) : Tail(s)[j] = s[j + 1]
      /\ DOMAIN s = 1..Len(s)
  BY HeadTailProperties, LenProperties
<1>2. PICK j, k \in 1..Len(s) : j < k /\ s[j] = x /\ s[k] = y
  BY DEF Precedes
<1>3. y # Head(s)
  BY <1>1, <1>2 DEF IsInjective
<1>4. ASSUME x # Head(s) PROVE Precedes(Tail(s), x, y)
  <2>1. /\ j - 1 \in 1..Len(Tail(s)) /\ k - 1 \in 1..Len(Tail(s)) /\ j - 1 < k - 1
        /\ (j - 1) + 1 = j /\ (k - 1) + 1 = k
    BY <1>1, <1>2, <1>4
  <2>2. Tail(s)[j - 1] = x /\ Tail(s)[k - 1] = y
    BY <1>1, <1>2, <2>1
  <2> QED BY <2>1, <2>2 DEF Precedes
<1> QED BY <1>3, <1>4

-----------------------------------------------------------------------------
(* Sequences ordered by a rank, such as a wait queue by priority. *)

\* Nobody stands behind one of a higher rank.
Ordered(s, rank) == \A i, j \in 1..Len(s) : i < j => rank[s[i]] <= rank[s[j]]

\* The place behind all those of the same or a lower rank.
RankPlace(s, rank, e) ==
    LET worse == {i \in 1..Len(s) : rank[e] < rank[s[i]]}
    IN  IF worse = {} THEN Len(s) + 1
        ELSE CHOOSE j \in worse : \A k \in worse : j <= k

\* What stands before and at that place.
LEMMA RankPlaceFacts ==
    ASSUME NEW S, NEW rank \in [S -> Int], NEW s \in Seq(S), NEW e \in S
    PROVE  /\ RankPlace(s, rank, e) \in 1..(Len(s) + 1)
           /\ \A j \in 1..Len(s) : j < RankPlace(s, rank, e) => rank[s[j]] <= rank[e]
           /\ RankPlace(s, rank, e) <= Len(s) => rank[e] < rank[s[RankPlace(s, rank, e)]]
<1> DEFINE worse == {i \in 1..Len(s) : rank[e] < rank[s[i]]}
           p == RankPlace(s, rank, e)
<1>1. Len(s) \in Nat /\ \A j \in 1..Len(s) : s[j] \in S
  BY LenProperties, ElementOfSeq
<1>2. \A j \in 1..Len(s) : j \in worse <=> rank[e] < rank[s[j]]
  OBVIOUS
<1>3. worse \subseteq 1..Len(s) /\ worse \in SUBSET Nat
  BY <1>1
<1>4. p = IF worse = {} THEN Len(s) + 1 ELSE CHOOSE j \in worse : \A k \in worse : j <= k
  BY DEF RankPlace
<1> HIDE DEF worse, p
<1>5. \A j \in 1..Len(s) : rank[s[j]] \in Int /\ rank[e] \in Int
  BY <1>1
<1>6. CASE worse = {}
  BY <1>1, <1>2, <1>4, <1>5, <1>6 DEF p
<1>7. CASE worse # {}
  <2>1. \E j \in worse : \A k \in worse : j <= k
    BY <1>3, <1>7, LeastNatural
  <2>2. p \in worse /\ \A k \in worse : p <= k
    BY <1>4, <1>7, <2>1
  <2>3. p \in 1..Len(s) /\ rank[e] < rank[s[p]]
    BY <1>2, <1>3, <2>2
  <2>4. ASSUME NEW j \in 1..Len(s), j < p PROVE rank[s[j]] <= rank[e]
    <3>1. j \notin worse
      BY <1>1, <2>2, <2>3, <2>4
    <3> QED BY <1>2, <1>5, <3>1
  <2>5. p \in 1..(Len(s) + 1)
    BY <1>1, <2>3
  <2> QED BY <2>3, <2>4, <2>5 DEF p
<1> QED BY <1>6, <1>7

\* Inserting there keeps the sequence ordered, and the new one stands behind
\* its equals and before those of a higher rank.
LEMMA RankInsert ==
    ASSUME NEW S, NEW rank \in [S -> Int], NEW s \in Seq(S), NEW e \in S
    PROVE  /\ Ordered(s, rank) => Ordered(InsertAt(s, RankPlace(s, rank, e), e), rank)
           /\ Ordered(s, rank) =>
                 \A x \in Range(s) : rank[x] <= rank[e] =>
                    Precedes(InsertAt(s, RankPlace(s, rank, e), e), x, e)
<1> DEFINE i == RankPlace(s, rank, e)
           r == InsertAt(s, i, e)
<1>1. Len(s) \in Nat /\ \A j \in 1..Len(s) : s[j] \in S
  BY LenProperties, ElementOfSeq
<1>2. /\ i \in 1..(Len(s) + 1)
      /\ \A j \in 1..Len(s) : j < i => rank[s[j]] <= rank[e]
      /\ i <= Len(s) => rank[e] < rank[s[i]]
  BY RankPlaceFacts
<1> HIDE DEF i
<1>3. /\ Len(r) = Len(s) + 1
      /\ \A j \in 1..(Len(s) + 1) : r[j] = IF j < i THEN s[j] ELSE IF j = i THEN e ELSE s[j - 1]
  BY <1>2, InsertAtElements
<1>4. \A j \in 1..Len(s) : j < i => Precedes(r, s[j], e)
  BY <1>2, InsertAtPrecedes
<1>5. \A x : x \in Range(s) <=> \E j \in 1..Len(s) : s[j] = x
  BY RangeMembers
<1> HIDE DEF r
<1>6. rank[e] \in Int /\ \A j \in 1..Len(s) : rank[s[j]] \in Int
  BY <1>1
<1> SUFFICES ASSUME Ordered(s, rank)
             PROVE  /\ Ordered(r, rank)
                    /\ \A x \in Range(s) : rank[x] <= rank[e] => Precedes(r, x, e)
  BY DEF i, r
<1>7. \A j, k \in 1..Len(s) : j < k => rank[s[j]] <= rank[s[k]]
  BY DEF Ordered
<1>8. \A j \in 1..Len(s) : j >= i => rank[e] < rank[s[j]]
  <2> SUFFICES ASSUME NEW j \in 1..Len(s), j >= i PROVE rank[e] < rank[s[j]]
    OBVIOUS
  <2>1. i \in 1..Len(s) /\ rank[e] < rank[s[i]]
    BY <1>1, <1>2
  <2>2. rank[s[i]] <= rank[s[j]]
    BY <1>6, <1>7, <2>1
  <2> QED BY <1>6, <2>1, <2>2
<1>9. Ordered(r, rank)
  <2> SUFFICES ASSUME NEW j \in 1..(Len(s) + 1), NEW k \in 1..(Len(s) + 1), j < k
               PROVE  rank[r[j]] <= rank[r[k]]
    BY <1>3 DEF Ordered
  <2>1. CASE k < i
    <3>1. r[j] = s[j] /\ r[k] = s[k] /\ j \in 1..Len(s) /\ k \in 1..Len(s)
      BY <1>1, <1>2, <1>3, <2>1
    <3> QED BY <1>7, <3>1
  <2>2. CASE k = i
    <3>1. r[j] = s[j] /\ r[k] = e /\ j \in 1..Len(s) /\ j < i
      BY <1>1, <1>2, <1>3, <2>2
    <3> QED BY <1>2, <3>1
  <2>3. CASE k > i /\ j < i
    <3>1. r[j] = s[j] /\ r[k] = s[k - 1] /\ j \in 1..Len(s) /\ k - 1 \in 1..Len(s)
          /\ j < k - 1
      BY <1>1, <1>2, <1>3, <2>3
    <3> QED BY <1>7, <3>1
  <2>4. CASE k > i /\ j = i
    <3>1. r[j] = e /\ r[k] = s[k - 1] /\ k - 1 \in 1..Len(s) /\ k - 1 >= i
      BY <1>1, <1>2, <1>3, <2>4
    <3> QED BY <1>6, <1>8, <3>1
  <2>5. CASE k > i /\ j > i
    <3>1. r[j] = s[j - 1] /\ r[k] = s[k - 1] /\ j - 1 \in 1..Len(s) /\ k - 1 \in 1..Len(s)
          /\ j - 1 < k - 1
      BY <1>1, <1>2, <1>3, <2>5
    <3> QED BY <1>7, <3>1
  <2> QED BY <1>1, <1>2, <2>1, <2>2, <2>3, <2>4, <2>5
<1>10. ASSUME NEW x \in Range(s), rank[x] <= rank[e] PROVE Precedes(r, x, e)
  <2>1. PICK j \in 1..Len(s) : s[j] = x
    BY <1>5
  <2>2. ~(j >= i)
    BY <1>6, <1>8, <1>10, <2>1
  <2> QED BY <1>1, <1>2, <1>4, <2>1, <2>2
<1> QED BY <1>9, <1>10

\* Removing keeps the sequence ordered.
LEMMA RankRemove ==
    ASSUME NEW S, NEW rank \in [S -> Int], NEW s \in Seq(S), NEW i \in 1..Len(s),
           Ordered(s, rank)
    PROVE  Ordered(RemoveAt(s, i), rank)
<1> DEFINE r == RemoveAt(s, i)
<1>1. /\ Len(r) = Len(s) - 1 /\ Len(s) \in Nat
      /\ \A j \in 1..(Len(s) - 1) : r[j] = IF j < i THEN s[j] ELSE s[j + 1]
  BY RemoveAtElements, LenProperties
<1> HIDE DEF r
<1>2. \A j, k \in 1..Len(s) : j < k => rank[s[j]] <= rank[s[k]]
  BY DEF Ordered
<1> SUFFICES ASSUME NEW j \in 1..(Len(s) - 1), NEW k \in 1..(Len(s) - 1), j < k
             PROVE  rank[r[j]] <= rank[r[k]]
  BY <1>1 DEF Ordered, r
<1> DEFINE jj == IF j < i THEN j ELSE j + 1
           kk == IF k < i THEN k ELSE k + 1
<1>3. jj \in 1..Len(s) /\ kk \in 1..Len(s) /\ jj < kk
  BY <1>1
<1>4. r[j] = s[jj] /\ r[k] = s[kk]
  BY <1>1
<1> HIDE DEF jj, kk
<1> QED BY <1>2, <1>3, <1>4

\* The head has the least rank, and taking it off keeps the sequence ordered.
LEMMA RankHead ==
    ASSUME NEW S, NEW rank \in [S -> Int], NEW s \in Seq(S), s # <<>>, Ordered(s, rank)
    PROVE  /\ Ordered(Tail(s), rank)
           /\ \A x \in Range(s) : rank[Head(s)] <= rank[x]
<1>1. /\ Len(Tail(s)) = Len(s) - 1 /\ Len(s) \in Nat \ {0} /\ Head(s) = s[1]
      /\ \A j \in 1..Len(Tail(s)) : Tail(s)[j] = s[j + 1]
      /\ \A j \in 1..Len(s) : s[j] \in S
  BY HeadTailProperties, LenProperties, EmptySeq, ElementOfSeq
<1>2. \A j, k \in 1..Len(s) : j < k => rank[s[j]] <= rank[s[k]]
  BY DEF Ordered
<1>3. Ordered(Tail(s), rank)
  <2> SUFFICES ASSUME NEW j \in 1..(Len(s) - 1), NEW k \in 1..(Len(s) - 1), j < k
               PROVE  rank[Tail(s)[j]] <= rank[Tail(s)[k]]
    BY <1>1 DEF Ordered
  <2>1. j + 1 \in 1..Len(s) /\ k + 1 \in 1..Len(s) /\ j + 1 < k + 1
    BY <1>1
  <2>2. Tail(s)[j] = s[j + 1] /\ Tail(s)[k] = s[k + 1]
    BY <1>1
  <2> QED BY <1>2, <2>1, <2>2
<1>4. ASSUME NEW x \in Range(s) PROVE rank[Head(s)] <= rank[x]
  <2>1. PICK j \in 1..Len(s) : s[j] = x
    BY RangeMembers
  <2>2. rank[s[1]] \in Int
    BY <1>1
  <2> QED BY <1>1, <1>2, <2>1, <2>2
<1> QED BY <1>3, <1>4

\* The rank decides who stands ahead.
LEMMA RankPrecedes ==
    ASSUME NEW S, NEW rank \in [S -> Int], NEW s \in Seq(S), Ordered(s, rank),
           NEW x \in Range(s), NEW y \in Range(s), rank[x] < rank[y]
    PROVE  Precedes(s, x, y)
<1>1. PICK j \in 1..Len(s) : s[j] = x
  BY RangeMembers
<1>2. PICK k \in 1..Len(s) : s[k] = y
  BY RangeMembers
<1>3. Len(s) \in Nat /\ rank[s[j]] \in Int /\ rank[s[k]] \in Int
  BY LenProperties, ElementOfSeq
<1>4. ~(k < j) /\ k # j
  BY <1>1, <1>2, <1>3 DEF Ordered
<1> QED BY <1>1, <1>2, <1>3, <1>4 DEF Precedes

-----------------------------------------------------------------------------
(* Sums: SumFunctionOnSet(f, S) of the module Functions. *)

\* A set of numbers that holds n whenever it holds all smaller ones.
LEMMA CompleteInduction ==
    ASSUME NEW T \in SUBSET Nat,
           \A n \in Nat : (\A m \in Nat : m < n => m \in T) => n \in T
    PROVE  \A n \in Nat : n \in T
<1> SUFFICES ASSUME Nat \ T # {} PROVE FALSE
  OBVIOUS
<1>1. PICK x \in Nat \ T : \A y \in Nat \ T : x <= y
  <2> DEFINE R == Nat \ T
  <2>1. R \in SUBSET Nat /\ R # {}
    OBVIOUS
  <2> HIDE DEF R
  <2>2. \E x \in R : \A y \in R : x <= y
    BY <2>1, LeastNatural
  <2> QED BY <2>2 DEF R
<1>2. \A m \in Nat : m < x => m \in T
  BY <1>1
<1> QED BY <1>1, <1>2

\* The element a sum takes first, and the function behind SumFunctionOnSet.
Pick(s) == CHOOSE x \in s : TRUE

SumStep(f, g, s) == IF s = {} THEN 0 ELSE f[Pick(s)] + g[s \ {Pick(s)}]

IsSumIter(f, S, g) == g = [s \in SUBSET S |-> SumStep(f, g, s)]

SumIter(f, S) == CHOOSE g : IsSumIter(f, S, g)

\* What Pick leaves is smaller.
LEMMA PickRest ==
    ASSUME NEW s, IsFiniteSet(s), s # {}
    PROVE  /\ Pick(s) \in s
           /\ IsFiniteSet(s \ {Pick(s)})
           /\ Cardinality(s) \in Nat
           /\ Cardinality(s \ {Pick(s)}) = Cardinality(s) - 1
<1>1. Pick(s) \in s
  BY DEF Pick
<1> QED BY <1>1, FS_RemoveElement, FS_CardinalityType

\* The function behind SumFunctionOnSet exists.
LEMMA SumIterExists ==
    ASSUME NEW S, IsFiniteSet(S), NEW f, \A x \in S : f[x] \in Int
    PROVE  \E g : IsSumIter(f, S, g)
<1> DEFINE B(n) == {s \in SUBSET S : Cardinality(s) <= n}
           Good(g, n) == /\ g \in [B(n) -> Int]
                         /\ \A s \in B(n) : g[s] = SumStep(f, g, s)
           T == {n \in Nat : \E g : Good(g, n)}
<1>1. \A s \in SUBSET S : /\ IsFiniteSet(s) /\ Cardinality(s) \in Nat
                          /\ Cardinality(s) <= Cardinality(S)
                          /\ Cardinality(s) = 0 <=> s = {}
  BY FS_Subset, FS_CardinalityType, FS_EmptySet
<1>2. \A s \in SUBSET S : s # {} => /\ Pick(s) \in s /\ f[Pick(s)] \in Int
                                    /\ s \ {Pick(s)} \in SUBSET S
                                    /\ Cardinality(s \ {Pick(s)}) = Cardinality(s) - 1
  BY <1>1, PickRest
<1>3. ASSUME NEW n \in Nat, \A m \in Nat : m < n => m \in T
      PROVE  n \in T
  <2>1. CASE n = 0
    <3> DEFINE g == [s \in B(0) |-> 0]
    <3>1. \A s \in B(0) : s = {}
      BY <1>1
    <3>2. Good(g, 0)
      BY <3>1 DEF SumStep
    <3> QED BY <2>1, <3>2
  <2>2. CASE n # 0
    <3>1. n - 1 \in Nat /\ n - 1 < n
      BY <2>2
    <3>2. PICK g : Good(g, n - 1)
      BY <1>3, <3>1
    <3> DEFINE h == [s \in B(n) |-> SumStep(f, g, s)]
    <3>3. \A s \in B(n) : s # {} => s \ {Pick(s)} \in B(n - 1)
      BY <1>1, <1>2, <3>1
    <3>4. \A s \in B(n) : SumStep(f, g, s) \in Int
      BY <1>2, <3>2, <3>3 DEF SumStep
    <3>5. \A s \in B(n - 1) : s \in B(n) /\ g[s] = SumStep(f, g, s)
      BY <1>1, <3>1, <3>2
    <3>6. \A s \in B(n - 1) : h[s] = g[s]
      BY <3>5
    <3>7. \A s \in B(n) : SumStep(f, h, s) = SumStep(f, g, s)
      <4> HIDE DEF h, B
      <4> QED BY <3>3, <3>6 DEF SumStep
    <3>8. Good(h, n)
      <4>1. \A s \in B(n) : h[s] = SumStep(f, g, s)
        OBVIOUS
      <4>2. h \in [B(n) -> Int]
        BY <3>4
      <4> HIDE DEF h, B
      <4> QED BY <3>7, <4>1, <4>2
    <3> HIDE DEF Good
    <3> QED BY <3>8
  <2> QED BY <2>1, <2>2
<1>4. \A n \in Nat : n \in T
  <2>1. T \in SUBSET Nat
    OBVIOUS
  <2> HIDE DEF T
  <2> QED BY <1>3, <2>1, CompleteInduction
<1>5. Cardinality(S) \in Nat /\ B(Cardinality(S)) = SUBSET S
  BY <1>1, FS_CardinalityType
<1>6. PICK g : Good(g, Cardinality(S))
  <2> HIDE DEF Good
  <2> QED BY <1>4, <1>5
<1>7. g \in [SUBSET S -> Int] /\ \A s \in SUBSET S : g[s] = SumStep(f, g, s)
  <2> HIDE DEF B
  <2> QED BY <1>5, <1>6
<1>8. g = [s \in SUBSET S |-> SumStep(f, g, s)]
  BY <1>7
<1> QED BY <1>8 DEF IsSumIter

\* It satisfies its defining equation, and its values are numbers.
LEMMA SumIterFacts ==
    ASSUME NEW S, IsFiniteSet(S), NEW f, \A x \in S : f[x] \in Int
    PROVE  /\ \A s \in SUBSET S : SumIter(f, S)[s] = SumStep(f, SumIter(f, S), s)
           /\ \A s \in SUBSET S : SumIter(f, S)[s] \in Int
           /\ SumFunctionOnSet(f, S) = SumIter(f, S)[S]
<1> DEFINE g == SumIter(f, S)
<1>1. g = [s \in SUBSET S |-> SumStep(f, g, s)]
  <2>1. \E h : IsSumIter(f, S, h)
    BY SumIterExists
  <2>2. IsSumIter(f, S, g)
    BY <2>1 DEF SumIter
  <2> QED BY <2>2 DEF IsSumIter
<1>2. SumFunctionOnSet(f, S) = g[S]
  BY DEF SumFunctionOnSet, FoldFunctionOnSet, MapThenFoldSet, SumIter, IsSumIter, SumStep, Pick
<1> HIDE DEF g
<1>3. \A s \in SUBSET S : g[s] = SumStep(f, g, s)
  BY <1>1
<1> DEFINE T == {n \in Nat : \A s \in SUBSET S : Cardinality(s) = n => g[s] \in Int}
<1>4. ASSUME NEW n \in Nat, \A m \in Nat : m < n => m \in T
      PROVE  n \in T
  <2> SUFFICES ASSUME NEW s \in SUBSET S, Cardinality(s) = n PROVE g[s] \in Int
    OBVIOUS
  <2>1. IsFiniteSet(s)
    BY FS_Subset
  <2>0. g[s] = SumStep(f, g, s)
    BY <1>3
  <2>2. CASE s = {}
    BY <2>0, <2>2 DEF SumStep
  <2>3. CASE s # {}
    <3>1. /\ Pick(s) \in s /\ s \ {Pick(s)} \in SUBSET S
          /\ Cardinality(s \ {Pick(s)}) = n - 1
          /\ n - 1 \in Nat /\ n - 1 < n
      <4>1. /\ Pick(s) \in s /\ IsFiniteSet(s \ {Pick(s)})
            /\ Cardinality(s \ {Pick(s)}) = n - 1
        BY <2>1, <2>3, PickRest
      <4>2. n # 0
        BY <2>1, <2>3, FS_EmptySet
      <4> QED BY <4>1, <4>2
    <3>2. n - 1 \in T
      BY <1>4, <3>1
    <3>3. g[s \ {Pick(s)}] \in Int
      BY <3>1, <3>2
    <3>4. f[Pick(s)] \in Int
      BY <3>1
    <3> QED BY <2>0, <2>3, <3>3, <3>4 DEF SumStep
  <2> QED BY <2>2, <2>3
<1>5. \A n \in Nat : n \in T
  <2>1. T \in SUBSET Nat
    OBVIOUS
  <2> HIDE DEF T
  <2> QED BY <1>4, <2>1, CompleteInduction
<1>6. \A s \in SUBSET S : g[s] \in Int
  BY <1>5, FS_Subset, FS_CardinalityType
<1> QED BY <1>2, <1>3, <1>6 DEF g

\* A sum, taken apart where SumFunctionOnSet does it.
LEMMA SumUnfold ==
    ASSUME NEW S, IsFiniteSet(S), NEW f, \A x \in S : f[x] \in Int
    PROVE  /\ SumFunctionOnSet(f, S) \in Int
           /\ S = {} => SumFunctionOnSet(f, S) = 0
           /\ S # {} => SumFunctionOnSet(f, S) =
                           f[Pick(S)] + SumFunctionOnSet(f, S \ {Pick(S)})
<1> DEFINE T == {n \in Nat : \A U \in SUBSET S : \A V \in SUBSET U :
                    Cardinality(V) = n => SumIter(f, U)[V] = SumIter(f, V)[V]}
<1>1. \A U \in SUBSET S : IsFiniteSet(U) /\ \A x \in U : f[x] \in Int
  BY FS_Subset
<1>2. ASSUME NEW n \in Nat, \A m \in Nat : m < n => m \in T
      PROVE  n \in T
  <2> SUFFICES ASSUME NEW U \in SUBSET S, NEW V \in SUBSET U, Cardinality(V) = n
               PROVE  SumIter(f, U)[V] = SumIter(f, V)[V]
    OBVIOUS
  <2>1. /\ SumIter(f, U)[V] = SumStep(f, SumIter(f, U), V)
        /\ SumIter(f, V)[V] = SumStep(f, SumIter(f, V), V)
    <3>1. U \in SUBSET S /\ V \in SUBSET S /\ V \in SUBSET V
      OBVIOUS
    <3>2. IsFiniteSet(U) /\ IsFiniteSet(V) /\ (\A x \in U : f[x] \in Int) /\ (\A x \in V : f[x] \in Int)
      BY <1>1, <3>1
    <3>3. \A s \in SUBSET U : SumIter(f, U)[s] = SumStep(f, SumIter(f, U), s)
      BY <3>2, SumIterFacts
    <3>4. \A s \in SUBSET V : SumIter(f, V)[s] = SumStep(f, SumIter(f, V), s)
      BY <3>2, SumIterFacts
    <3> QED BY <3>1, <3>3, <3>4
  <2>2. CASE V = {}
    BY <2>1, <2>2 DEF SumStep
  <2>3. CASE V # {}
    <3> DEFINE W == V \ {Pick(V)}
    <3>1. IsFiniteSet(V) /\ V \in SUBSET S
      BY <1>1
    <3>2. n # 0
      BY <2>3, <3>1, FS_EmptySet
    <3>3. Cardinality(W) = n - 1 /\ n - 1 \in Nat /\ n - 1 < n
      BY <2>3, <3>1, <3>2, PickRest
    <3>4. n - 1 \in T
      BY <1>2, <3>3
    <3>5. W \in SUBSET U /\ W \in SUBSET V
      OBVIOUS
    <3> HIDE DEF W
    <3>6. SumIter(f, U)[W] = SumIter(f, W)[W]
      BY <3>3, <3>4, <3>5
    <3>7. SumIter(f, V)[W] = SumIter(f, W)[W]
      BY <3>1, <3>3, <3>4, <3>5
    <3>8. SumStep(f, SumIter(f, U), V) = SumStep(f, SumIter(f, V), V)
      BY <3>6, <3>7 DEF SumStep, W
    <3> QED BY <2>1, <3>8
  <2> QED BY <2>2, <2>3
<1>3. \A n \in Nat : n \in T
  <2>1. T \in SUBSET Nat
    OBVIOUS
  <2> HIDE DEF T
  <2> QED BY <1>2, <2>1, CompleteInduction
<1>4. \A V \in SUBSET S : SumIter(f, S)[V] = SumIter(f, V)[V]
  <2> SUFFICES ASSUME NEW V \in SUBSET S PROVE SumIter(f, S)[V] = SumIter(f, V)[V]
    OBVIOUS
  <2>1. Cardinality(V) \in T
    BY <1>1, <1>3, FS_CardinalityType
  <2> QED BY <2>1
<1>5. \A V \in SUBSET S : SumFunctionOnSet(f, V) = SumIter(f, V)[V]
  BY <1>1, SumIterFacts
<1>6. /\ \A s \in SUBSET S : SumIter(f, S)[s] = SumStep(f, SumIter(f, S), s)
      /\ \A s \in SUBSET S : SumIter(f, S)[s] \in Int
  BY SumIterFacts
<1>7. \A V \in SUBSET S : SumIter(f, S)[V] = SumFunctionOnSet(f, V)
  BY <1>4, <1>5
<1>8. ASSUME S # {}
      PROVE  SumFunctionOnSet(f, S) = f[Pick(S)] + SumFunctionOnSet(f, S \ {Pick(S)})
  <2>1. S \in SUBSET S /\ S \ {Pick(S)} \in SUBSET S
    OBVIOUS
  <2>2. SumIter(f, S)[S] = f[Pick(S)] + SumIter(f, S)[S \ {Pick(S)}]
    BY <1>6, <1>8, <2>1 DEF SumStep
  <2> QED BY <1>7, <2>1, <2>2
<1>9. S \in SUBSET S
  OBVIOUS
<1>10. S = {} => SumFunctionOnSet(f, S) = 0
  BY <1>6, <1>7, <1>9 DEF SumStep
<1>11. SumFunctionOnSet(f, S) \in Int
  BY <1>6, <1>7, <1>9
<1> QED BY <1>8, <1>10, <1>11

\* A sum, taken apart at any element.
LEMMA SumSplit ==
    ASSUME NEW S, IsFiniteSet(S), NEW f, \A y \in S : f[y] \in Int, NEW x \in S
    PROVE  SumFunctionOnSet(f, S) = f[x] + SumFunctionOnSet(f, S \ {x})
<1> DEFINE Sum(V) == SumFunctionOnSet(f, V)
           T == {n \in Nat : \A V \in SUBSET S : \A z \in V :
                    Cardinality(V) = n => Sum(V) = f[z] + Sum(V \ {z})}
<1>1. \A V \in SUBSET S : /\ IsFiniteSet(V) /\ Cardinality(V) \in Nat
                          /\ Sum(V) \in Int
  <2> SUFFICES ASSUME NEW V \in SUBSET S
               PROVE  IsFiniteSet(V) /\ Cardinality(V) \in Nat /\ Sum(V) \in Int
    OBVIOUS
  <2>1. IsFiniteSet(V) /\ Cardinality(V) \in Nat /\ \A y \in V : f[y] \in Int
    BY FS_Subset, FS_CardinalityType
  <2> QED BY <2>1, SumUnfold
<1>2. ASSUME NEW n \in Nat, \A m \in Nat : m < n => m \in T
      PROVE  n \in T
  <2> SUFFICES ASSUME NEW V \in SUBSET S, NEW z \in V, Cardinality(V) = n
               PROVE  Sum(V) = f[z] + Sum(V \ {z})
    OBVIOUS
  <2> DEFINE p == Pick(V)
  <2>1. IsFiniteSet(V) /\ V # {} /\ \A y \in V : f[y] \in Int
    BY <1>1
  <2>2. p \in V /\ Cardinality(V \ {p}) = n - 1
    BY <2>1, PickRest
  <2>3. Cardinality(V \ {z}) = n - 1 /\ n - 1 \in Nat /\ n - 1 < n
    <3>1. Cardinality(V \ {z}) = n - 1
      BY <2>1, FS_RemoveElement
    <3>2. n # 0
      BY <2>1, FS_EmptySet
    <3> QED BY <3>1, <3>2
  <2>4. Sum(V) = f[p] + Sum(V \ {p})
    BY <2>1, SumUnfold
  <2> HIDE DEF p, Sum
  <2>5. CASE p = z
    BY <2>4, <2>5
  <2>6. CASE p # z
    <3>1. n - 1 \in T
      BY <1>2, <2>3
    <3>2. Sum(V \ {p}) = f[z] + Sum((V \ {p}) \ {z})
      BY <2>2, <2>6, <3>1
    <3>3. Sum(V \ {z}) = f[p] + Sum((V \ {z}) \ {p})
      BY <2>2, <2>3, <2>6, <3>1
    <3>4. (V \ {z}) \ {p} = (V \ {p}) \ {z}
      OBVIOUS
    <3>5. f[z] \in Int /\ f[p] \in Int /\ Sum((V \ {p}) \ {z}) \in Int
      <4>1. (V \ {p}) \ {z} \in SUBSET S
        OBVIOUS
      <4> QED BY <1>1, <2>1, <2>2, <4>1
    <3>6. Sum((V \ {z}) \ {p}) = Sum((V \ {p}) \ {z})
      BY <3>4
    <3> QED BY <2>4, <3>2, <3>3, <3>5, <3>6
  <2> QED BY <2>5, <2>6
<1>3. \A n \in Nat : n \in T
  <2>1. T \in SUBSET Nat
    OBVIOUS
  <2> HIDE DEF T
  <2> QED BY <1>2, <2>1, CompleteInduction
<1>4. Cardinality(S) \in T /\ S \in SUBSET S
  BY <1>1, <1>3
<1> QED BY <1>4

\* Sums of functions that agree are equal.
LEMMA SumAgree ==
    ASSUME NEW S, IsFiniteSet(S), NEW f, NEW g,
           \A y \in S : f[y] \in Int /\ g[y] = f[y]
    PROVE  SumFunctionOnSet(g, S) = SumFunctionOnSet(f, S)
<1> DEFINE T == {n \in Nat : \A V \in SUBSET S : Cardinality(V) = n =>
                    SumFunctionOnSet(g, V) = SumFunctionOnSet(f, V)}
<1>1. ASSUME NEW n \in Nat, \A m \in Nat : m < n => m \in T
      PROVE  n \in T
  <2> SUFFICES ASSUME NEW V \in SUBSET S, Cardinality(V) = n
               PROVE  SumFunctionOnSet(g, V) = SumFunctionOnSet(f, V)
    OBVIOUS
  <2>1. /\ IsFiniteSet(V) /\ \A y \in V : f[y] \in Int
        /\ \A y \in V : g[y] \in Int /\ g[y] = f[y]
    BY FS_Subset
  <2>2. CASE V = {}
    <3>1. SumFunctionOnSet(f, V) = 0
      BY <2>1, <2>2, SumUnfold
    <3>2. SumFunctionOnSet(g, V) = 0
      BY <2>1, <2>2, SumUnfold
    <3> QED BY <3>1, <3>2
  <2>3. CASE V # {}
    <3> DEFINE p == Pick(V)
               W == V \ {p}
    <3>1. p \in V /\ Cardinality(W) = n - 1
      BY <2>1, <2>3, PickRest
    <3>2. n # 0
      BY <2>1, <2>3, FS_EmptySet
    <3>3. SumFunctionOnSet(f, V) = f[p] + SumFunctionOnSet(f, W)
      BY <2>1, <2>3, SumUnfold
    <3>4. SumFunctionOnSet(g, V) = g[p] + SumFunctionOnSet(g, W)
      BY <2>1, <2>3, SumUnfold
    <3> HIDE DEF p
    <3>5. SumFunctionOnSet(g, W) = SumFunctionOnSet(f, W)
      <4>1. n - 1 \in Nat /\ n - 1 < n
        BY <3>2
      <4>2. n - 1 \in T
        BY <1>1, <4>1
      <4>3. W \in SUBSET S
        OBVIOUS
      <4> HIDE DEF W
      <4> QED BY <3>1, <4>2, <4>3
    <3>6. g[p] = f[p]
      BY <2>1, <3>1
    <3> QED BY <3>3, <3>4, <3>5, <3>6
  <2> QED BY <2>2, <2>3
<1>2. \A n \in Nat : n \in T
  <2>1. T \in SUBSET Nat
    OBVIOUS
  <2> HIDE DEF T
  <2> QED BY <1>1, <2>1, CompleteInduction
<1>3. Cardinality(S) \in T /\ S \in SUBSET S
  BY <1>2, FS_CardinalityType
<1> QED BY <1>3

\* g is f with another value at x.
Changed(S, f, g, x, v) ==
    f \in [S -> Int] /\ x \in S /\ v \in Int /\ g = [f EXCEPT ![x] = v]

\* Changing one value changes the sum by as much.
LEMMA SumChange ==
    ASSUME NEW S, IsFiniteSet(S), NEW f, NEW g, NEW x, NEW v, Changed(S, f, g, x, v)
    PROVE  SumFunctionOnSet(g, S) = SumFunctionOnSet(f, S) - f[x] + v
<1> DEFINE R == S \ {x}
<1>0. f \in [S -> Int] /\ x \in S /\ v \in Int
  BY DEF Changed
<1>1. g \in [S -> Int] /\ g[x] = v /\ \A y \in R : g[y] = f[y]
  BY DEF Changed
<1>2. IsFiniteSet(R) /\ \A y \in R : f[y] \in Int
  BY <1>0, FS_RemoveElement
<1>3. SumFunctionOnSet(f, S) = f[x] + SumFunctionOnSet(f, R)
  <2>1. \A y \in S : f[y] \in Int
    BY <1>0
  <2> QED BY <1>0, <2>1, SumSplit
<1>4. SumFunctionOnSet(g, S) = v + SumFunctionOnSet(g, R)
  <2>1. \A y \in S : g[y] \in Int
    BY <1>1
  <2> QED BY <1>0, <1>1, <2>1, SumSplit
<1> HIDE DEF R
<1>5. SumFunctionOnSet(g, R) = SumFunctionOnSet(f, R)
  BY <1>1, <1>2, SumAgree
<1>6. SumFunctionOnSet(f, R) \in Int
  BY <1>2, SumUnfold
<1> QED BY <1>0, <1>3, <1>4, <1>5, <1>6

\* The sum of a function that is zero everywhere.
LEMMA SumZero ==
    ASSUME NEW S, IsFiniteSet(S), NEW f, \A x \in S : f[x] = 0
    PROVE  SumFunctionOnSet(f, S) = 0
<1> DEFINE T == {n \in Nat : \A V \in SUBSET S :
                    Cardinality(V) = n => SumFunctionOnSet(f, V) = 0}
<1>1. ASSUME NEW n \in Nat, \A m \in Nat : m < n => m \in T
      PROVE  n \in T
  <2> SUFFICES ASSUME NEW V \in SUBSET S, Cardinality(V) = n
               PROVE  SumFunctionOnSet(f, V) = 0
    OBVIOUS
  <2>1. IsFiniteSet(V) /\ \A y \in V : f[y] \in Int /\ f[y] = 0
    BY FS_Subset
  <2>2. CASE V = {}
    BY <2>1, <2>2, SumUnfold
  <2>3. CASE V # {}
    <3> DEFINE p == Pick(V)
               W == V \ {p}
    <3>1. p \in V /\ Cardinality(W) = n - 1
      BY <2>1, <2>3, PickRest
    <3>2. n # 0
      BY <2>1, <2>3, FS_EmptySet
    <3>3. SumFunctionOnSet(f, V) = f[p] + SumFunctionOnSet(f, W)
      BY <2>1, <2>3, SumUnfold
    <3> HIDE DEF p
    <3>5. SumFunctionOnSet(f, W) = 0
      <4>1. n - 1 \in T
        BY <1>1, <3>2
      <4>3. W \in SUBSET S
        OBVIOUS
      <4> HIDE DEF W
      <4> QED BY <3>1, <4>1, <4>3
    <3> QED BY <2>1, <3>1, <3>3, <3>5
  <2> QED BY <2>2, <2>3
<1>2. \A n \in Nat : n \in T
  <2>1. T \in SUBSET Nat
    OBVIOUS
  <2> HIDE DEF T
  <2> QED BY <1>1, <2>1, CompleteInduction
<1>3. Cardinality(S) \in T /\ S \in SUBSET S
  BY <1>2, FS_CardinalityType
<1> QED BY <1>3

\* Partial sums of a sequence of numbers.
LEMMA SumFirst ==
    ASSUME NEW e, NEW n \in Nat, \A j \in 1..n : e[j] \in Int
    PROVE  /\ SumFunctionOnSet(e, 1..0) = 0
           /\ \A i \in 0..n : SumFunctionOnSet(e, 1..i) \in Int
           /\ \A i \in 1..n : SumFunctionOnSet(e, 1..i)
                                 = SumFunctionOnSet(e, 1..(i - 1)) + e[i]
<1>1. \A i \in 0..n : IsFiniteSet(1..i) /\ \A j \in 1..i : e[j] \in Int
  BY FS_Interval
<1>2. \A i \in 0..n : SumFunctionOnSet(e, 1..i) \in Int
  BY <1>1, SumUnfold
<1>3. SumFunctionOnSet(e, 1..0) = 0
  <2>1. 1..0 = {}
    OBVIOUS
  <2>2. IsFiniteSet(1..0) /\ \A j \in 1..0 : e[j] \in Int
    BY <1>1
  <2> QED BY <2>1, <2>2, SumUnfold
<1>4. ASSUME NEW i \in 1..n
      PROVE  SumFunctionOnSet(e, 1..i) = SumFunctionOnSet(e, 1..(i - 1)) + e[i]
  <2>1. i \in 0..n /\ i - 1 \in 0..n /\ i \in 1..i /\ (1..i) \ {i} = 1..(i - 1)
    OBVIOUS
  <2>2. SumFunctionOnSet(e, 1..i) = e[i] + SumFunctionOnSet(e, (1..i) \ {i})
    BY <1>1, <2>1, SumSplit
  <2>3. SumFunctionOnSet(e, (1..i) \ {i}) = SumFunctionOnSet(e, 1..(i - 1))
    BY <2>1
  <2>4. e[i] \in Int /\ SumFunctionOnSet(e, 1..(i - 1)) \in Int
    BY <1>2, <2>1
  <2> QED BY <2>2, <2>3, <2>4
<1> QED BY <1>2, <1>3, <1>4

\* Two functions whose values agree on the stretch after a up to b, in the
\* second k places on, and whose partial sums up to there differ by v.
Shifted(e, m, d, n, k, v, a, b) ==
    /\ m \in Nat /\ \A j \in 1..m : e[j] \in Int
    /\ n \in Nat /\ \A j \in 1..n : d[j] \in Int
    /\ k \in Int /\ v \in Int /\ a \in 0..m /\ b \in a..m
    /\ a + k \in 0..n /\ b + k \in 0..n
    /\ \A j \in (a + 1)..b : d[j + k] = e[j]
    /\ SumFunctionOnSet(d, 1..(a + k)) = SumFunctionOnSet(e, 1..a) + v

\* The partial sums differ by v on the whole stretch.
LEMMA SumShift ==
    ASSUME NEW e, NEW m \in Nat, NEW d, NEW n \in Nat, NEW k \in Int,
           NEW v \in Int, NEW a \in Nat, NEW b \in Nat,
           Shifted(e, m, d, n, k, v, a, b)
    PROVE  \A j \in a..b : SumFunctionOnSet(d, 1..(j + k))
                              = SumFunctionOnSet(e, 1..j) + v
<1> USE DEF Shifted
<1> DEFINE D(j) == SumFunctionOnSet(d, 1..j)
           E(j) == SumFunctionOnSet(e, 1..j)
           T == {q \in Nat : a + q <= b => D(a + q + k) = E(a + q) + v}
<1>1. /\ \A i \in 0..n : D(i) \in Int
      /\ \A i \in 1..n : D(i) = D(i - 1) + d[i]
  BY SumFirst
<1>2. /\ \A i \in 0..m : E(i) \in Int
      /\ \A i \in 1..m : E(i) = E(i - 1) + e[i]
  BY SumFirst
<1>3. D(a + k) = E(a) + v
  OBVIOUS
<1> HIDE DEF D, E
<1>4. ASSUME NEW q \in Nat, \A p \in Nat : p < q => p \in T
      PROVE  q \in T
  <2>1. CASE q = 0
    <3>1. a + q = a /\ a + q + k = a + k
      BY <2>1
    <3>2. D(a + q + k) = D(a + k) /\ E(a + q) = E(a)
      BY <3>1
    <3> QED BY <1>3, <3>2
  <2>2. CASE q # 0
    <3> SUFFICES ASSUME a + q <= b PROVE D(a + q + k) = E(a + q) + v
      OBVIOUS
    <3> DEFINE j == a + q
    <3>0. q - 1 \in Nat /\ q - 1 < q
      BY <2>2
    <3>1. q - 1 \in T
      <4> HIDE DEF T
      <4> QED BY <1>4, <3>0
    <3>2. D(a + (q - 1) + k) = E(a + (q - 1)) + v
      BY <2>2, <3>1
    <3>3. a + (q - 1) = j - 1 /\ a + (q - 1) + k = (j + k) - 1
      OBVIOUS
    <3>4. D((j + k) - 1) = E(j - 1) + v
      <4>1. D(a + (q - 1) + k) = D((j + k) - 1) /\ E(a + (q - 1)) = E(j - 1)
        BY <3>3
      <4> QED BY <3>2, <4>1
    <3>5. j \in (a + 1)..b /\ j \in 1..m /\ j + k \in 1..n /\ j - 1 \in 0..m
      BY <2>2
    <3> HIDE DEF j
    <3>6. D(j + k) = D((j + k) - 1) + d[j + k] /\ E(j) = E(j - 1) + e[j]
      BY <1>1, <1>2, <3>5
    <3>7. d[j + k] = e[j] /\ e[j] \in Int /\ E(j - 1) \in Int
      BY <1>2, <3>5
    <3>8. D(j + k) = E(j) + v
      BY <3>4, <3>6, <3>7
    <3> QED BY <3>8 DEF j
  <2> QED BY <2>1, <2>2
<1>5. \A q \in Nat : q \in T
  <2>1. T \in SUBSET Nat
    OBVIOUS
  <2> HIDE DEF T
  <2> QED BY <1>4, <2>1, CompleteInduction
<1>6. ASSUME NEW j \in a..b PROVE D(j + k) = E(j) + v
  <2>0. j - a \in Nat
    OBVIOUS
  <2>1. j - a \in T
    <3> HIDE DEF T
    <3> QED BY <1>5, <2>0
  <2>2. a + (j - a) = j /\ a + (j - a) + k = j + k
    OBVIOUS
  <2>3. D(a + (j - a) + k) = E(a + (j - a)) + v
    BY <2>1
  <2> QED BY <2>2, <2>3
<1> QED BY <1>6 DEF D, E

\* Partial sums of natural numbers grow.
LEMMA SumMonotone ==
    ASSUME NEW e, NEW n \in Nat, \A j \in 1..n : e[j] \in Nat
    PROVE  /\ \A i \in 0..n : SumFunctionOnSet(e, 1..i) \in Nat
           /\ \A i \in 0..n : \A j \in i..n :
                 SumFunctionOnSet(e, 1..i) <= SumFunctionOnSet(e, 1..j)
<1> DEFINE E(j) == SumFunctionOnSet(e, 1..j)
           T == {q \in Nat : q <= n => \A i \in 0..q : E(i) <= E(q)}
<1>1. /\ E(0) = 0
      /\ \A i \in 0..n : E(i) \in Int
      /\ \A i \in 1..n : E(i) = E(i - 1) + e[i]
  <2>1. \A j \in 1..n : e[j] \in Int
    OBVIOUS
  <2> QED BY <2>1, SumFirst
<1> HIDE DEF E
<1>2. ASSUME NEW q \in Nat, \A p \in Nat : p < q => p \in T
      PROVE  q \in T
  <2> SUFFICES ASSUME q <= n, NEW i \in 0..q PROVE E(i) <= E(q)
    OBVIOUS
  <2>1. CASE i = q
    BY <1>1, <2>1
  <2>2. CASE i # q
    <3>1. q - 1 \in Nat /\ q - 1 < q /\ q \in 1..n /\ i \in 0..(q - 1)
          /\ i \in 0..n /\ q - 1 \in 0..n
      BY <2>2
    <3>2. q - 1 \in T
      BY <1>2, <3>1
    <3>3. E(i) <= E(q - 1)
      BY <3>1, <3>2
    <3>4. E(q) = E(q - 1) + e[q] /\ e[q] \in Nat
      BY <1>1, <3>1
    <3>5. E(i) \in Int /\ E(q - 1) \in Int
      BY <1>1, <3>1
    <3> QED BY <3>3, <3>4, <3>5
  <2> QED BY <2>1, <2>2
<1>3. \A q \in Nat : q \in T
  <2>1. T \in SUBSET Nat
    OBVIOUS
  <2> HIDE DEF T
  <2> QED BY <1>2, <2>1, CompleteInduction
<1>4. \A i \in 0..n : \A j \in i..n : E(i) <= E(j)
  <2> SUFFICES ASSUME NEW i \in 0..n, NEW j \in i..n PROVE E(i) <= E(j)
    OBVIOUS
  <2>1. j \in T /\ j <= n /\ i \in 0..j
    BY <1>3
  <2> QED BY <2>1
<1>5. \A i \in 0..n : E(i) \in Nat
  <2> SUFFICES ASSUME NEW i \in 0..n PROVE E(i) \in Nat
    OBVIOUS
  <2>1. E(0) <= E(i) /\ E(i) \in Int
    BY <1>1, <1>4
  <2> QED BY <1>1, <2>1
<1> QED BY <1>4, <1>5 DEF E

\* A sum of natural numbers is one, and none of its parts exceeds it.
LEMMA SumBounds ==
    ASSUME NEW S, IsFiniteSet(S), NEW f, \A x \in S : f[x] \in Nat
    PROVE  /\ SumFunctionOnSet(f, S) \in Nat
           /\ \A x \in S : f[x] <= SumFunctionOnSet(f, S)
<1> DEFINE T == {n \in Nat : \A V \in SUBSET S :
                    Cardinality(V) = n => SumFunctionOnSet(f, V) \in Nat}
<1>1. ASSUME NEW n \in Nat, \A m \in Nat : m < n => m \in T
      PROVE  n \in T
  <2> SUFFICES ASSUME NEW V \in SUBSET S, Cardinality(V) = n
               PROVE  SumFunctionOnSet(f, V) \in Nat
    OBVIOUS
  <2>1. IsFiniteSet(V) /\ \A y \in V : f[y] \in Int /\ f[y] \in Nat
    BY FS_Subset
  <2>2. CASE V = {}
    BY <2>1, <2>2, SumUnfold
  <2>3. CASE V # {}
    <3> DEFINE p == Pick(V)
               W == V \ {p}
    <3>1. p \in V /\ Cardinality(W) = n - 1
      BY <2>1, <2>3, PickRest
    <3>2. n # 0
      BY <2>1, <2>3, FS_EmptySet
    <3>3. SumFunctionOnSet(f, V) = f[p] + SumFunctionOnSet(f, W)
      BY <2>1, <2>3, SumUnfold
    <3> HIDE DEF p
    <3>5. SumFunctionOnSet(f, W) \in Nat
      <4>1. n - 1 \in T
        BY <1>1, <3>2
      <4>3. W \in SUBSET S
        OBVIOUS
      <4> HIDE DEF W
      <4> QED BY <3>1, <4>1, <4>3
    <3> QED BY <2>1, <3>1, <3>3, <3>5
  <2> QED BY <2>2, <2>3
<1>2. \A n \in Nat : n \in T
  <2>1. T \in SUBSET Nat
    OBVIOUS
  <2> HIDE DEF T
  <2> QED BY <1>1, <2>1, CompleteInduction
<1>3. \A V \in SUBSET S : SumFunctionOnSet(f, V) \in Nat
  <2> SUFFICES ASSUME NEW V \in SUBSET S PROVE SumFunctionOnSet(f, V) \in Nat
    OBVIOUS
  <2>1. Cardinality(V) \in T
    BY <1>2, FS_Subset, FS_CardinalityType
  <2> QED BY <2>1
<1>4. ASSUME NEW x \in S PROVE f[x] <= SumFunctionOnSet(f, S)
  <2>1. SumFunctionOnSet(f, S) = f[x] + SumFunctionOnSet(f, S \ {x})
    <3>1. \A y \in S : f[y] \in Int
      OBVIOUS
    <3> QED BY <3>1, SumSplit
  <2>2. S \ {x} \in SUBSET S /\ f[x] \in Nat
    OBVIOUS
  <2>3. SumFunctionOnSet(f, S \ {x}) \in Nat
    BY <1>3, <2>2
  <2> QED BY <2>1, <2>2, <2>3
<1>5. S \in SUBSET S
  OBVIOUS
<1> QED BY <1>3, <1>4, <1>5
=============================================================================
