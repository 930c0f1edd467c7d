----------------------------- MODULE QueueLemmas -----------------------------
(***************************************************************************)
(* Facts about the operators of module Queues, for queues of any length.   *)
(* LeastNat and NatInductionSet give induction over the natural numbers in *)
(* a form the provers can use (a set, not an operator, is the induction    *)
(* hypothesis); with it, what the recursive filter Kept returns is proved  *)
(* rather than assumed.                                                    *)
(***************************************************************************)
EXTENDS Queues, WellFoundedInduction, SequenceTheorems, FiniteSetTheorems, TLAPS

\* A set of natural numbers that is not empty has a least member.
LEMMA LeastNat ==
    ASSUME NEW T, T \subseteq Nat, T # {}
    PROVE  \E x \in T : \A y \in T : x <= y
<1>1. IsWellFoundedOn(OpToRel(<, Nat), Nat)
  BY NatLessThanWellFounded
<1>2. \E x \in T : \A y \in T : ~(<<y, x>> \in OpToRel(<, Nat))
  BY <1>1, WFMin
<1>3. \E x \in T : \A y \in T : ~(y < x)
  <2>1. ASSUME NEW x \in T, NEW y \in T, y < x
        PROVE  <<y, x>> \in OpToRel(<, Nat)
    BY <2>1, Zenon DEF OpToRel
  <2> QED BY <1>2, <2>1, Zenon
<1> HIDE <1>1, <1>2
<1> QED BY <1>3

\* Induction: a set with zero and with the successor of each of its numbers has
\* every natural number.
LEMMA NatInductionSet ==
    ASSUME NEW T, 0 \in T, \A n \in Nat : n \in T => n + 1 \in T
    PROVE  Nat \subseteq T
<1>1. SUFFICES ASSUME Nat \ T # {} PROVE FALSE
  OBVIOUS
<1>2. PICK x \in Nat \ T : \A y \in Nat \ T : x <= y
  BY <1>1, LeastNat
<1>3. x - 1 \in Nat /\ x - 1 < x
  BY <1>2
<1> QED BY <1>2, <1>3

-----------------------------------------------------------------------------
(* Queues that grow and shrink. *)

\* push_back adds one member.
LEMMA InAppend ==
    ASSUME NEW S, NEW q \in Seq(S), NEW x \in S, NEW y
    PROVE  In(y, Append(q, x)) <=> In(y, q) \/ y = x
BY DEF In

\* push_back of a newcomer keeps the members distinct.
LEMMA DistinctAppend ==
    ASSUME NEW S, NEW q \in Seq(S), NEW x \in S, Distinct(q), ~In(x, q)
    PROVE  Distinct(Append(q, x))
BY DEF In, Distinct

\* Two queues one after the other have the members of both.
LEMMA InConcat ==
    ASSUME NEW S, NEW p \in Seq(S), NEW q \in Seq(S), NEW y
    PROVE  In(y, p \o q) <=> In(y, p) \/ In(y, q)
<1>1. /\ p \o q \in Seq(S) /\ Len(p \o q) = Len(p) + Len(q)
      /\ Len(p) \in Nat /\ Len(q) \in Nat
      /\ \A i \in 1 .. Len(p) + Len(q) : (p \o q)[i] = IF i <= Len(p) THEN p[i] ELSE q[i - Len(p)]
  BY ConcatProperties, LenProperties
<1>2. In(y, p) => In(y, p \o q)
  BY <1>1 DEF In
<1>3. In(y, q) => In(y, p \o q)
  <2>1. SUFFICES ASSUME NEW j \in 1 .. Len(q), q[j] = y PROVE In(y, p \o q)
    BY DEF In
  <2>2. j + Len(p) \in 1 .. Len(p \o q) /\ (p \o q)[j + Len(p)] = q[j]
    BY <1>1
  <2> QED BY <2>1, <2>2 DEF In
<1>4. In(y, p \o q) => In(y, p) \/ In(y, q)
  <2>1. SUFFICES ASSUME NEW j \in 1 .. Len(p) + Len(q), (p \o q)[j] = y PROVE In(y, p) \/ In(y, q)
    BY <1>1 DEF In
  <2>2. CASE j <= Len(p)
    BY <1>1, <2>1, <2>2 DEF In
  <2>3. CASE ~(j <= Len(p))
    <3>1. j - Len(p) \in 1 .. Len(q) /\ q[j - Len(p)] = y
      BY <1>1, <2>1, <2>3
    <3> QED BY <3>1 DEF In
  <2> QED BY <2>2, <2>3
<1> QED BY <1>2, <1>3, <1>4

\* Two queues of distinct members that have none in common stay so together.
LEMMA DistinctConcat ==
    ASSUME NEW S, NEW p \in Seq(S), NEW q \in Seq(S), Distinct(p), Distinct(q),
           \A x \in S : ~(In(x, p) /\ In(x, q))
    PROVE  Distinct(p \o q)
<1>1. /\ p \o q \in Seq(S) /\ Len(p \o q) = Len(p) + Len(q)
      /\ Len(p) \in Nat /\ Len(q) \in Nat
      /\ \A i \in 1 .. Len(p) + Len(q) : (p \o q)[i] = IF i <= Len(p) THEN p[i] ELSE q[i - Len(p)]
  BY ConcatProperties, LenProperties
<1>2. \A i \in 1 .. Len(p) : p[i] \in S
  BY ElementOfSeq
<1>3. ASSUME NEW i \in 1 .. Len(p), NEW j \in 1 .. Len(q) PROVE p[i] # q[j]
  BY <1>2 DEF In
<1>4. SUFFICES ASSUME NEW i \in 1 .. Len(p) + Len(q), NEW j \in 1 .. Len(p) + Len(q),
                      (p \o q)[i] = (p \o q)[j]
               PROVE  i = j
  BY <1>1 DEF Distinct
<1>5. CASE i <= Len(p) /\ j <= Len(p)
  BY <1>1, <1>4, <1>5 DEF Distinct
<1>6. CASE i > Len(p) /\ j > Len(p)
  <2>1. i - Len(p) \in 1 .. Len(q) /\ j - Len(p) \in 1 .. Len(q) /\ q[i - Len(p)] = q[j - Len(p)]
    BY <1>1, <1>4, <1>6
  <2>2. i - Len(p) = j - Len(p)
    BY <2>1 DEF Distinct
  <2> QED BY <2>2, <1>1
<1>7. CASE i <= Len(p) /\ j > Len(p)
  <2>1. i \in 1 .. Len(p) /\ j - Len(p) \in 1 .. Len(q) /\ p[i] = q[j - Len(p)]
    BY <1>1, <1>4, <1>7
  <2> QED BY <2>1, <1>3
<1>8. CASE j <= Len(p) /\ i > Len(p)
  <2>1. j \in 1 .. Len(p) /\ i - Len(p) \in 1 .. Len(q) /\ p[j] = q[i - Len(p)]
    BY <1>1, <1>4, <1>8
  <2> QED BY <2>1, <1>3
<1> QED BY <1>1, <1>5, <1>6, <1>7, <1>8

\* A stretch of a queue has the members of that stretch.
LEMMA InSubSeq ==
    ASSUME NEW S, NEW q \in Seq(S), NEW m \in 1 .. Len(q) + 1, NEW n \in m - 1 .. Len(q), NEW y
    PROVE  /\ SubSeq(q, m, n) \in Seq(S)
           /\ Len(SubSeq(q, m, n)) = n - m + 1
           /\ In(y, SubSeq(q, m, n)) <=> \E i \in m .. n : q[i] = y
<1>1. /\ SubSeq(q, m, n) \in Seq(S)
      /\ Len(SubSeq(q, m, n)) = n - m + 1
      /\ \A i \in 1 .. n - m + 1 : SubSeq(q, m, n)[i] = q[m + i - 1]
  BY SubSeqProperties, LenProperties
<1>2. Len(q) \in Nat
  BY LenProperties
<1>3. ASSUME NEW i \in m .. n, q[i] = y PROVE In(y, SubSeq(q, m, n))
  <2>1. i - m + 1 \in 1 .. n - m + 1 /\ SubSeq(q, m, n)[i - m + 1] = q[i]
    BY <1>1, <1>2
  <2> QED BY <2>1, <1>1, <1>3 DEF In
<1>4. ASSUME NEW i \in 1 .. n - m + 1, SubSeq(q, m, n)[i] = y PROVE \E j \in m .. n : q[j] = y
  <2>1. m + i - 1 \in m .. n
    BY <1>2
  <2> QED BY <2>1, <1>1, <1>4
<1> QED BY <1>1, <1>3, <1>4 DEF In

\* A stretch of distinct members has distinct members.
LEMMA DistinctSubSeq ==
    ASSUME NEW S, NEW q \in Seq(S), NEW m \in 1 .. Len(q) + 1, NEW n \in m - 1 .. Len(q),
           Distinct(q)
    PROVE  Distinct(SubSeq(q, m, n))
<1>1. /\ SubSeq(q, m, n) \in Seq(S)
      /\ Len(SubSeq(q, m, n)) = n - m + 1
      /\ \A i \in 1 .. n - m + 1 : SubSeq(q, m, n)[i] = q[m + i - 1]
  BY SubSeqProperties, LenProperties
<1>2. Len(q) \in Nat
  BY LenProperties
<1>3. SUFFICES ASSUME NEW i \in 1 .. n - m + 1, NEW j \in 1 .. n - m + 1,
                      q[m + i - 1] = q[m + j - 1]
               PROVE  i = j
  BY <1>1 DEF Distinct
<1>4. m + i - 1 \in 1 .. Len(q) /\ m + j - 1 \in 1 .. Len(q)
  BY <1>2
<1>5. m + i - 1 = m + j - 1
  BY <1>3, <1>4 DEF Distinct
<1> QED BY <1>5, <1>2

\* What is behind the i-th of distinct members.
LEMMA BehindProperties ==
    ASSUME NEW S, NEW q \in Seq(S), Distinct(q), NEW i \in 1 .. Len(q)
    PROVE  /\ Behind(q[i], q) \in Seq(S) /\ Distinct(Behind(q[i], q))
           /\ \A y : In(y, Behind(q[i], q)) <=> \E j \in i + 1 .. Len(q) : q[j] = y
<1>1. Len(q) \in Nat
  BY LenProperties
<1>2. (CHOOSE j \in 1 .. Len(q) : q[j] = q[i]) = i
  BY DEF Distinct
<1>3. Behind(q[i], q) = SubSeq(q, 1 + i, Len(q))
  BY <1>2, Zenon DEF Behind
<1>4. 1 + i = i + 1 /\ i + 1 \in 1 .. Len(q) + 1 /\ Len(q) \in (i + 1) - 1 .. Len(q)
  BY <1>1
<1> HIDE <1>2
<1>5. Behind(q[i], q) = SubSeq(q, i + 1, Len(q))
  BY <1>3, <1>4
<1>6. SubSeq(q, i + 1, Len(q)) \in Seq(S) /\ Distinct(SubSeq(q, i + 1, Len(q)))
  BY <1>4, InSubSeq, DistinctSubSeq
<1>7. \A y : In(y, SubSeq(q, i + 1, Len(q))) <=> \E j \in i + 1 .. Len(q) : q[j] = y
  BY <1>4, InSubSeq
<1> QED BY <1>5, <1>6, <1>7

-----------------------------------------------------------------------------
(* How often somebody is in a queue. *)

\* Somebody who is not in a queue occurs in it zero times; a member of a queue
\* of distinct members occurs once.
LEMMA OccursOnce ==
    ASSUME NEW S, NEW q \in Seq(S), NEW x
    PROVE  /\ ~In(x, q) => Occurs(x, q) = 0
           /\ Distinct(q) /\ In(x, q) => Occurs(x, q) = 1
<1> DEFINE P == {i \in 1 .. Len(q) : q[i] = x}
<1>1. ASSUME ~In(x, q) PROVE P = {}
  BY <1>1 DEF In
<1>2. ASSUME Distinct(q), In(x, q) PROVE \E i : P = {i}
  BY <1>2 DEF In, Distinct
<1> HIDE DEF P
<1>3. P = {} => Cardinality(P) = 0
  BY FS_EmptySet
<1>4. (\E i : P = {i}) => Cardinality(P) = 1
  BY FS_Singleton
<1>5. Occurs(x, q) = Cardinality(P)
  BY DEF Occurs, P
<1> QED BY <1>1, <1>2, <1>3, <1>4, <1>5

-----------------------------------------------------------------------------
(* The filter. *)

\* f counts up the members of S among the first n members of q.
Filters(f, q, S, n) ==
    f = [i \in 0 .. n |-> IF i = 0 THEN <<>>
                          ELSE IF q[i] \in S THEN Append(f[i - 1], q[i]) ELSE f[i - 1]]

\* The recursive function of Kept exists.
LEMMA FilterExists ==
    ASSUME NEW q, NEW S, Len(q) \in Nat
    PROVE  \E f : Filters(f, q, S, Len(q))
<1> DEFINE T == {n \in Nat : \E f : Filters(f, q, S, n)}
<1>1. 0 \in T
  <2>1. Filters([i \in 0 .. 0 |-> <<>>], q, S, 0)
    BY DEF Filters
  <2> QED BY <2>1
<1>2. ASSUME NEW n \in Nat, n \in T PROVE n + 1 \in T
  <2>1. PICK f : Filters(f, q, S, n)
    BY <1>2
  <2> DEFINE g == [i \in 0 .. n + 1 |->
                     IF i <= n THEN f[i]
                     ELSE IF q[n + 1] \in S THEN Append(f[n], q[n + 1]) ELSE f[n]]
             Step(h, i) == IF i = 0 THEN <<>>
                           ELSE IF q[i] \in S THEN Append(h[i - 1], q[i]) ELSE h[i - 1]
  <2>2. \A i \in 0 .. n : f[i] = Step(f, i)
    BY <2>1 DEF Filters
  <2>3. \A i \in 0 .. n : g[i] = f[i]
    OBVIOUS
  <2>4. g[n + 1] = IF q[n + 1] \in S THEN Append(f[n], q[n + 1]) ELSE f[n]
    OBVIOUS
  <2>5. ASSUME NEW i \in 0 .. n + 1 PROVE g[i] = Step(g, i)
    <3> HIDE DEF g
    <3>1. CASE i \in 0 .. n
      <4>1. i # 0 => i - 1 \in 0 .. n
        OBVIOUS
      <4> QED BY <3>1, <2>2, <2>3, <4>1
    <3>2. CASE i = n + 1
      <4>1. n \in 0 .. n /\ i # 0 /\ i - 1 = n
        BY <3>2
      <4> QED BY <3>2, <2>4, <2>3, <4>1
    <3> QED BY <3>1, <3>2
  <2>6. Filters(g, q, S, n + 1)
    BY <2>5 DEF Filters
  <2> HIDE DEF g
  <2> QED BY <2>6
<1> HIDE DEF T
<1>3. Nat \subseteq T
  BY <1>1, <1>2, NatInductionSet
<1> QED BY <1>3 DEF T

\* What is kept: the members of the queue that are in the set, in their order and
\* each as often as before; the first of it is the first such member.
LEMMA KeptProperties ==
    ASSUME NEW R, NEW q \in Seq(R), NEW S
    PROVE  /\ Kept(q, S) \in Seq(R)
           /\ Len(Kept(q, S)) <= Len(q)
           /\ \A x : In(x, Kept(q, S)) <=> In(x, q) /\ x \in S
           /\ Distinct(q) => Distinct(Kept(q, S))
           /\ Kept(q, S) # <<>> =>
                \E i \in 1 .. Len(q) : /\ q[i] \in S /\ Head(Kept(q, S)) = q[i]
                                       /\ \A j \in 1 .. i - 1 : q[j] \notin S
<1> DEFINE f == CHOOSE h : Filters(h, q, S, Len(q))
<1>0. Len(q) \in Nat /\ \A i \in 1 .. Len(q) : q[i] \in R
  BY LenProperties, ElementOfSeq
<1>1. Filters(f, q, S, Len(q))
  BY <1>0, FilterExists
<1>2. Kept(q, S) = f[Len(q)]
  BY DEF Kept, Filters
<1> HIDE DEF f
<1>3. f[0] = <<>>
  BY <1>0, <1>1 DEF Filters
<1>4. \A i \in 1 .. Len(q) : f[i] = IF q[i] \in S THEN Append(f[i - 1], q[i]) ELSE f[i - 1]
  <2>1. \A i \in 0 .. Len(q) : f[i] = IF i = 0 THEN <<>>
                               ELSE IF q[i] \in S THEN Append(f[i - 1], q[i]) ELSE f[i - 1]
    BY <1>1 DEF Filters
  <2> QED BY <2>1, <1>0
<1> DEFINE Good(n) ==
             /\ f[n] \in Seq(R)
             /\ Len(f[n]) <= n
             /\ \A x : In(x, f[n]) <=> x \in S /\ \E i \in 1 .. n : q[i] = x
             /\ Distinct(q) => Distinct(f[n])
             /\ f[n] = <<>> \/ \E i \in 1 .. n : /\ q[i] \in S /\ Head(f[n]) = q[i]
                                                 /\ \A j \in 1 .. i - 1 : q[j] \notin S
           T == {n \in Nat : n <= Len(q) => Good(n)}
<1>5. 0 \in T
  <2>1. <<>> \in Seq(R) /\ Len(<<>>) = 0
    OBVIOUS
  <2>2. Good(0)
    BY <1>3, <2>1 DEF In, Distinct
  <2> QED BY <2>2
<1>6. ASSUME NEW n \in Nat, n \in T PROVE n + 1 \in T
  <2>1. SUFFICES ASSUME n + 1 <= Len(q) PROVE Good(n + 1)
    OBVIOUS
  <2>2. Good(n)
    BY <1>6, <2>1, <1>0
  <2>3. n + 1 \in 1 .. Len(q) /\ (n + 1) - 1 = n
    BY <2>1, <1>0
  <2>4. CASE q[n + 1] \in S
    <3>1. f[n + 1] = Append(f[n], q[n + 1])
      BY <1>4, <2>3, <2>4
    <3>2. q[n + 1] \in R /\ f[n] \in Seq(R)
      BY <1>0, <2>2, <2>3
    <3>3. f[n + 1] \in Seq(R) /\ Len(f[n + 1]) = Len(f[n]) + 1 /\ Len(f[n]) \in Nat
      BY <3>1, <3>2
    <3>4. \A x : In(x, f[n + 1]) <=> In(x, f[n]) \/ x = q[n + 1]
      BY <3>1, <3>2, InAppend
    <3>5. \A x : (\E i \in 1 .. n + 1 : q[i] = x) <=> (\E i \in 1 .. n : q[i] = x) \/ x = q[n + 1]
      OBVIOUS
    <3>6. \A x : In(x, f[n + 1]) <=> x \in S /\ \E i \in 1 .. n + 1 : q[i] = x
      BY <2>2, <2>4, <3>4, <3>5
    <3>7. Distinct(q) => Distinct(f[n + 1])
      <4>1. ASSUME Distinct(q) PROVE ~In(q[n + 1], f[n])
        <5>1. ASSUME NEW i \in 1 .. n PROVE q[i] # q[n + 1]
          <6>1. i \in 1 .. Len(q) /\ i # n + 1
            BY <2>3, <1>0
          <6> QED BY <4>1, <6>1, <2>3 DEF Distinct
        <5> QED BY <5>1, <2>2
      <4> QED BY <4>1, <2>2, <3>1, <3>2, DistinctAppend
    <3>8. \E i \in 1 .. n + 1 : /\ q[i] \in S /\ Head(f[n + 1]) = q[i]
                                /\ \A j \in 1 .. i - 1 : q[j] \notin S
      <4>1. CASE f[n] = <<>>
        <5>1. Head(f[n + 1]) = q[n + 1]
          BY <3>1, <3>2, <4>1
        <5>2. ASSUME NEW j \in 1 .. n PROVE q[j] \notin S
          <6>1. ~In(q[j], f[n])
            BY <4>1 DEF In
          <6> QED BY <6>1, <2>2
        <5> QED BY <5>1, <5>2, <2>4
      <4>2. CASE f[n] # <<>>
        <5>1. Head(f[n + 1]) = Head(f[n])
          BY <3>1, <3>2, <4>2
        <5>2. PICK i \in 1 .. n : /\ q[i] \in S /\ Head(f[n]) = q[i]
                                  /\ \A j \in 1 .. i - 1 : q[j] \notin S
          BY <2>2, <4>2
        <5>3. i \in 1 .. n + 1
          OBVIOUS
        <5> QED BY <5>1, <5>2, <5>3
      <4> QED BY <4>1, <4>2
    <3>9. Len(f[n + 1]) <= n + 1
      BY <3>3, <2>2
    <3> QED BY <3>3, <3>6, <3>7, <3>8, <3>9
  <2>5. CASE q[n + 1] \notin S
    <3>1. f[n + 1] = f[n]
      BY <1>4, <2>3, <2>5
    <3>2. \A x : x \in S => ((\E i \in 1 .. n + 1 : q[i] = x) <=> (\E i \in 1 .. n : q[i] = x))
      BY <2>5
    <3>3. Len(f[n]) <= n + 1
      <4>1. Len(f[n]) \in Nat
        BY <2>2, LenProperties
      <4> QED BY <4>1, <2>2
    <3>4. f[n] = <<>> \/ \E i \in 1 .. n + 1 : /\ q[i] \in S /\ Head(f[n]) = q[i]
                                               /\ \A j \in 1 .. i - 1 : q[j] \notin S
      BY <2>2
    <3> QED BY <2>2, <3>1, <3>2, <3>3, <3>4
  <2> QED BY <2>4, <2>5
<1> HIDE DEF T
<1>7. Nat \subseteq T
  BY <1>5, <1>6, NatInductionSet
<1>8. Len(q) \in T
  BY <1>0, <1>7
<1> HIDE DEF Good
<1>9. Good(Len(q))
  BY <1>0, <1>8 DEF T
<1> QED BY <1>2, <1>9 DEF Good, In

\* The last member of the queue stays the last one if it is kept.
LEMMA KeptLast ==
    ASSUME NEW R, NEW q \in Seq(R), NEW S, q # <<>>, q[Len(q)] \in S
    PROVE  /\ Len(Kept(q, S)) \in Nat \ {0}
           /\ Kept(q, S)[Len(Kept(q, S))] = q[Len(q)]
<1> DEFINE f == CHOOSE h : Filters(h, q, S, Len(q))
<1>0. Len(q) \in Nat \ {0} /\ Len(q) - 1 \in Nat /\ q[Len(q)] \in R
  BY LenProperties, ElementOfSeq, EmptySeq
<1>1. Filters(f, q, S, Len(q))
  BY <1>0, FilterExists
<1>2. Kept(q, S) = f[Len(q)]
  BY DEF Kept, Filters
<1> HIDE DEF f
<1>3. f[Len(q)] = Append(f[Len(q) - 1], q[Len(q)])
  <2>1. \A i \in 0 .. Len(q) : f[i] = IF i = 0 THEN <<>>
                               ELSE IF q[i] \in S THEN Append(f[i - 1], q[i]) ELSE f[i - 1]
    BY <1>1 DEF Filters
  <2>2. Len(q) \in 0 .. Len(q) /\ Len(q) # 0
    BY <1>0
  <2>3. f[Len(q)] = IF q[Len(q)] \in S THEN Append(f[Len(q) - 1], q[Len(q)]) ELSE f[Len(q) - 1]
    BY <2>1, <2>2
  <2> QED BY <2>3
\* f before the last place is the filter of the queue without its last member.
<1>4. f[Len(q) - 1] \in Seq(R)
  <2> DEFINE T == {k \in Nat : k <= Len(q) => f[k] \in Seq(R)}
  <2>1. \A i \in 0 .. Len(q) : f[i] = IF i = 0 THEN <<>>
                               ELSE IF q[i] \in S THEN Append(f[i - 1], q[i]) ELSE f[i - 1]
    BY <1>1 DEF Filters
  <2>2. 0 \in T
    <3>1. f[0] = <<>> /\ <<>> \in Seq(R)
      BY <1>0, <1>1 DEF Filters
    <3> QED BY <3>1
  <2>3. ASSUME NEW k \in Nat, k \in T PROVE k + 1 \in T
    <3>1. SUFFICES ASSUME k + 1 <= Len(q) PROVE f[k + 1] \in Seq(R)
      OBVIOUS
    <3>2. k + 1 \in 1 .. Len(q) /\ f[k] \in Seq(R) /\ (k + 1) - 1 = k /\ q[k + 1] \in R
      <4>1. k + 1 \in 1 .. Len(q) /\ k <= Len(q)
        BY <3>1, <1>0
      <4> QED BY <4>1, <2>3, ElementOfSeq
    <3>3. f[k + 1] = IF q[k + 1] \in S THEN Append(f[k], q[k + 1]) ELSE f[k]
      <4>1. k + 1 \in 0 .. Len(q) /\ k + 1 # 0
        BY <3>2
      <4> QED BY <2>1, <4>1, <3>2
    <3> QED BY <3>2, <3>3
  <2> HIDE DEF T
  <2>4. Nat \subseteq T
    BY <2>2, <2>3, NatInductionSet
  <2> QED BY <2>4, <1>0 DEF T
<1> QED BY <1>0, <1>2, <1>3, <1>4, AppendProperties, LenProperties

-----------------------------------------------------------------------------
(* Indices of rings. *)

\* The remainder, spelled out.
LEMMA DivMod ==
    ASSUME NEW a \in Nat, NEW m \in Nat \ {0}
    PROVE  /\ a % m \in 0 .. m - 1 /\ a \div m \in Nat
           /\ a = m * (a \div m) + (a % m)
OBVIOUS

\* Only 0 is a multiple of m between -m and m.
LEMMA NoMultiple ==
    ASSUME NEW m \in Nat \ {0}, NEW k \in Int, -m < m * k, m * k < m
    PROVE  k = 0
<1>1. CASE k >= 1
  <2>1. m * k >= m
    BY <1>1
  <2> QED BY <2>1
<1>2. CASE k <= -1
  <2>1. m * k <= -m
    BY <1>2
  <2> QED BY <2>1
<1> QED BY <1>1, <1>2

\* The remainder of an index that went round at most once.
LEMMA ModOnce ==
    ASSUME NEW m \in Nat \ {0}, NEW a \in Nat, a < 2 * m
    PROVE  a % m = IF a < m THEN a ELSE a - m
<1> DEFINE d == a \div m
<1>1. a % m \in 0 .. m - 1 /\ d \in Nat /\ a = m * d + (a % m)
  BY DivMod
<1> HIDE DEF d
<1>2. CASE a < m
  <2>1. d = 0
    <3>1. -m < m * d /\ m * d < m
      BY <1>1, <1>2
    <3> QED BY <1>1, <3>1, NoMultiple
  <2> QED BY <1>1, <1>2, <2>1
<1>3. CASE a >= m
  <2>1. d = 1
    <3>1. m * (d - 1) = m * d - m
      BY <1>1
    <3>2. -m < m * (d - 1) /\ m * (d - 1) < m
      BY <1>1, <1>3, <3>1
    <3>3. d - 1 = 0
      BY <1>1, <3>2, NoMultiple
    <3> QED BY <1>1, <3>3
  <2> QED BY <1>1, <1>3, <2>1
<1> QED BY <1>2, <1>3
=============================================================================
