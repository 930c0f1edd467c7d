--------------------------- MODULE StorageProofs ---------------------------
(***************************************************************************)
(* Proofs about the virtqueue and the block driver, for any queue size and *)
(* any ring counters, any number of callers and any time-outs: descriptors *)
(* are conserved, each time-out leaves exactly one request behind, no      *)
(* notification is lost, and until something times out the driver          *)
(* implements the abstract disk of module BlockDevice.                     *)
(***************************************************************************)
EXTENDS VirtioBlk, QueueLemmas

-----------------------------------------------------------------------------
(* Ring indices. *)

\* Indices add up and differ modulo IdxMod.
LEMMA IndexArith ==
    ASSUME NEW i \in Indices, NEW j \in Indices
    PROVE  /\ Minus(i, j) \in Indices /\ Plus(i, 1) \in Indices
           /\ Minus(i, j) = IF j <= i THEN i - j ELSE i + IdxMod - j
           /\ Plus(i, 1) = IF i = IdxMod - 1 THEN 0 ELSE i + 1
<1>1. IdxMod \in Nat \ {0} /\ i \in 0 .. IdxMod - 1 /\ j \in 0 .. IdxMod - 1
  BY QueueAssumption DEF Indices
<1>2. (i + IdxMod - j) % IdxMod = IF i + IdxMod - j < IdxMod THEN i + IdxMod - j ELSE i + IdxMod - j - IdxMod
  <2> DEFINE a == i + IdxMod - j
  <2>1. a \in Nat /\ a < 2 * IdxMod
    BY <1>1
  <2> HIDE DEF a
  <2>2. a % IdxMod = IF a < IdxMod THEN a ELSE a - IdxMod
    BY <1>1, <2>1, ModOnce
  <2> QED BY <1>1, <2>2 DEF a
<1>3. (i + 1) % IdxMod = IF i + 1 < IdxMod THEN i + 1 ELSE i + 1 - IdxMod
  <2> DEFINE a == i + 1
  <2>1. a \in Nat /\ a < 2 * IdxMod
    BY <1>1
  <2> HIDE DEF a
  <2>2. a % IdxMod = IF a < IdxMod THEN a ELSE a - IdxMod
    BY <1>1, <2>1, ModOnce
  <2> QED BY <1>1, <2>2 DEF a
<1> QED BY <1>1, <1>2, <1>3 DEF Minus, Plus, Indices

\* A window grows at its end and shrinks at its start by one index.
LEMMA WindowGrows ==
    ASSUME NEW from \in Indices, NEW to \in Indices, Minus(to, from) < IdxMod - 1
    PROVE  /\ Window(from, Plus(to, 1)) = Window(from, to) \cup {to} /\ to \notin Window(from, to)
           /\ Minus(Plus(to, 1), from) = Minus(to, from) + 1
<1>1. IdxMod \in Nat \ {0} /\ from \in 0 .. IdxMod - 1 /\ to \in 0 .. IdxMod - 1
  BY QueueAssumption DEF Indices
<1>2. /\ Plus(to, 1) \in Indices /\ Plus(to, 1) = IF to = IdxMod - 1 THEN 0 ELSE to + 1
      /\ Minus(to, from) = IF from <= to THEN to - from ELSE to + IdxMod - from
  BY IndexArith
<1>3. Minus(Plus(to, 1), from) = IF from <= Plus(to, 1) THEN Plus(to, 1) - from ELSE Plus(to, 1) + IdxMod - from
  BY <1>2, IndexArith
<1>4. Minus(Plus(to, 1), from) = Minus(to, from) + 1
  BY <1>1, <1>2, <1>3
<1>5. ASSUME NEW i \in Indices
      PROVE  Minus(i, from) \in Nat /\ (Minus(i, from) = Minus(to, from) <=> i = to)
  <2>1. i \in 0 .. IdxMod - 1 /\ Minus(i, from) = IF from <= i THEN i - from ELSE i + IdxMod - from
    BY IndexArith DEF Indices
  <2> QED BY <1>1, <1>2, <2>1
<1>6. Minus(to, from) \in Nat
  BY <1>5
<1> QED BY <1>4, <1>5, <1>6 DEF Window

LEMMA WindowShrinks ==
    ASSUME NEW from \in Indices, NEW to \in Indices, from # to
    PROVE  /\ from \in Window(from, to) /\ Window(Plus(from, 1), to) = Window(from, to) \ {from}
           /\ Minus(to, Plus(from, 1)) = Minus(to, from) - 1 /\ Plus(from, 1) \in Indices
<1>1. IdxMod \in Nat \ {0} /\ from \in 0 .. IdxMod - 1 /\ to \in 0 .. IdxMod - 1
  BY QueueAssumption DEF Indices
<1>2. /\ Plus(from, 1) \in Indices /\ Plus(from, 1) = IF from = IdxMod - 1 THEN 0 ELSE from + 1
      /\ Minus(to, from) = IF from <= to THEN to - from ELSE to + IdxMod - from
      /\ Minus(from, from) = 0
  BY <1>1, IndexArith
<1>3. ASSUME NEW i \in Indices, i # from
      PROVE  Minus(i, from) \in Nat /\ Minus(i, Plus(from, 1)) = Minus(i, from) - 1
  <2>1. i \in 0 .. IdxMod - 1 /\ Minus(i, from) = IF from <= i THEN i - from ELSE i + IdxMod - from
    BY IndexArith DEF Indices
  <2>2. Minus(i, Plus(from, 1)) = IF Plus(from, 1) <= i THEN i - Plus(from, 1) ELSE i + IdxMod - Plus(from, 1)
    BY <1>2, IndexArith
  <2> QED BY <1>1, <1>2, <1>3, <2>1, <2>2
<1>4. Minus(from, Plus(from, 1)) = IdxMod - 1
  <2>1. Minus(from, Plus(from, 1)) = IF Plus(from, 1) <= from THEN from - Plus(from, 1) ELSE from + IdxMod - Plus(from, 1)
    BY <1>2, IndexArith
  <2> QED BY <1>1, <1>2, <2>1
<1>5. Minus(to, Plus(from, 1)) = Minus(to, from) - 1 /\ Minus(to, from) \in 1 .. IdxMod - 1
  BY <1>1, <1>2, <1>3
<1>6. ASSUME NEW i \in Indices
      PROVE  i \in Window(Plus(from, 1), to) <=> i \in Window(from, to) /\ i # from
  <2>1. CASE i = from
    BY <1>1, <1>4, <1>5, <2>1 DEF Window
  <2>2. CASE i # from
    BY <1>3, <1>5, <2>2 DEF Window
  <2> QED BY <2>1, <2>2
<1>7. from \in Window(from, to)
  BY <1>2, <1>5 DEF Window
<1>8. Window(Plus(from, 1), to) \subseteq Indices /\ Window(from, to) \subseteq Indices
  BY DEF Window
<1> QED BY <1>2, <1>5, <1>6, <1>7, <1>8

\* A window is empty exactly if it ends where it starts.
LEMMA WindowEmpty ==
    ASSUME NEW from \in Indices, NEW to \in Indices
    PROVE  Window(from, to) = {} <=> from = to
<1>1. IdxMod \in Nat \ {0} /\ from \in 0 .. IdxMod - 1 /\ to \in 0 .. IdxMod - 1
  BY QueueAssumption DEF Indices
<1>2. CASE from = to
  <2>1. Minus(to, from) = 0
    BY <1>1, <1>2, IndexArith
  <2>2. ASSUME NEW i \in Indices PROVE Minus(i, from) >= 0
    BY IndexArith DEF Indices
  <2>3. ASSUME NEW i \in Window(from, to) PROVE FALSE
    <3>1. i \in Indices /\ Minus(i, from) < Minus(to, from)
      BY DEF Window
    <3>2. Minus(i, from) \in 0 .. IdxMod - 1
      BY <3>1, IndexArith DEF Indices
    <3> QED BY <2>1, <3>1, <3>2
  <2> QED BY <1>2, <2>3
<1>3. CASE from # to
  BY <1>3, WindowShrinks
<1> QED BY <1>2, <1>3

\* The indices of a window that is no longer than the ring fall into different slots.
LEMMA SlotsApart ==
    ASSUME NEW from \in Indices, NEW i \in Indices, NEW j \in Indices,
           Minus(i, from) < QSize, Minus(j, from) < QSize, i % QSize = j % QSize
    PROVE  i = j
<1>1. /\ IdxMod \in Nat \ {0} /\ QSize \in Nat \ {0} /\ IdxMod % QSize = 0
      /\ from \in 0 .. IdxMod - 1 /\ i \in 0 .. IdxMod - 1 /\ j \in 0 .. IdxMod - 1
  BY QueueAssumption DEF Indices
<1>2. PICK k \in Nat : IdxMod = QSize * k
  <2>1. IdxMod = QSize * (IdxMod \div QSize) + (IdxMod % QSize) /\ IdxMod \div QSize \in Nat
    BY <1>1, DivMod
  <2> QED BY <1>1, <2>1
<1>3. PICK a \in Nat, r \in Nat : i = QSize * a + r /\ r = i % QSize
  <2>1. i = QSize * (i \div QSize) + (i % QSize) /\ i \div QSize \in Nat /\ i % QSize \in Nat
    BY <1>1, DivMod
  <2> QED BY <2>1
<1>4. PICK b \in Nat : j = QSize * b + r
  <2>1. j = QSize * (j \div QSize) + (j % QSize) /\ j \div QSize \in Nat
    BY <1>1, DivMod
  <2> QED BY <1>3, <2>1
<1>5. PICK x \in {0, 1} : Minus(i, from) = i - from + x * IdxMod
  <2>1. Minus(i, from) = IF from <= i THEN i - from ELSE i + IdxMod - from
    BY IndexArith
  <2> QED BY <1>1, <2>1
<1>6. PICK y \in {0, 1} : Minus(j, from) = j - from + y * IdxMod
  <2>1. Minus(j, from) = IF from <= j THEN j - from ELSE j + IdxMod - from
    BY IndexArith
  <2> QED BY <1>1, <2>1
<1>7. Minus(i, from) \in 0 .. QSize - 1 /\ Minus(j, from) \in 0 .. QSize - 1
  <2>1. Minus(i, from) \in 0 .. IdxMod - 1 /\ Minus(j, from) \in 0 .. IdxMod - 1
    BY IndexArith DEF Indices
  <2> QED BY <1>1, <2>1
<1> DEFINE m == a - b + x * k - y * k
<1>8. m \in Int /\ QSize * m = Minus(i, from) - Minus(j, from)
  <2>1. QSize * m = QSize * a - QSize * b + x * (QSize * k) - y * (QSize * k)
    BY <1>1, <1>2, <1>3, <1>4, <1>5, <1>6
  <2>2. QSize * a - QSize * b = i - j
    BY <1>1, <1>3, <1>4
  <2>3. QSize * m = (i - j) + x * IdxMod - y * IdxMod
    BY <1>1, <1>2, <2>1, <2>2
  <2> QED BY <1>1, <1>5, <1>6, <2>3
<1> HIDE DEF m
<1>9. m = 0
  BY <1>1, <1>7, <1>8, NoMultiple
<1>10. Minus(i, from) = Minus(j, from)
  BY <1>1, <1>7, <1>8, <1>9
<1> QED BY <1>1, <1>5, <1>6, <1>10

\* Entries that differ, and are all of T, are no more than T has members.
LEMMA WindowFits ==
    ASSUME NEW from \in Indices, NEW to \in Indices, NEW T, IsFiniteSet(T), NEW g,
           \A i \in Window(from, to) : g[i] \in T,
           \A i, j \in Window(from, to) : g[i] = g[j] => i = j
    PROVE  Minus(to, from) <= Cardinality(T)
<1> DEFINE n == Minus(to, from)
           at(k) == IF from + k - 1 < IdxMod THEN from + k - 1 ELSE from + k - 1 - IdxMod
           f == [k \in 1 .. n |-> g[at(k)]]
<1>1. IdxMod \in Nat \ {0} /\ from \in 0 .. IdxMod - 1 /\ n \in 0 .. IdxMod - 1
  BY QueueAssumption, IndexArith DEF Indices
<1>2. ASSUME NEW k \in 1 .. n PROVE at(k) \in Window(from, to) /\ Minus(at(k), from) = k - 1
  <2>1. at(k) \in Indices
    BY <1>1 DEF Indices
  <2>2. Minus(at(k), from) = IF from <= at(k) THEN at(k) - from ELSE at(k) + IdxMod - from
    BY <2>1, IndexArith
  <2>3. Minus(at(k), from) = k - 1
    BY <1>1, <2>2
  <2> HIDE DEF at
  <2> QED BY <1>1, <2>1, <2>3 DEF Window
<1> HIDE DEF at
<1>3. f \in [1 .. n -> T]
  BY <1>2
<1>4. \A k, l \in 1 .. n : f[k] = f[l] => k = l
  <2>1. ASSUME NEW k \in 1 .. n, NEW l \in 1 .. n, f[k] = f[l] PROVE k = l
    <3>1. at(k) = at(l)
      BY <1>2, <2>1
    <3>2. k - 1 = l - 1
      BY <1>2, <3>1
    <3> QED BY <1>1, <3>2
  <2> QED BY <2>1
<1> HIDE DEF f
<1>5. f \in Injection(1 .. n, T)
  BY <1>3, <1>4 DEF Injection, IsInjective
<1>6. n \in Nat
  BY <1>1
<1> HIDE DEF n
<1>7. IsFiniteSet(1 .. n) /\ Cardinality(1 .. n) = n
  <2>1. /\ IsFiniteSet(1 .. n)
        /\ Cardinality(1 .. n) = IF 1 > n THEN 0 ELSE n - 1 + 1
    <3>1. 1 \in Int /\ n \in Int
      BY <1>6
    <3> QED BY <3>1, FS_Interval
  <2> QED BY <1>6, <2>1
<1>8. n <= Cardinality(T)
  BY <1>5, <1>7, FS_Injection
<1> QED BY <1>8 DEF n

-----------------------------------------------------------------------------
(* Chains of descriptors. *)

\* The walk of Chain, as a fact about a function.
Walks(f, Q, d) ==
    f = [i \in 1 .. QSize + 1 |->
            IF i = 1 THEN <<d>>
            ELSE IF Q.desc[Last(f[i - 1])].more THEN Append(f[i - 1], Q.desc[Last(f[i - 1])].next)
            ELSE f[i - 1]]

\* The walk along a chain takes the pieces of the chain that start at its head.
LEMMA WalkOfChain ==
    ASSUME NEW Q, NEW w, IsChain(Q, w)
    PROVE  Walks([i \in 1 .. QSize + 1 |-> SubSeq(w, 1, IF i <= Len(w) THEN i ELSE Len(w))], Q, w[1])
<1> DEFINE N == Len(w)
           g == [i \in 1 .. QSize + 1 |-> SubSeq(w, 1, IF i <= N THEN i ELSE N)]
<1>1. /\ w \in Seq(Descs) /\ N \in 1 .. QSize /\ QSize \in Nat \ {0}
      /\ \A i \in 1 .. N : Q.desc[w[i]].more <=> i < N
      /\ \A i \in 1 .. N - 1 : Q.desc[w[i]].next = w[i + 1]
  BY QueueAssumption DEF IsChain
<1>2. \A i \in 1 .. N : w[i] \in Descs
  BY <1>1, ElementOfSeq
<1>3. ASSUME NEW n \in 1 .. N
      PROVE  /\ SubSeq(w, 1, n) \in Seq(Descs) /\ Len(SubSeq(w, 1, n)) = n
             /\ \A i \in 1 .. n : SubSeq(w, 1, n)[i] = w[i]
  <2>1. \A i \in 1 .. n : w[i] \in Descs
    BY <1>1, <1>2
  <2>2. /\ SubSeq(w, 1, n) \in Seq(Descs) /\ Len(SubSeq(w, 1, n)) = IF 1 <= n THEN n - 1 + 1 ELSE 0
        /\ \A i \in 1 .. n - 1 + 1 : SubSeq(w, 1, n)[i] = w[1 + i - 1]
    BY <1>1, <2>1, SubSeqProperties
  <2> QED BY <1>1, <2>2
<1>4. g[1] = <<w[1]>>
  <2>1. g[1] = SubSeq(w, 1, 1)
    BY <1>1
  <2>2. <<w[1]>> \in Seq(Descs) /\ Len(<<w[1]>>) = 1 /\ <<w[1]>>[1] = w[1]
    BY <1>1, <1>2
  <2>3. SubSeq(w, 1, 1) \in Seq(Descs) /\ Len(SubSeq(w, 1, 1)) = 1 /\ SubSeq(w, 1, 1)[1] = w[1]
    BY <1>1, <1>3
  <2>4. /\ Len(SubSeq(w, 1, 1)) = Len(<<w[1]>>)
        /\ \A i \in 1 .. Len(SubSeq(w, 1, 1)) : SubSeq(w, 1, 1)[i] = <<w[1]>>[i]
    BY <2>2, <2>3
  <2>5. SubSeq(w, 1, 1) = <<w[1]>>
    BY <2>2, <2>3, <2>4, SeqEqual
  <2> QED BY <2>1, <2>5
<1>5. ASSUME NEW i \in 2 .. QSize + 1
      PROVE  g[i] = IF Q.desc[Last(g[i - 1])].more THEN Append(g[i - 1], Q.desc[Last(g[i - 1])].next)
                    ELSE g[i - 1]
  <2>1. CASE i <= N
    <3>1. i - 1 \in 1 .. N /\ i - 1 \in 1 .. QSize + 1 /\ i \in 1 .. N
      BY <1>1, <2>1
    <3>2. g[i - 1] = SubSeq(w, 1, i - 1) /\ g[i] = SubSeq(w, 1, i)
      BY <1>1, <2>1, <3>1
    <3>3. Last(g[i - 1]) = w[i - 1]
      BY <1>3, <3>1, <3>2 DEF Last
    <3>4. Q.desc[w[i - 1]].more /\ Q.desc[w[i - 1]].next = w[i]
      BY <1>1, <2>1, <3>1
    <3>5. SubSeq(w, 1, i) = Append(SubSeq(w, 1, i - 1), w[i])
      <4> DEFINE a == SubSeq(w, 1, i - 1)
      <4>1. a \in Seq(Descs) /\ Len(a) = i - 1 /\ \A j \in 1 .. i - 1 : a[j] = w[j]
        BY <1>3, <3>1
      <4> HIDE DEF a
      <4>2. /\ Append(a, w[i]) \in Seq(Descs) /\ Len(Append(a, w[i])) = i
            /\ \A j \in 1 .. i - 1 : Append(a, w[i])[j] = w[j]
            /\ Append(a, w[i])[i] = w[i]
        BY <1>2, <3>1, <4>1, AppendProperties
      <4>3. SubSeq(w, 1, i) \in Seq(Descs) /\ Len(SubSeq(w, 1, i)) = i
            /\ \A j \in 1 .. i : SubSeq(w, 1, i)[j] = w[j]
        BY <1>3, <3>1
      <4>4. \A j \in 1 .. i : SubSeq(w, 1, i)[j] = Append(a, w[i])[j]
        BY <4>2, <4>3
      <4>5. SubSeq(w, 1, i) = Append(a, w[i])
        BY <4>2, <4>3, <4>4, SeqEqual
      <4> QED BY <4>5 DEF a
    <3> HIDE DEF g
    <3> QED BY <3>2, <3>3, <3>4, <3>5
  <2>2. CASE ~(i <= N)
    <3>1. i - 1 \in 1 .. QSize + 1 /\ N \in 1 .. N /\ i \in 1 .. QSize + 1
      BY <1>1, <2>2
    <3>2. g[i - 1] = SubSeq(w, 1, N) /\ g[i] = SubSeq(w, 1, N)
      BY <1>1, <2>2, <3>1
    <3>3. Last(g[i - 1]) = w[N]
      BY <1>3, <3>1, <3>2 DEF Last
    <3>4. ~Q.desc[w[N]].more
      BY <1>1, <3>1
    <3> HIDE DEF g
    <3> QED BY <3>2, <3>3, <3>4
  <2> QED BY <2>1, <2>2
<1> DEFINE h == [i \in 1 .. QSize + 1 |->
            IF i = 1 THEN <<w[1]>>
            ELSE IF Q.desc[Last(g[i - 1])].more THEN Append(g[i - 1], Q.desc[Last(g[i - 1])].next)
            ELSE g[i - 1]]
<1>6. \A i \in 1 .. QSize + 1 : g[i] = h[i]
  <2> HIDE DEF g
  <2>1. \A i \in 1 .. QSize + 1 : i = 1 \/ i \in 2 .. QSize + 1
    BY <1>1
  <2> QED BY <1>4, <1>5, <2>1
<1>7. g = h
  <2>1. g = [i \in 1 .. QSize + 1 |-> g[i]] /\ h = [i \in 1 .. QSize + 1 |-> h[i]]
    OBVIOUS
  <2> HIDE DEF g, h
  <2> QED BY <1>6, <2>1
<1> HIDE DEF g
<1>8. Walks(g, Q, w[1])
  BY <1>7 DEF Walks
<1> QED BY <1>8 DEF g

\* Chain finds the chain that starts at the head.
LEMMA ChainIs ==
    ASSUME NEW Q, NEW w, IsChain(Q, w)
    PROVE  Chain(Q, w[1]) = w
<1> DEFINE N == Len(w)
           g == [i \in 1 .. QSize + 1 |-> SubSeq(w, 1, IF i <= N THEN i ELSE N)]
           f == CHOOSE e : Walks(e, Q, w[1])
           T == {n \in Nat : n + 1 \in 1 .. QSize + 1 => f[n + 1] = g[n + 1]}
<1>1. w \in Seq(Descs) /\ N \in 1 .. QSize /\ QSize \in Nat \ {0}
  BY QueueAssumption DEF IsChain
<1>2. Walks(g, Q, w[1])
  BY WalkOfChain
<1>3. g[QSize + 1] = w
  <2>1. g[QSize + 1] = SubSeq(w, 1, N)
    BY <1>1
  <2> QED BY <1>1, <2>1, SubSeqFull
<1> HIDE DEF g
<1>4. Walks(f, Q, w[1])
  BY <1>2
<1>5. Chain(Q, w[1]) = f[QSize + 1]
  BY DEF Chain, Walks
<1> HIDE DEF f
<1>6. ASSUME NEW i \in 1 .. QSize + 1
      PROVE  /\ i = 1 => f[i] = g[i]
             /\ i # 1 /\ f[i - 1] = g[i - 1] => f[i] = g[i]
  <2>1. f[i] = IF i = 1 THEN <<w[1]>>
               ELSE IF Q.desc[Last(f[i - 1])].more THEN Append(f[i - 1], Q.desc[Last(f[i - 1])].next)
               ELSE f[i - 1]
    BY <1>4, Zenon DEF Walks
  <2>2. g[i] = IF i = 1 THEN <<w[1]>>
               ELSE IF Q.desc[Last(g[i - 1])].more THEN Append(g[i - 1], Q.desc[Last(g[i - 1])].next)
               ELSE g[i - 1]
    BY <1>2, Zenon DEF Walks
  <2>3. ASSUME i = 1 PROVE f[i] = g[i]
    BY <2>1, <2>2, <2>3, Zenon
  <2>4. ASSUME i # 1, f[i - 1] = g[i - 1] PROVE f[i] = g[i]
    BY <2>1, <2>2, <2>4, Zenon
  <2> QED BY <2>3, <2>4
<1>7. 0 \in T
  BY <1>1, <1>6
<1>8. \A n \in Nat : n \in T => n + 1 \in T
  <2>1. ASSUME NEW n \in Nat, n \in T, n + 1 + 1 \in 1 .. QSize + 1 PROVE f[n + 1 + 1] = g[n + 1 + 1]
    <3>1. n + 1 \in 1 .. QSize + 1 /\ n + 1 + 1 # 1 /\ n + 1 + 1 - 1 = n + 1
      BY <1>1, <2>1
    <3>2. f[n + 1] = g[n + 1]
      BY <2>1, <3>1
    <3> QED BY <1>6, <2>1, <3>1, <3>2
  <2> QED BY <2>1
<1>9. Nat \subseteq T
  <2> HIDE DEF T
  <2> QED BY <1>7, <1>8, NatInductionSet
<1>10. f[QSize + 1] = g[QSize + 1]
  <2>1. QSize \in T
    BY <1>1, <1>9
  <2> QED BY <1>1, <2>1
<1> QED BY <1>3, <1>5, <1>10

-----------------------------------------------------------------------------
(* The queue as a record, and its operations field by field. *)

LEMMA QueueParts ==
    ASSUME NEW Q \in QueueType
    PROVE  /\ Q = [free |-> Q.free, nextAvail |-> Q.nextAvail, nextUsed |-> Q.nextUsed,
                   lastNotify |-> Q.lastNotify, token |-> Q.token, desc |-> Q.desc, avail |-> Q.avail,
                   used |-> Q.used, usedIdx |-> Q.usedIdx, noNotify |-> Q.noNotify]
           /\ Q.free \in Seq(Descs) /\ Q.nextAvail \in Indices /\ Q.nextUsed \in Indices
           /\ Q.lastNotify \in Nat /\ Q.token \in [Descs -> Nat] /\ Q.desc \in [Descs -> Descriptor]
           /\ Q.avail \in [Descs -> Descs] /\ Q.used \in [Descs -> [id : Descs, len : Nat]]
           /\ Q.usedIdx \in Indices /\ Q.noNotify \in BOOLEAN
BY DEF QueueType

LEMMA QueueMade ==
    ASSUME NEW fr \in Seq(Descs), NEW na \in Indices, NEW nu \in Indices, NEW ln \in Nat,
           NEW to \in [Descs -> Nat], NEW de \in [Descs -> Descriptor], NEW av \in [Descs -> Descs],
           NEW us \in [Descs -> [id : Descs, len : Nat]], NEW ui \in Indices, NEW no \in BOOLEAN
    PROVE  [free |-> fr, nextAvail |-> na, nextUsed |-> nu, lastNotify |-> ln, token |-> to, desc |-> de,
            avail |-> av, used |-> us, usedIdx |-> ui, noNotify |-> no] \in QueueType
BY DEF QueueType

\* Slots of the rings are descriptors' numbers.
LEMMA SlotOf ==
    ASSUME NEW i \in Indices
    PROVE  i % QSize \in Descs
<1>1. i \in Nat /\ QSize \in Nat \ {0}
  BY QueueAssumption DEF Indices
<1>2. i % QSize \in 0 .. QSize - 1
  BY <1>1, DivMod
<1> QED BY <1>2 DEF Descs

\* Buffers as Add takes them.
BufferType == [addr : Nat, len : Nat, write : BOOLEAN]

LEMMA AddParts ==
    ASSUME NEW Q \in QueueType, NEW bs \in Seq(BufferType), CanAdd(Q, bs), NEW tok \in Nat, Distinct(Q.free)
    PROVE  LET n == Add(Q, bs, tok)
               ds == Allocated(Q, Len(bs))
           IN  /\ n \in QueueType
               /\ n.free = SubSeq(Q.free, 1, Len(Q.free) - Len(bs))
               /\ ds \in Seq(Descs) /\ Len(ds) = Len(bs) /\ Len(bs) \in 1 .. Len(Q.free) /\ Distinct(ds)
               /\ \A i \in 1 .. Len(bs) : ds[i] = Q.free[Len(Q.free) + 1 - i]
               /\ \A x \in Descs : ~In(x, ds) => n.desc[x] = Q.desc[x]
               /\ \A i \in 1 .. Len(bs) : n.desc[ds[i]] = ChainDesc(bs, ds, i)
               /\ n.avail = [Q.avail EXCEPT ![Q.nextAvail % QSize] = ds[1]]
               /\ n.nextAvail = Plus(Q.nextAvail, 1)
               /\ n.nextUsed = Q.nextUsed /\ n.used = Q.used /\ n.usedIdx = Q.usedIdx
               /\ n.noNotify = Q.noNotify
<1> DEFINE F == Len(Q.free)
           k == Len(bs)
           ds == Allocated(Q, k)
           fr == SubSeq(Q.free, 1, F - k)
           de == [d \in Descs |-> IF \E i \in 1 .. k : ds[i] = d
                                  THEN ChainDesc(bs, ds, CHOOSE i \in 1 .. k : ds[i] = d)
                                  ELSE Q.desc[d]]
           to == [Q.token EXCEPT ![ds[1]] = tok]
           av == [Q.avail EXCEPT ![Q.nextAvail % QSize] = ds[1]]
           na == Plus(Q.nextAvail, 1)
           n == Add(Q, bs, tok)
<1>1. /\ Q.free \in Seq(Descs) /\ Q.nextAvail \in Indices /\ Q.nextUsed \in Indices
      /\ Q.lastNotify \in Nat /\ Q.token \in [Descs -> Nat] /\ Q.desc \in [Descs -> Descriptor]
      /\ Q.avail \in [Descs -> Descs] /\ Q.used \in [Descs -> [id : Descs, len : Nat]]
      /\ Q.usedIdx \in Indices /\ Q.noNotify \in BOOLEAN
  BY QueueParts
<1>2. /\ F \in Nat /\ k \in 1 .. F
      /\ \A i \in 1 .. F : Q.free[i] \in Descs
      /\ \A i, j \in 1 .. F : Q.free[i] = Q.free[j] => i = j
      /\ \A i \in 1 .. k : bs[i] \in BufferType
  BY <1>1, LenProperties, ElementOfSeq, EmptySeq DEF CanAdd, Distinct
<1>3. /\ ds \in Seq(Descs) /\ Len(ds) = k
      /\ \A i \in 1 .. k : ds[i] = Q.free[F + 1 - i] /\ ds[i] \in Descs
  <2>1. \A i \in 1 .. k : F + 1 - i \in 1 .. F
    BY <1>2
  <2>2. ds = [i \in 1 .. k |-> Q.free[F + 1 - i]]
    BY DEF Allocated
  <2>3. ds \in [1 .. k -> Descs]
    BY <1>2, <2>1, <2>2
  <2>4. ds \in Seq(Descs) /\ Len(ds) = k
    BY <1>2, <2>3
  <2> QED BY <1>2, <2>1, <2>2, <2>4
<1>4. Distinct(ds)
  <2>1. ASSUME NEW i \in 1 .. k, NEW j \in 1 .. k, ds[i] = ds[j] PROVE i = j
    <3>1. F + 1 - i \in 1 .. F /\ F + 1 - j \in 1 .. F /\ Q.free[F + 1 - i] = Q.free[F + 1 - j]
      BY <1>2, <1>3, <2>1
    <3>2. F + 1 - i = F + 1 - j
      BY <1>2, <3>1
    <3> QED BY <1>2, <3>2
  <2> QED BY <1>3, <2>1 DEF Distinct
<1> HIDE DEF ds
<1>5. fr \in Seq(Descs)
  BY <1>1, <1>2, InSubSeq
<1>6. na \in Indices
  BY <1>1, IndexArith
<1>7. ASSUME NEW i \in 1 .. k PROVE de[ds[i]] = ChainDesc(bs, ds, i)
  <2>1. (CHOOSE j \in 1 .. k : ds[j] = ds[i]) = i
    BY <1>3, <1>4 DEF Distinct
  <2> QED BY <1>3, <2>1
<1>8. \A x \in Descs : ~In(x, ds) => de[x] = Q.desc[x]
  BY <1>3 DEF In
<1>9. de \in [Descs -> Descriptor]
  <2>1. ASSUME NEW i \in 1 .. k PROVE ChainDesc(bs, ds, i) \in Descriptor
    <3>1. bs[i].addr \in Nat /\ bs[i].len \in Nat /\ bs[i].write \in BOOLEAN
      BY <1>2 DEF BufferType
    <3>2. (i < Len(ds)) \in BOOLEAN
      OBVIOUS
    <3>3. (IF i < Len(ds) THEN ds[i + 1] ELSE 0) \in Descs
      <4>1. 0 \in Descs
        BY QueueAssumption DEF Descs
      <4>2. i < Len(ds) => i + 1 \in 1 .. k
        BY <1>2, <1>3
      <4> QED BY <1>3, <4>1, <4>2
    <3> QED BY <3>1, <3>2, <3>3 DEF ChainDesc, Descriptor
  <2>2. ASSUME NEW d \in Descs PROVE de[d] \in Descriptor
    <3>1. CASE \E i \in 1 .. k : ds[i] = d
      BY <1>7, <2>1, <3>1
    <3>2. CASE ~\E i \in 1 .. k : ds[i] = d
      BY <1>1, <3>2
    <3> QED BY <3>1, <3>2
  <2> QED BY <2>2
<1>10. to \in [Descs -> Nat] /\ av \in [Descs -> Descs]
  <2>1. ds[1] \in Descs
    BY <1>2, <1>3
  <2> QED BY <1>1, <2>1
<1>11. n = [Q EXCEPT !.free = fr, !.desc = de, !.token = to, !.avail = av, !.nextAvail = na]
  BY DEF Add, ds
<1> HIDE DEF fr, de, to, av, na, n
<1>12. n = [free |-> fr, nextAvail |-> na, nextUsed |-> Q.nextUsed, lastNotify |-> Q.lastNotify,
            token |-> to, desc |-> de, avail |-> av, used |-> Q.used, usedIdx |-> Q.usedIdx,
            noNotify |-> Q.noNotify]
  BY <1>11 DEF QueueType
<1>13. n \in QueueType
  BY <1>1, <1>5, <1>6, <1>9, <1>10, <1>12, QueueMade
<1> QED BY <1>2, <1>3, <1>4, <1>7, <1>8, <1>12, <1>13 DEF fr, av, na, n, ds

-----------------------------------------------------------------------------
(* Conserved and the rings, element by element. *)

LEMMA ConservedIn ==
    ASSUME NEW Q, NEW heads, Q.free \in Seq(Descs), \A h \in heads : Chain(Q, h) \in Seq(Descs)
    PROVE  Conserved(Q, heads) <=>
              /\ Distinct(Q.free)
              /\ \A h1, h2 \in heads : h1 # h2 => \A x \in Descs : ~(In(x, Chain(Q, h1)) /\ In(x, Chain(Q, h2)))
              /\ \A h \in heads : \A x \in Descs : ~(In(x, Q.free) /\ In(x, Chain(Q, h)))
              /\ \A x \in Descs : In(x, Q.free) \/ \E h \in heads : In(x, Chain(Q, h))
<1>1. \A x : x \in Range(Q.free) <=> x \in Descs /\ In(x, Q.free)
  <2>1. Range(Q.free) = {Q.free[i] : i \in 1 .. Len(Q.free)}
    BY RangeEquality
  <2>2. \A i \in 1 .. Len(Q.free) : Q.free[i] \in Descs
    BY ElementOfSeq
  <2> QED BY <2>1, <2>2 DEF In
<1>2. ASSUME NEW h \in heads
      PROVE  \A x : x \in Range(Chain(Q, h)) <=> x \in Descs /\ In(x, Chain(Q, h))
  <2> DEFINE c == Chain(Q, h)
  <2>1. c \in Seq(Descs)
    OBVIOUS
  <2> HIDE DEF c
  <2>2. Range(c) = {c[i] : i \in 1 .. Len(c)}
    BY <2>1, RangeEquality
  <2>3. \A i \in 1 .. Len(c) : c[i] \in Descs
    BY <2>1, ElementOfSeq
  <2>4. \A x : x \in Range(c) <=> x \in Descs /\ In(x, c)
    BY <2>2, <2>3 DEF In
  <2> QED BY <2>4 DEF c
<1>3. (\A i, j \in DOMAIN Q.free : Q.free[i] = Q.free[j] => i = j) <=> Distinct(Q.free)
  <2>1. DOMAIN Q.free = 1 .. Len(Q.free)
    BY LenProperties
  <2> QED BY <2>1 DEF Distinct
<1>4. (\A h1, h2 \in heads : h1 # h2 => Range(Chain(Q, h1)) \cap Range(Chain(Q, h2)) = {}) <=>
      \A h1, h2 \in heads : h1 # h2 => \A x \in Descs : ~(In(x, Chain(Q, h1)) /\ In(x, Chain(Q, h2)))
  <2>1. ASSUME NEW h1 \in heads, NEW h2 \in heads
        PROVE  Range(Chain(Q, h1)) \cap Range(Chain(Q, h2)) = {} <=>
               \A x \in Descs : ~(In(x, Chain(Q, h1)) /\ In(x, Chain(Q, h2)))
    BY <1>2
  <2> QED BY <2>1
<1>5. \A x : x \in ChainSet(Q, heads) <=> x \in Descs /\ \E h \in heads : In(x, Chain(Q, h))
  BY <1>2 DEF ChainSet
<1>6. Range(Q.free) \cap ChainSet(Q, heads) = {} <=>
      \A h \in heads : \A x \in Descs : ~(In(x, Q.free) /\ In(x, Chain(Q, h)))
  BY <1>1, <1>5
<1>7. Range(Q.free) \cup ChainSet(Q, heads) = Descs <=>
      \A x \in Descs : In(x, Q.free) \/ \E h \in heads : In(x, Chain(Q, h))
  BY <1>1, <1>5
<1> QED BY <1>3, <1>4, <1>6, <1>7 DEF Conserved

\* A chain none of whose descriptors changes stays a chain, and is still found.
LEMMA ChainKept ==
    ASSUME NEW Q, NEW n, NEW h, IsChain(Q, Chain(Q, h)), Chain(Q, h)[1] = h,
           \A i \in 1 .. Len(Chain(Q, h)) : n.desc[Chain(Q, h)[i]] = Q.desc[Chain(Q, h)[i]]
    PROVE  Chain(n, h) = Chain(Q, h) /\ IsChain(n, Chain(Q, h))
<1> DEFINE w == Chain(Q, h)
<1>1. IsChain(Q, w) /\ w[1] = h /\ \A i \in 1 .. Len(w) : n.desc[w[i]] = Q.desc[w[i]]
  OBVIOUS
<1> HIDE DEF w
<1>2. IsChain(n, w)
  <2>1. /\ w \in Seq(Descs) /\ Distinct(w) /\ Len(w) \in 1 .. QSize
        /\ \A i \in 1 .. Len(w) : Q.desc[w[i]].more <=> i < Len(w)
        /\ \A i \in 1 .. Len(w) - 1 : Q.desc[w[i]].next = w[i + 1]
    BY <1>1 DEF IsChain
  <2>2. \A i \in 1 .. Len(w) : n.desc[w[i]].more <=> i < Len(w)
    BY <1>1, <2>1
  <2>3. \A i \in 1 .. Len(w) - 1 : n.desc[w[i]].next = w[i + 1]
    <3>1. QSize \in Nat
      BY QueueAssumption
    <3>2. ASSUME NEW i \in 1 .. Len(w) - 1 PROVE i \in 1 .. Len(w)
      BY <2>1, <3>1
    <3> QED BY <1>1, <2>1, <3>2
  <2> QED BY <2>1, <2>2, <2>3 DEF IsChain
<1>3. Chain(n, w[1]) = w
  BY <1>2, ChainIs
<1> QED BY <1>1, <1>2, <1>3 DEF w

\* As many descriptors as the table has.
LEMMA DescsFinite ==
    /\ IsFiniteSet(Descs) /\ Cardinality(Descs) = QSize /\ QSize \in Nat \ {0}
    /\ \A x \in Descs : IsFiniteSet(Descs \ {x}) /\ Cardinality(Descs \ {x}) = QSize - 1
<1>1. QSize \in Nat \ {0}
  BY QueueAssumption
<1>2. IsFiniteSet(Descs) /\ Cardinality(Descs) = QSize
  BY <1>1, FS_Interval DEF Descs
<1> QED BY <1>1, <1>2, FS_RemoveElement

\* Distinct descriptors are no more than the table has.
LEMMA DistinctFits ==
    ASSUME NEW w \in Seq(Descs), Distinct(w)
    PROVE  Len(w) \in 0 .. QSize
<1>1. Len(w) \in Nat /\ w \in [1 .. Len(w) -> Descs]
  BY LenProperties
<1>2. w \in Injection(1 .. Len(w), Descs)
  BY <1>1 DEF Injection, IsInjective, Distinct
<1>3. IsFiniteSet(1 .. Len(w)) /\ Cardinality(1 .. Len(w)) = Len(w)
  <2> DEFINE n == Len(w)
  <2>1. n \in Nat
    BY <1>1
  <2> HIDE DEF n
  <2>2. IsFiniteSet(1 .. n) /\ Cardinality(1 .. n) = IF 1 > n THEN 0 ELSE n - 1 + 1
    BY <2>1, FS_Interval
  <2>3. Cardinality(1 .. n) = n
    BY <2>1, <2>2
  <2> QED BY <2>2, <2>3 DEF n
<1>4. Len(w) <= QSize
  BY <1>2, <1>3, DescsFinite, FS_Injection
<1> QED BY <1>1, <1>4, DescsFinite

-----------------------------------------------------------------------------
(* What the ring invariant says, and what the operations of both sides do  *)
(* to it.                                                                  *)

LEMMA RingFacts ==
    ASSUME NEW Q, NEW pos, NEW busy, RingInv(Q, pos, busy)
    PROVE  LET R == InRing(Q, pos, busy)
           IN  /\ R \subseteq Descs /\ Distinct(Q.free) /\ Q.free \in Seq(Descs)
               /\ \A h \in R : /\ Chain(Q, h) \in Seq(Descs) /\ IsChain(Q, Chain(Q, h)) /\ Chain(Q, h)[1] = h
                               /\ In(h, Chain(Q, h)) /\ ~In(h, Q.free)
                               /\ \A i \in 1 .. Len(Chain(Q, h)) : Chain(Q, h)[i] \in Descs
               /\ \A h1, h2 \in R : h1 # h2 => \A x \in Descs : ~(In(x, Chain(Q, h1)) /\ In(x, Chain(Q, h2)))
               /\ \A h \in R : \A x \in Descs : ~(In(x, Q.free) /\ In(x, Chain(Q, h)))
               /\ \A x \in Descs : In(x, Q.free) \/ \E h \in R : In(x, Chain(Q, h))
<1> DEFINE R == InRing(Q, pos, busy)
<1>1. /\ Q \in QueueType /\ pos \in Indices /\ busy \subseteq Descs
      /\ \A h \in R : IsChain(Q, Chain(Q, h)) /\ Chain(Q, h)[1] = h
      /\ Conserved(Q, R)
  BY DEF RingInv
<1>2. Q.free \in Seq(Descs)
  BY <1>1, QueueParts
<1>3. R \subseteq Descs
  <2>1. Q.avail \in [Descs -> Descs] /\ Q.used \in [Descs -> [id : Descs, len : Nat]]
    BY <1>1, QueueParts
  <2>2. ASSUME NEW i \in Indices PROVE PublishedHead(Q, i) \in Descs /\ AnsweredHead(Q, i) \in Descs
    <3>1. i % QSize \in Descs
      BY SlotOf
    <3> HIDE DEF R
    <3> QED BY <2>1, <3>1 DEF PublishedHead, AnsweredHead
  <2>3. Published(Q, pos) \subseteq Indices /\ Answered(Q) \subseteq Indices
    BY DEF Published, Answered, Window
  <2> QED BY <1>1, <2>2, <2>3 DEF InRing
<1> HIDE DEF R
<1>4. ASSUME NEW h \in R
      PROVE  /\ Chain(Q, h) \in Seq(Descs) /\ In(h, Chain(Q, h))
             /\ \A i \in 1 .. Len(Chain(Q, h)) : Chain(Q, h)[i] \in Descs
  <2> DEFINE w == Chain(Q, h)
  <2>1. IsChain(Q, w) /\ w[1] = h
    BY <1>1
  <2> HIDE DEF w
  <2>2. w \in Seq(Descs) /\ Len(w) \in 1 .. QSize /\ QSize \in Nat
    BY <2>1, QueueAssumption DEF IsChain
  <2>3. \A i \in 1 .. Len(w) : w[i] \in Descs
    BY <2>2, ElementOfSeq
  <2>4. In(h, w)
    BY <2>1, <2>2 DEF In
  <2> QED BY <2>2, <2>3, <2>4 DEF w
<1>5. /\ Distinct(Q.free)
      /\ \A h1, h2 \in R : h1 # h2 => \A x \in Descs : ~(In(x, Chain(Q, h1)) /\ In(x, Chain(Q, h2)))
      /\ \A h \in R : \A x \in Descs : ~(In(x, Q.free) /\ In(x, Chain(Q, h)))
      /\ \A x \in Descs : In(x, Q.free) \/ \E h \in R : In(x, Chain(Q, h))
  BY <1>1, <1>2, <1>4, ConservedIn
<1>6. \A h \in R : ~In(h, Q.free)
  BY <1>3, <1>4, <1>5
<1> QED BY <1>1, <1>2, <1>3, <1>4, <1>5, <1>6 DEF R

\* An index outside a window ends it, and lies in a slot none of the window's fall in.
LEMMA NextSlot ==
    ASSUME NEW from \in Indices, NEW to \in Indices, Minus(to, from) < QSize
    PROVE  /\ Window(from, Plus(to, 1)) = Window(from, to) \cup {to} /\ to \notin Window(from, to)
           /\ Minus(Plus(to, 1), from) <= QSize
           /\ \A i \in Window(from, to) : i % QSize # to % QSize
<1>1. QSize \in Nat \ {0} /\ IdxMod \in Nat \ {0} /\ QSize < IdxMod
  BY QueueAssumption
<1>2. Minus(to, from) \in Nat
  BY IndexArith DEF Indices
<1>3. Minus(to, from) < IdxMod - 1
  BY <1>1, <1>2
<1>4. /\ Window(from, Plus(to, 1)) = Window(from, to) \cup {to} /\ to \notin Window(from, to)
      /\ Minus(Plus(to, 1), from) = Minus(to, from) + 1
  BY <1>3, WindowGrows
<1>5. ASSUME NEW i \in Window(from, to), i % QSize = to % QSize PROVE FALSE
  <2>1. i \in Indices /\ Minus(i, from) < Minus(to, from)
    BY DEF Window
  <2>2. Minus(i, from) \in Nat
    BY <2>1, IndexArith DEF Indices
  <2>3. Minus(i, from) < QSize
    BY <1>1, <1>2, <2>1, <2>2
  <2>4. i = to
    BY <1>5, <2>1, <2>3, SlotsApart
  <2> QED BY <1>4, <2>4
<1> QED BY <1>1, <1>2, <1>4, <1>5

\* Distinct heads that all differ from d leave room for one more entry.
LEMMA RoomInWindow ==
    ASSUME NEW from \in Indices, NEW to \in Indices, NEW g, NEW d \in Descs,
           \A i \in Window(from, to) : g[i] \in Descs \ {d},
           \A i, j \in Window(from, to) : g[i] = g[j] => i = j
    PROVE  Minus(to, from) < QSize
<1>1. IsFiniteSet(Descs \ {d}) /\ Cardinality(Descs \ {d}) = QSize - 1 /\ QSize \in Nat \ {0}
  BY DescsFinite
<1>2. Minus(to, from) <= Cardinality(Descs \ {d})
  BY <1>1, WindowFits
<1>3. Minus(to, from) \in Nat
  BY IndexArith DEF Indices
<1> QED BY <1>1, <1>2, <1>3

\* add puts one request into the ring, which was not there.
LEMMA AddRing ==
    ASSUME NEW Q, NEW pos, NEW busy, RingInv(Q, pos, busy),
           NEW bs \in Seq(BufferType), CanAdd(Q, bs), NEW tok \in Nat
    PROVE  LET n == Add(Q, bs, tok)
               ds == Allocated(Q, Len(bs))
           IN  /\ RingInv(n, pos, busy)
               /\ ds[1] \in Descs /\ ds[1] \notin InRing(Q, pos, busy)
               /\ InRing(n, pos, busy) = InRing(Q, pos, busy) \cup {ds[1]}
               /\ Published(n, pos) = Published(Q, pos) \cup {Q.nextAvail}
               /\ Q.nextAvail \notin Published(Q, pos) /\ Answered(n) = Answered(Q)
               /\ PublishedHead(n, Q.nextAvail) = ds[1] /\ Chain(n, ds[1]) = ds
               /\ ds \in Seq(Descs) /\ Len(ds) = Len(bs)
               /\ \A i \in 1 .. Len(bs) : n.desc[ds[i]] = ChainDesc(bs, ds, i)
               /\ \A x \in Descs : ~In(x, ds) => n.desc[x] = Q.desc[x]
               /\ \A h \in InRing(Q, pos, busy) : Chain(n, h) = Chain(Q, h)
               /\ \A i \in Published(Q, pos) : PublishedHead(n, i) = PublishedHead(Q, i)
               /\ n.noNotify = Q.noNotify
<1> DEFINE n == Add(Q, bs, tok)
           ds == Allocated(Q, Len(bs))
           R == InRing(Q, pos, busy)
           F == Len(Q.free)
           k == Len(bs)
           na == Q.nextAvail
<1>1. /\ Q \in QueueType /\ pos \in Indices /\ busy \subseteq Descs
      /\ Minus(Q.usedIdx, Q.nextUsed) <= QSize
      /\ OnePlace(Q, pos, busy)
  BY DEF RingInv
<1>2. /\ R \subseteq Descs /\ Distinct(Q.free) /\ Q.free \in Seq(Descs)
      /\ \A h \in R : /\ Chain(Q, h) \in Seq(Descs) /\ IsChain(Q, Chain(Q, h)) /\ Chain(Q, h)[1] = h
                      /\ In(h, Chain(Q, h)) /\ ~In(h, Q.free)
                      /\ \A i \in 1 .. Len(Chain(Q, h)) : Chain(Q, h)[i] \in Descs
      /\ \A h1, h2 \in R : h1 # h2 => \A x \in Descs : ~(In(x, Chain(Q, h1)) /\ In(x, Chain(Q, h2)))
      /\ \A h \in R : \A x \in Descs : ~(In(x, Q.free) /\ In(x, Chain(Q, h)))
      /\ \A x \in Descs : In(x, Q.free) \/ \E h \in R : In(x, Chain(Q, h))
  BY RingFacts
<1>3. /\ n \in QueueType
      /\ n.free = SubSeq(Q.free, 1, F - k)
      /\ ds \in Seq(Descs) /\ Len(ds) = k /\ k \in 1 .. F /\ Distinct(ds)
      /\ \A i \in 1 .. k : ds[i] = Q.free[F + 1 - i]
      /\ \A x \in Descs : ~In(x, ds) => n.desc[x] = Q.desc[x]
      /\ \A i \in 1 .. k : n.desc[ds[i]] = ChainDesc(bs, ds, i)
      /\ n.avail = [Q.avail EXCEPT ![na % QSize] = ds[1]]
      /\ n.nextAvail = Plus(na, 1)
      /\ n.nextUsed = Q.nextUsed /\ n.used = Q.used /\ n.usedIdx = Q.usedIdx
      /\ n.noNotify = Q.noNotify
  BY <1>1, <1>2, AddParts
<1> HIDE DEF n, ds
<1>4. /\ F \in Nat /\ na \in Indices /\ Q.avail \in [Descs -> Descs] /\ n.free \in Seq(Descs)
      /\ 1 \in 1 .. F + 1 /\ F - k \in 1 - 1 .. F
  <2>1. F \in Nat
    BY <1>2, LenProperties
  <2> QED BY <1>1, <1>3, <2>1, QueueParts
<1>a. (\A x : In(x, n.free) <=> \E i \in 1 .. F - k : Q.free[i] = x) /\ Distinct(n.free)
  <2> DEFINE e == F - k
  <2>1. 1 \in 1 .. Len(Q.free) + 1 /\ e \in 1 - 1 .. Len(Q.free) /\ n.free = SubSeq(Q.free, 1, e)
    BY <1>3, <1>4
  <2>2. Q.free \in Seq(Descs) /\ Distinct(Q.free)
    BY <1>2
  <2> HIDE DEF e
  <2>3. \A x : In(x, SubSeq(Q.free, 1, e)) <=> \E i \in 1 .. e : Q.free[i] = x
    <3> DEFINE fr == Q.free
    <3>1. 1 \in 1 .. Len(fr) + 1 /\ e \in 1 - 1 .. Len(fr) /\ fr \in Seq(Descs)
      BY <2>1, <2>2
    <3> HIDE DEF fr
    <3>2. /\ Len(SubSeq(fr, 1, e)) = e - 1 + 1
          /\ \A x : In(x, SubSeq(fr, 1, e)) <=> \E i \in 1 .. Len(SubSeq(fr, 1, e)) : SubSeq(fr, 1, e)[i] = x
      BY <3>1, InSubSeq DEF In
    <3>4. ASSUME NEW i \in 1 .. e PROVE SubSeq(fr, 1, e)[i] = fr[i]
      BY <3>1
    <3>5. e - 1 + 1 = e
      BY <3>1
    <3>3. \A x : In(x, SubSeq(fr, 1, e)) <=> \E i \in 1 .. e : fr[i] = x
      BY <3>2, <3>4, <3>5
    <3> QED BY <3>3 DEF fr
  <2>4. Distinct(SubSeq(Q.free, 1, e))
    BY <2>1, <2>2, DistinctSubSeq
  <2> QED BY <2>1, <2>3, <2>4 DEF e
\* What is taken was free, and what stays free was not taken.
<1>5. \A x : In(x, Q.free) <=> In(x, n.free) \/ In(x, ds)
  <2>1. \A x : In(x, n.free) <=> \E i \in 1 .. F - k : Q.free[i] = x
    BY <1>a
  <2>2. \A x : In(x, ds) <=> \E i \in F - k + 1 .. F : Q.free[i] = x
    <3>1. ASSUME NEW i \in F - k + 1 .. F PROVE F + 1 - i \in 1 .. k /\ F + 1 - (F + 1 - i) = i
      BY <1>3, <1>4
    <3>2. ASSUME NEW i \in 1 .. k PROVE F + 1 - i \in F - k + 1 .. F
      BY <1>3, <1>4
    <3>3. ASSUME NEW x, In(x, ds) PROVE \E i \in F - k + 1 .. F : Q.free[i] = x
      <4>1. PICK i \in 1 .. k : ds[i] = x
        BY <1>3, <3>3 DEF In
      <4>2. Q.free[F + 1 - i] = x
        BY <1>3, <4>1
      <4> QED BY <3>2, <4>2
    <3>4. ASSUME NEW x, NEW i \in F - k + 1 .. F, Q.free[i] = x PROVE In(x, ds)
      <4>1. ds[F + 1 - i] = Q.free[i]
        BY <1>3, <3>1
      <4> QED BY <1>3, <3>1, <3>4, <4>1 DEF In
    <3> QED BY <3>3, <3>4
  <2>3. \A i : i \in 1 .. F <=> i \in 1 .. F - k \/ i \in F - k + 1 .. F
    BY <1>3, <1>4
  <2> QED BY <2>1, <2>2, <2>3 DEF In
<1>6. \A x : ~(In(x, n.free) /\ In(x, ds))
  <2>1. \A x : In(x, n.free) <=> \E i \in 1 .. F - k : Q.free[i] = x
    BY <1>a
  <2>2. ASSUME NEW i \in 1 .. F - k, NEW j \in 1 .. k, Q.free[i] = ds[j] PROVE FALSE
    <3>a. i \in 1 .. F /\ F + 1 - j \in 1 .. F
      BY <1>4, <2>2
    <3>b. ds[j] = Q.free[F + 1 - j]
      BY <1>3, <2>2
    <3>1. i \in 1 .. F /\ F + 1 - j \in 1 .. F /\ Q.free[i] = Q.free[F + 1 - j]
      BY <2>2, <3>a, <3>b
    <3>2. i = F + 1 - j
      BY <1>2, <3>1 DEF Distinct
    <3> QED BY <1>3, <1>4, <3>2
  <2> QED BY <1>3, <2>1, <2>2 DEF In
<1>7. Distinct(n.free)
  BY <1>a
<1>8. ds[1] \in Descs /\ In(ds[1], ds) /\ \A x : In(x, ds) => x \in Descs
  <2>1. \A i \in 1 .. k : ds[i] \in Descs
    BY <1>3, ElementOfSeq
  <2> QED BY <1>3, <1>4, <2>1 DEF In
<1>9. ds[1] \notin R
  BY <1>2, <1>5, <1>8
\* The ring has room.
<1>10. /\ \A i \in Published(Q, pos) : PublishedHead(Q, i) \in R
       /\ \A i \in Answered(Q) : AnsweredHead(Q, i) \in R
       /\ busy \subseteq R
  BY DEF InRing
<1>11. Minus(na, pos) < QSize
  <2> DEFINE g == [i \in Published(Q, pos) |-> PublishedHead(Q, i)]
  <2>1. \A i \in Published(Q, pos) : g[i] \in Descs \ {ds[1]}
    BY <1>2, <1>9, <1>10
  <2>2. \A i, j \in Published(Q, pos) : g[i] = g[j] => i = j
    BY <1>1 DEF OnePlace
  <2> HIDE DEF g
  <2> QED BY <1>1, <1>4, <1>8, <2>1, <2>2, RoomInWindow DEF Published
<1>12. /\ Published(n, pos) = Published(Q, pos) \cup {na} /\ na \notin Published(Q, pos)
       /\ Minus(n.nextAvail, pos) <= QSize
       /\ \A i \in Published(Q, pos) : i % QSize # na % QSize
  BY <1>1, <1>3, <1>4, <1>11, NextSlot DEF Published
<1>13. Answered(n) = Answered(Q) /\ \A i : AnsweredHead(n, i) = AnsweredHead(Q, i)
  BY <1>3 DEF Answered, AnsweredHead
<1>14. PublishedHead(n, na) = ds[1]
  <2>1. na % QSize \in Descs
    BY <1>4, SlotOf
  <2> QED BY <1>3, <1>4, <2>1 DEF PublishedHead
<1>15. \A i \in Published(Q, pos) : PublishedHead(n, i) = PublishedHead(Q, i)
  <2>1. ASSUME NEW i \in Published(Q, pos) PROVE i % QSize \in Descs
    BY SlotOf DEF Published, Window
  <2> QED BY <1>3, <1>4, <1>12, <2>1 DEF PublishedHead
<1>16. InRing(n, pos, busy) = R \cup {ds[1]}
  BY <1>12, <1>13, <1>14, <1>15 DEF InRing
\* Chains.
<1>17. IsChain(n, ds)
  <2>1. Len(ds) \in 1 .. QSize
    BY <1>3, DistinctFits, DescsFinite
  <2>2. ASSUME NEW i \in 1 .. Len(ds)
        PROVE  /\ n.desc[ds[i]].more <=> i < Len(ds)
               /\ i < Len(ds) => n.desc[ds[i]].next = ds[i + 1]
    <3>1. n.desc[ds[i]] = ChainDesc(bs, ds, i)
      BY <1>3
    <3>2. /\ ChainDesc(bs, ds, i).more = (i < Len(ds))
          /\ ChainDesc(bs, ds, i).next = IF i < Len(ds) THEN ds[i + 1] ELSE 0
      BY DEF ChainDesc
    <3> QED BY <3>1, <3>2
  <2>3. ASSUME NEW i \in 1 .. Len(ds) - 1 PROVE n.desc[ds[i]].next = ds[i + 1]
    <3>1. i \in 1 .. Len(ds) /\ i < Len(ds)
      BY <1>3, <2>1, <1>4
    <3> QED BY <2>2, <3>1
  <2> QED BY <1>3, <2>1, <2>2, <2>3 DEF IsChain
<1>18. Chain(n, ds[1]) = ds
  BY <1>17, ChainIs
<1>19. ASSUME NEW h \in R PROVE Chain(n, h) = Chain(Q, h) /\ IsChain(n, Chain(Q, h))
  <2>1. ASSUME NEW i \in 1 .. Len(Chain(Q, h)) PROVE ~In(Chain(Q, h)[i], ds)
    <3>1. Chain(Q, h)[i] \in Descs /\ In(Chain(Q, h)[i], Chain(Q, h))
      BY <1>2 DEF In
    <3> QED BY <1>2, <1>5, <3>1
  <2>2. \A i \in 1 .. Len(Chain(Q, h)) : n.desc[Chain(Q, h)[i]] = Q.desc[Chain(Q, h)[i]]
    BY <1>2, <1>3, <2>1
  <2> HIDE DEF R
  <2> QED BY <1>2, <2>2, ChainKept
<1>20. \A h \in InRing(n, pos, busy) :
          IsChain(n, Chain(n, h)) /\ Chain(n, h)[1] = h /\ Chain(n, h) \in Seq(Descs)
  BY <1>2, <1>3, <1>16, <1>17, <1>18, <1>19
<1>21. Conserved(n, InRing(n, pos, busy))
  <2>1. \A h1, h2 \in R \cup {ds[1]} : h1 # h2 => \A x \in Descs : ~(In(x, Chain(n, h1)) /\ In(x, Chain(n, h2)))
    <3>1. \A h1, h2 \in R : h1 # h2 => \A x \in Descs : ~(In(x, Chain(n, h1)) /\ In(x, Chain(n, h2)))
      BY <1>2, <1>19
    <3>2. \A h \in R : \A x \in Descs : ~(In(x, Chain(n, h)) /\ In(x, Chain(n, ds[1])))
      BY <1>2, <1>5, <1>18, <1>19
    <3> HIDE DEF R
    <3> QED BY <3>1, <3>2
  <2>2. \A h \in R \cup {ds[1]} : \A x \in Descs : ~(In(x, n.free) /\ In(x, Chain(n, h)))
    BY <1>2, <1>5, <1>6, <1>18, <1>19
  <2>3. \A x \in Descs : In(x, n.free) \/ \E h \in R \cup {ds[1]} : In(x, Chain(n, h))
    BY <1>2, <1>5, <1>18, <1>19
  <2> QED BY <1>4, <1>7, <1>16, <1>20, <2>1, <2>2, <2>3, ConservedIn
<1>22. OnePlace(n, pos, busy)
  <2>1. \A i \in Published(Q, pos) : PublishedHead(Q, i) # ds[1]
    BY <1>9, <1>10
  <2>2. \A i \in Answered(Q) : AnsweredHead(Q, i) # ds[1]
    BY <1>9, <1>10
  <2>3. ds[1] \notin busy
    BY <1>9, <1>10
  <2>4. \A i, j \in Published(n, pos) : PublishedHead(n, i) = PublishedHead(n, j) => i = j
    BY <1>1, <1>12, <1>14, <1>15, <2>1 DEF OnePlace
  <2>5. \A i \in Published(n, pos) : /\ PublishedHead(n, i) \notin busy
                                       /\ \A j \in Answered(n) : PublishedHead(n, i) # AnsweredHead(n, j)
    BY <1>1, <1>12, <1>13, <1>14, <1>15, <2>2, <2>3 DEF OnePlace
  <2>6. /\ \A i, j \in Answered(n) : AnsweredHead(n, i) = AnsweredHead(n, j) => i = j
        /\ \A j \in Answered(n) : AnsweredHead(n, j) \notin busy
    BY <1>1, <1>13 DEF OnePlace
  <2> QED BY <2>4, <2>5, <2>6 DEF OnePlace
<1>23. RingInv(n, pos, busy)
  <2>1. Minus(n.usedIdx, n.nextUsed) <= QSize
    BY <1>1, <1>3
  <2> QED BY <1>1, <1>3, <1>12, <1>20, <1>21, <1>22, <2>1 DEF RingInv
<1> QED BY <1>3, <1>8, <1>9, <1>12, <1>13, <1>14, <1>15, <1>16, <1>18, <1>19, <1>23 DEF n, ds, R

\* The device fetches a request: the ring holds the same ones.
LEMMA FetchRing ==
    ASSUME NEW Q, NEW pos, NEW busy, RingInv(Q, pos, busy), HasAvail(Q, pos)
    PROVE  LET h == AvailHead(Q, pos)
           IN  /\ RingInv(Q, Plus(pos, 1), busy \cup {h})
               /\ h \in Descs \ busy /\ h = PublishedHead(Q, pos) /\ h \in InRing(Q, pos, busy)
               /\ InRing(Q, Plus(pos, 1), busy \cup {h}) = InRing(Q, pos, busy)
               /\ pos \in Published(Q, pos) /\ Published(Q, Plus(pos, 1)) = Published(Q, pos) \ {pos}
<1> DEFINE h == AvailHead(Q, pos)
           R == InRing(Q, pos, busy)
           s == Plus(pos, 1)
<1>1. /\ Q \in QueueType /\ pos \in Indices /\ busy \subseteq Descs
      /\ Minus(Q.nextAvail, pos) <= QSize /\ Minus(Q.usedIdx, Q.nextUsed) <= QSize
      /\ OnePlace(Q, pos, busy)
      /\ \A x \in R : IsChain(Q, Chain(Q, x)) /\ Chain(Q, x)[1] = x
      /\ Conserved(Q, R) /\ R \subseteq Descs
  BY RingFacts DEF RingInv
<1>2. Q.nextAvail \in Indices /\ pos # Q.nextAvail
  BY <1>1, QueueParts DEF HasAvail
<1>3. /\ pos \in Published(Q, pos) /\ Published(Q, s) = Published(Q, pos) \ {pos}
      /\ Minus(Q.nextAvail, s) = Minus(Q.nextAvail, pos) - 1 /\ s \in Indices
  BY <1>1, <1>2, WindowShrinks DEF Published
<1>4. h = PublishedHead(Q, pos)
  BY DEF AvailHead, PublishedHead
<1> HIDE DEF h, s, R
<1>5. /\ \A i, j \in Published(Q, pos) : PublishedHead(Q, i) = PublishedHead(Q, j) => i = j
      /\ \A i, j \in Answered(Q) : AnsweredHead(Q, i) = AnsweredHead(Q, j) => i = j
      /\ \A i \in Published(Q, pos) : /\ PublishedHead(Q, i) \notin busy
                                        /\ \A j \in Answered(Q) : PublishedHead(Q, i) # AnsweredHead(Q, j)
      /\ \A j \in Answered(Q) : AnsweredHead(Q, j) \notin busy
  BY <1>1 DEF OnePlace
<1>6. h \in R /\ h \notin busy
  BY <1>3, <1>4, <1>5 DEF InRing, R
<1>7. InRing(Q, s, busy \cup {h}) = R
  BY <1>3, <1>4 DEF InRing, R
<1>8. OnePlace(Q, s, busy \cup {h})
  <2>1. \A i \in Published(Q, s) : i \in Published(Q, pos) /\ PublishedHead(Q, i) # h
    BY <1>3, <1>4, <1>5
  <2>2. \A j \in Answered(Q) : AnsweredHead(Q, j) # h
    BY <1>3, <1>4, <1>5
  <2> QED BY <1>5, <2>1, <2>2 DEF OnePlace
<1>9. Minus(Q.nextAvail, s) <= QSize
  <2>1. Minus(Q.nextAvail, pos) \in Indices /\ QSize \in Nat
    BY <1>1, <1>2, IndexArith, DescsFinite
  <2>2. Minus(Q.nextAvail, pos) \in Nat
    BY <2>1, QueueAssumption DEF Indices
  <2> QED BY <1>1, <1>3, <2>1, <2>2
<1>10. busy \cup {h} \subseteq Descs
  BY <1>1, <1>6
<1>11. RingInv(Q, s, busy \cup {h})
  BY <1>1, <1>3, <1>7, <1>8, <1>9, <1>10 DEF RingInv
<1> QED BY <1>1, <1>3, <1>4, <1>6, <1>7, <1>11 DEF h, s, R

LEMMA AnswerParts ==
    ASSUME NEW Q \in QueueType, NEW h \in Descs, NEW len \in Nat
    PROVE  LET n == PushUsed(Q, h, len)
           IN  /\ n \in QueueType
               /\ n.used = [Q.used EXCEPT ![Q.usedIdx % QSize] = [id |-> h, len |-> len]]
               /\ n.usedIdx = Plus(Q.usedIdx, 1)
               /\ n.free = Q.free /\ n.desc = Q.desc /\ n.avail = Q.avail
               /\ n.nextAvail = Q.nextAvail /\ n.nextUsed = Q.nextUsed /\ n.noNotify = Q.noNotify
<1> DEFINE e == [id |-> h, len |-> len]
           us == [Q.used EXCEPT ![Q.usedIdx % QSize] = e]
           ui == Plus(Q.usedIdx, 1)
           n == PushUsed(Q, h, len)
<1>1. /\ Q.free \in Seq(Descs) /\ Q.nextAvail \in Indices /\ Q.nextUsed \in Indices
      /\ Q.lastNotify \in Nat /\ Q.token \in [Descs -> Nat] /\ Q.desc \in [Descs -> Descriptor]
      /\ Q.avail \in [Descs -> Descs] /\ Q.used \in [Descs -> [id : Descs, len : Nat]]
      /\ Q.usedIdx \in Indices /\ Q.noNotify \in BOOLEAN
  BY QueueParts
<1>2. e \in [id : Descs, len : Nat]
  OBVIOUS
<1> HIDE DEF e
<1>3. us \in [Descs -> [id : Descs, len : Nat]] /\ ui \in Indices
  BY <1>1, <1>2, IndexArith
<1>4. n = [Q EXCEPT !.used = us, !.usedIdx = ui]
  BY DEF PushUsed, e
<1> HIDE DEF us, ui, n
<1>5. n = [free |-> Q.free, nextAvail |-> Q.nextAvail, nextUsed |-> Q.nextUsed, lastNotify |-> Q.lastNotify,
           token |-> Q.token, desc |-> Q.desc, avail |-> Q.avail, used |-> us, usedIdx |-> ui,
           noNotify |-> Q.noNotify]
  BY <1>4 DEF QueueType
<1>6. n \in QueueType
  BY <1>1, <1>3, <1>5, QueueMade
<1> QED BY <1>5, <1>6 DEF us, ui, n, e

\* The device answers a request: the ring holds the same ones.
LEMMA AnswerRing ==
    ASSUME NEW Q, NEW pos, NEW busy, RingInv(Q, pos, busy), NEW h \in busy, NEW len \in Nat
    PROVE  LET n == PushUsed(Q, h, len)
           IN  /\ RingInv(n, pos, busy \ {h})
               /\ InRing(n, pos, busy \ {h}) = InRing(Q, pos, busy)
               /\ Published(n, pos) = Published(Q, pos)
               /\ \A i : PublishedHead(n, i) = PublishedHead(Q, i)
               /\ \A x \in InRing(Q, pos, busy) : Chain(n, x) = Chain(Q, x)
               /\ Answered(n) = Answered(Q) \cup {Q.usedIdx}
               /\ n.desc = Q.desc /\ n.noNotify = Q.noNotify /\ n.nextAvail = Q.nextAvail
<1> DEFINE n == PushUsed(Q, h, len)
           R == InRing(Q, pos, busy)
           b == busy \ {h}
<1>1. /\ Q \in QueueType /\ pos \in Indices /\ busy \subseteq Descs /\ h \in Descs
      /\ Minus(Q.nextAvail, pos) <= QSize
      /\ OnePlace(Q, pos, busy)
      /\ \A x \in R : IsChain(Q, Chain(Q, x)) /\ Chain(Q, x)[1] = x
      /\ Conserved(Q, R)
  BY DEF RingInv
<1>2. /\ n \in QueueType
      /\ n.used = [Q.used EXCEPT ![Q.usedIdx % QSize] = [id |-> h, len |-> len]]
      /\ n.usedIdx = Plus(Q.usedIdx, 1)
      /\ n.free = Q.free /\ n.desc = Q.desc /\ n.avail = Q.avail
      /\ n.nextAvail = Q.nextAvail /\ n.nextUsed = Q.nextUsed /\ n.noNotify = Q.noNotify
  BY <1>1, AnswerParts
<1>3. /\ Q.usedIdx \in Indices /\ Q.nextUsed \in Indices /\ Q.free \in Seq(Descs)
      /\ Q.used \in [Descs -> [id : Descs, len : Nat]]
  BY <1>1, QueueParts
<1> HIDE DEF n
<1>4. /\ \A i, j \in Published(Q, pos) : PublishedHead(Q, i) = PublishedHead(Q, j) => i = j
      /\ \A i, j \in Answered(Q) : AnsweredHead(Q, i) = AnsweredHead(Q, j) => i = j
      /\ \A i \in Published(Q, pos) : /\ PublishedHead(Q, i) \notin busy
                                        /\ \A j \in Answered(Q) : PublishedHead(Q, i) # AnsweredHead(Q, j)
      /\ \A j \in Answered(Q) : AnsweredHead(Q, j) \notin busy
  BY <1>1 DEF OnePlace
\* The used ring has room.
<1>5. Minus(Q.usedIdx, Q.nextUsed) < QSize
  <2> DEFINE g == [i \in Answered(Q) |-> AnsweredHead(Q, i)]
  <2>1. \A i \in Answered(Q) : AnsweredHead(Q, i) \in Descs \ {h}
    <3>1. \A i \in Answered(Q) : AnsweredHead(Q, i) \in R /\ R \subseteq Descs
      BY RingFacts DEF InRing
    <3> HIDE DEF R
    <3> QED BY <1>4, <3>1
  <2>2. \A i \in Answered(Q) : g[i] \in Descs \ {h}
    BY <2>1
  <2>3. \A i, j \in Answered(Q) : g[i] = g[j] => i = j
    BY <1>4
  <2> HIDE DEF g
  <2> QED BY <1>1, <1>3, <2>2, <2>3, RoomInWindow DEF Answered
<1>6. /\ Answered(n) = Answered(Q) \cup {Q.usedIdx} /\ Q.usedIdx \notin Answered(Q)
      /\ Minus(n.usedIdx, n.nextUsed) <= QSize
      /\ \A i \in Answered(Q) : i % QSize # Q.usedIdx % QSize
  BY <1>2, <1>3, <1>5, NextSlot DEF Answered
<1>7. AnsweredHead(n, Q.usedIdx) = h
  <2>1. Q.usedIdx % QSize \in Descs
    BY <1>3, SlotOf
  <2> QED BY <1>2, <1>3, <2>1 DEF AnsweredHead
<1>8. \A i \in Answered(Q) : AnsweredHead(n, i) = AnsweredHead(Q, i)
  <2>1. ASSUME NEW i \in Answered(Q) PROVE i % QSize \in Descs
    BY SlotOf DEF Answered, Window
  <2> QED BY <1>2, <1>3, <1>6, <2>1 DEF AnsweredHead
<1>9. Published(n, pos) = Published(Q, pos) /\ \A i : PublishedHead(n, i) = PublishedHead(Q, i)
  BY <1>2 DEF Published, PublishedHead
<1>10. InRing(n, pos, b) = R
  BY <1>6, <1>7, <1>8, <1>9 DEF InRing
<1> HIDE DEF R
<1>11. \A x \in R : Chain(n, x) = Chain(Q, x) /\ IsChain(n, Chain(Q, x))
  BY <1>1, <1>2, ChainKept
<1>12. OnePlace(n, pos, b)
  <2>1. \A i, j \in Answered(n) : AnsweredHead(n, i) = AnsweredHead(n, j) => i = j
    BY <1>4, <1>6, <1>7, <1>8
  <2>2. \A i \in Published(n, pos) : /\ PublishedHead(n, i) \notin b
                                       /\ \A j \in Answered(n) : PublishedHead(n, i) # AnsweredHead(n, j)
    BY <1>4, <1>6, <1>7, <1>8, <1>9
  <2>3. \A j \in Answered(n) : AnsweredHead(n, j) \notin b
    BY <1>4, <1>6, <1>7, <1>8
  <2>4. \A i, j \in Published(n, pos) : PublishedHead(n, i) = PublishedHead(n, j) => i = j
    BY <1>4, <1>9
  <2> QED BY <2>1, <2>2, <2>3, <2>4 DEF OnePlace
<1>13. Conserved(n, R)
  BY <1>1, <1>2, <1>11 DEF Conserved, ChainSet
<1>14. b \subseteq Descs
  BY <1>1
<1>15. RingInv(n, pos, b)
  BY <1>1, <1>2, <1>6, <1>10, <1>11, <1>12, <1>13, <1>14 DEF RingInv
<1> QED BY <1>2, <1>6, <1>9, <1>10, <1>11, <1>15 DEF n, R

LEMMA PopParts ==
    ASSUME NEW Q \in QueueType, Chain(Q, UsedEntry(Q).id) \in Seq(Descs)
    PROVE  LET n == PopUsed(Q)
           IN  /\ n \in QueueType
               /\ n.nextUsed = Plus(Q.nextUsed, 1)
               /\ n.free = Q.free \o Chain(Q, UsedEntry(Q).id)
               /\ n.used = Q.used /\ n.usedIdx = Q.usedIdx /\ n.desc = Q.desc /\ n.avail = Q.avail
               /\ n.nextAvail = Q.nextAvail /\ n.noNotify = Q.noNotify
<1> DEFINE w == Chain(Q, UsedEntry(Q).id)
           nu == Plus(Q.nextUsed, 1)
           fr == Q.free \o w
           n == PopUsed(Q)
<1>1. /\ Q.free \in Seq(Descs) /\ Q.nextAvail \in Indices /\ Q.nextUsed \in Indices
      /\ Q.lastNotify \in Nat /\ Q.token \in [Descs -> Nat] /\ Q.desc \in [Descs -> Descriptor]
      /\ Q.avail \in [Descs -> Descs] /\ Q.used \in [Descs -> [id : Descs, len : Nat]]
      /\ Q.usedIdx \in Indices /\ Q.noNotify \in BOOLEAN
  BY QueueParts
<1>2. w \in Seq(Descs)
  OBVIOUS
<1> HIDE DEF w
<1>3. nu \in Indices /\ fr \in Seq(Descs)
  BY <1>1, <1>2, IndexArith, ConcatProperties
<1>4. n = [Q EXCEPT !.nextUsed = nu, !.free = fr]
  BY DEF PopUsed, w
<1> HIDE DEF nu, fr, n
<1>5. n = [free |-> fr, nextAvail |-> Q.nextAvail, nextUsed |-> nu, lastNotify |-> Q.lastNotify,
           token |-> Q.token, desc |-> Q.desc, avail |-> Q.avail, used |-> Q.used, usedIdx |-> Q.usedIdx,
           noNotify |-> Q.noNotify]
  BY <1>4 DEF QueueType
<1>6. n \in QueueType
  BY <1>1, <1>3, <1>5, QueueMade
<1>7. /\ n.nextUsed = nu /\ n.free = fr
      /\ n.used = Q.used /\ n.usedIdx = Q.usedIdx /\ n.desc = Q.desc /\ n.avail = Q.avail
      /\ n.nextAvail = Q.nextAvail /\ n.noNotify = Q.noNotify
  BY <1>5
<1>8. n = PopUsed(Q) /\ nu = Plus(Q.nextUsed, 1) /\ fr = Q.free \o Chain(Q, UsedEntry(Q).id)
  BY DEF nu, fr, n, w
<1> QED BY <1>6, <1>7, <1>8

\* pop_used takes one request out of the ring and frees its chain.
LEMMA PopRing ==
    ASSUME NEW Q, NEW pos, NEW busy, RingInv(Q, pos, busy), HasUsed(Q)
    PROVE  LET n == PopUsed(Q)
               h == UsedEntry(Q).id
           IN  /\ RingInv(n, pos, busy)
               /\ h \in InRing(Q, pos, busy) /\ h = AnsweredHead(Q, Q.nextUsed)
               /\ Q.nextUsed \in Answered(Q) /\ Answered(n) = Answered(Q) \ {Q.nextUsed}
               /\ InRing(n, pos, busy) = InRing(Q, pos, busy) \ {h}
               /\ Published(n, pos) = Published(Q, pos)
               /\ n.noNotify = Q.noNotify /\ n.nextAvail = Q.nextAvail
<1> DEFINE n == PopUsed(Q)
           h == UsedEntry(Q).id
           R == InRing(Q, pos, busy)
           w == Chain(Q, h)
<1>1. /\ Q \in QueueType /\ pos \in Indices /\ busy \subseteq Descs
      /\ Minus(Q.nextAvail, pos) <= QSize /\ Minus(Q.usedIdx, Q.nextUsed) <= QSize
      /\ OnePlace(Q, pos, busy)
  BY DEF RingInv
<1>2. /\ R \subseteq Descs /\ Distinct(Q.free) /\ Q.free \in Seq(Descs)
      /\ \A x \in R : /\ Chain(Q, x) \in Seq(Descs) /\ IsChain(Q, Chain(Q, x)) /\ Chain(Q, x)[1] = x
      /\ \A h1, h2 \in R : h1 # h2 => \A x \in Descs : ~(In(x, Chain(Q, h1)) /\ In(x, Chain(Q, h2)))
      /\ \A x \in R : \A y \in Descs : ~(In(y, Q.free) /\ In(y, Chain(Q, x)))
      /\ \A x \in Descs : In(x, Q.free) \/ \E y \in R : In(x, Chain(Q, y))
  BY RingFacts
<1>3. Q.usedIdx \in Indices /\ Q.nextUsed \in Indices /\ Q.nextUsed # Q.usedIdx
  BY <1>1, QueueParts DEF HasUsed
<1>4. /\ Q.nextUsed \in Answered(Q) /\ Window(Plus(Q.nextUsed, 1), Q.usedIdx) = Answered(Q) \ {Q.nextUsed}
      /\ Minus(Q.usedIdx, Plus(Q.nextUsed, 1)) = Minus(Q.usedIdx, Q.nextUsed) - 1
  BY <1>3, WindowShrinks DEF Answered
<1>5. h = AnsweredHead(Q, Q.nextUsed)
  BY DEF UsedEntry, AnsweredHead
<1> HIDE DEF h, R
<1>6. h \in R
  BY <1>4, <1>5 DEF InRing, R
<1>7. w \in Seq(Descs) /\ Distinct(w)
  BY <1>2, <1>6 DEF IsChain
<1> HIDE DEF w
<1>8. /\ n \in QueueType
      /\ n.nextUsed = Plus(Q.nextUsed, 1)
      /\ n.free = Q.free \o w
      /\ n.used = Q.used /\ n.usedIdx = Q.usedIdx /\ n.desc = Q.desc /\ n.avail = Q.avail
      /\ n.nextAvail = Q.nextAvail /\ n.noNotify = Q.noNotify
  BY <1>1, <1>7, PopParts DEF w, h
<1> HIDE DEF n
<1>9. Answered(n) = Answered(Q) \ {Q.nextUsed} /\ \A i : AnsweredHead(n, i) = AnsweredHead(Q, i)
  BY <1>4, <1>8 DEF Answered, AnsweredHead
<1>10. Published(n, pos) = Published(Q, pos) /\ \A i : PublishedHead(n, i) = PublishedHead(Q, i)
  BY <1>8 DEF Published, PublishedHead
<1>11. /\ \A i, j \in Published(Q, pos) : PublishedHead(Q, i) = PublishedHead(Q, j) => i = j
       /\ \A i, j \in Answered(Q) : AnsweredHead(Q, i) = AnsweredHead(Q, j) => i = j
       /\ \A i \in Published(Q, pos) : /\ PublishedHead(Q, i) \notin busy
                                         /\ \A j \in Answered(Q) : PublishedHead(Q, i) # AnsweredHead(Q, j)
       /\ \A j \in Answered(Q) : AnsweredHead(Q, j) \notin busy
  BY <1>1 DEF OnePlace
<1>12. InRing(n, pos, busy) = R \ {h}
  <2>1. \A i \in Published(Q, pos) : PublishedHead(Q, i) # h
    BY <1>4, <1>5, <1>11
  <2>2. h \notin busy
    BY <1>4, <1>5, <1>11
  <2>3. \A i \in Answered(Q) : AnsweredHead(Q, i) = h <=> i = Q.nextUsed
    BY <1>4, <1>5, <1>11
  <2> QED BY <1>9, <1>10, <2>1, <2>2, <2>3 DEF InRing, R
<1>13. OnePlace(n, pos, busy)
  BY <1>9, <1>10, <1>11 DEF OnePlace
<1>14. \A x \in R : Chain(n, x) = Chain(Q, x) /\ IsChain(n, Chain(Q, x))
  BY <1>2, <1>8, ChainKept
<1>15. Minus(n.usedIdx, n.nextUsed) <= QSize
  <2>1. Minus(Q.usedIdx, Q.nextUsed) \in Indices /\ QSize \in Nat
    BY <1>3, IndexArith, DescsFinite
  <2>2. Minus(Q.usedIdx, Q.nextUsed) \in Nat
    BY <2>1, QueueAssumption DEF Indices
  <2> QED BY <1>1, <1>4, <1>8, <2>1, <2>2
<1>16. Conserved(n, R \ {h})
  <2>1. n.free \in Seq(Descs) /\ \A x : In(x, n.free) <=> In(x, Q.free) \/ In(x, w)
    <3> DEFINE fr == Q.free
    <3>1. fr \in Seq(Descs) /\ n.free = fr \o w
      BY <1>2, <1>8
    <3>2. \A x : In(x, fr \o w) <=> In(x, fr) \/ In(x, w)
      <4> HIDE DEF fr
      <4> QED BY <1>7, <3>1, InConcat
    <3>3. fr \o w \in Seq(Descs)
      BY <1>7, <3>1
    <3> QED BY <3>1, <3>2, <3>3
  <2>2. \A x \in Descs : ~(In(x, Q.free) /\ In(x, w))
    BY <1>2, <1>6 DEF w
  <2>3. Distinct(n.free)
    BY <1>2, <1>7, <1>8, <2>2, DistinctConcat
  <2>4. \A x \in R \ {h} : \A y \in Descs : ~(In(y, Chain(Q, x)) /\ In(y, w))
    BY <1>2, <1>6 DEF w
  <2>5. \A h1, h2 \in R \ {h} : h1 # h2 => \A x \in Descs : ~(In(x, Chain(n, h1)) /\ In(x, Chain(n, h2)))
    BY <1>2, <1>14
  <2>6. \A x \in R \ {h} : \A y \in Descs : ~(In(y, n.free) /\ In(y, Chain(n, x)))
    BY <1>2, <1>14, <2>1, <2>4
  <2>7. \A x \in Descs : In(x, n.free) \/ \E y \in R \ {h} : In(x, Chain(n, y))
    BY <1>2, <1>14, <2>1 DEF w
  <2>8. \A x \in R \ {h} : Chain(n, x) \in Seq(Descs)
    BY <1>2, <1>14
  <2> QED BY <2>1, <2>3, <2>5, <2>6, <2>7, <2>8, ConservedIn
<1>17. RingInv(n, pos, busy)
  <2>1. \A x \in R \ {h} : IsChain(n, Chain(n, x)) /\ Chain(n, x)[1] = x
    BY <1>2, <1>14
  <2>2. Minus(n.nextAvail, pos) <= QSize
    BY <1>1, <1>8
  <2> QED BY <1>1, <1>8, <1>12, <1>13, <1>15, <1>16, <2>1, <2>2 DEF RingInv
<1> QED BY <1>4, <1>5, <1>6, <1>8, <1>9, <1>10, <1>12, <1>17 DEF n, h, R

\* Setting the notify flag touches nothing else.
LEMMA FlagRing ==
    ASSUME NEW Q, NEW pos, NEW busy, RingInv(Q, pos, busy), NEW f \in BOOLEAN
    PROVE  LET n == [Q EXCEPT !.noNotify = f]
           IN  /\ RingInv(n, pos, busy) /\ n.noNotify = f
               /\ InRing(n, pos, busy) = InRing(Q, pos, busy)
               /\ Published(n, pos) = Published(Q, pos) /\ Answered(n) = Answered(Q)
               /\ \A i : PublishedHead(n, i) = PublishedHead(Q, i)
               /\ \A x \in InRing(Q, pos, busy) : Chain(n, x) = Chain(Q, x)
               /\ n.desc = Q.desc /\ n.nextAvail = Q.nextAvail
<1> DEFINE n == [Q EXCEPT !.noNotify = f]
           R == InRing(Q, pos, busy)
<1>1. /\ Q \in QueueType /\ pos \in Indices /\ busy \subseteq Descs
      /\ Minus(Q.nextAvail, pos) <= QSize /\ Minus(Q.usedIdx, Q.nextUsed) <= QSize
      /\ OnePlace(Q, pos, busy)
      /\ \A x \in R : IsChain(Q, Chain(Q, x)) /\ Chain(Q, x)[1] = x
      /\ Conserved(Q, R)
  BY DEF RingInv
<1>2. /\ n \in QueueType /\ n.noNotify = f
      /\ n.free = Q.free /\ n.desc = Q.desc /\ n.avail = Q.avail /\ n.used = Q.used
      /\ n.usedIdx = Q.usedIdx /\ n.nextAvail = Q.nextAvail /\ n.nextUsed = Q.nextUsed
  BY <1>1 DEF QueueType
<1> HIDE DEF n
<1>3. /\ Published(n, pos) = Published(Q, pos) /\ Answered(n) = Answered(Q)
      /\ \A i : PublishedHead(n, i) = PublishedHead(Q, i) /\ AnsweredHead(n, i) = AnsweredHead(Q, i)
  BY <1>2 DEF Published, Answered, PublishedHead, AnsweredHead
<1>4. InRing(n, pos, busy) = R
  BY <1>3 DEF InRing
<1> HIDE DEF R
<1>5. \A x \in R : Chain(n, x) = Chain(Q, x) /\ IsChain(n, Chain(Q, x))
  BY <1>1, <1>2, ChainKept
<1>6. OnePlace(n, pos, busy)
  BY <1>1, <1>3 DEF OnePlace
<1>7. Conserved(n, R)
  BY <1>1, <1>2, <1>5 DEF Conserved, ChainSet
<1>8. RingInv(n, pos, busy)
  BY <1>1, <1>2, <1>4, <1>5, <1>6, <1>7 DEF RingInv
<1> QED BY <1>2, <1>3, <1>4, <1>5, <1>8 DEF n, R

-----------------------------------------------------------------------------
(* The driver: the first state. *)

LEMMA NewRing ==
    ASSUME NEW i \in Indices
    PROVE  /\ RingInv(NewQueue(i), i, {}) /\ InRing(NewQueue(i), i, {}) = {}
           /\ NewQueue(i).noNotify = FALSE /\ \A d \in Descs : NewQueue(i).desc[d].len = 0
<1> DEFINE n == NewQueue(i)
           fr == [k \in 1 .. QSize |-> k - 1]
           to == [d \in Descs |-> 0]
           de == [d \in Descs |-> [addr |-> 0, len |-> 0, write |-> FALSE, more |-> FALSE, next |-> 0]]
           av == [k \in Descs |-> 0]
           us == [k \in Descs |-> [id |-> 0, len |-> 0]]
<1>1. QSize \in Nat \ {0} /\ 0 \in Descs
  BY QueueAssumption DEF Descs
<1>2. fr \in Seq(Descs) /\ Len(fr) = QSize
  <2>1. fr \in [1 .. QSize -> Descs]
    BY <1>1 DEF Descs
  <2> QED BY <1>1, <2>1
<1>3. /\ to \in [Descs -> Nat] /\ av \in [Descs -> Descs]
      /\ us \in [Descs -> [id : Descs, len : Nat]]
  BY <1>1
<1>4. de \in [Descs -> Descriptor]
  BY <1>1 DEF Descriptor
<1>5. n = [free |-> fr, nextAvail |-> i, nextUsed |-> i, lastNotify |-> 0, token |-> to, desc |-> de,
           avail |-> av, used |-> us, usedIdx |-> i, noNotify |-> FALSE]
  BY DEF NewQueue
<1>6. \A d \in Descs : de[d].len = 0
  OBVIOUS
<1>7. \A k \in 1 .. QSize : fr[k] = k - 1
  OBVIOUS
<1> HIDE DEF n, fr, to, de, av, us
<1>8. n \in QueueType
  <2>1. 0 \in Nat /\ FALSE \in BOOLEAN
    OBVIOUS
  <2> QED BY <1>2, <1>3, <1>4, <1>5, <2>1, QueueMade
<1>9. /\ n.free = fr /\ n.nextAvail = i /\ n.nextUsed = i /\ n.usedIdx = i /\ n.noNotify = FALSE
      /\ n.desc = de
  BY <1>5
<1>10. Published(n, i) = {} /\ Answered(n) = {}
  BY <1>9, WindowEmpty DEF Published, Answered
<1>11. InRing(n, i, {}) = {}
  BY <1>10 DEF InRing
<1>12. Conserved(n, {})
  <2>1. Distinct(fr)
    <3>1. ASSUME NEW j \in 1 .. QSize, NEW k \in 1 .. QSize, fr[j] = fr[k] PROVE j = k
      <4>1. j - 1 = k - 1
        BY <1>7, <3>1
      <4> QED BY <1>1, <4>1
    <3> QED BY <1>2, <3>1 DEF Distinct
  <2>2. \A x \in Descs : In(x, fr)
    <3>1. ASSUME NEW x \in Descs PROVE In(x, fr)
      <4>1. x + 1 \in 1 .. QSize /\ (x + 1) - 1 = x
        BY <1>1 DEF Descs
      <4>2. fr[x + 1] = x
        BY <1>7, <4>1
      <4> QED BY <1>2, <4>1, <4>2 DEF In
    <3> QED BY <3>1
  <2> QED BY <1>2, <1>9, <2>1, <2>2, ConservedIn
<1>13. Minus(i, i) <= QSize
  <2>1. Minus(i, i) = IF i <= i THEN i - i ELSE i + IdxMod - i
    BY IndexArith
  <2>2. i \in Nat
    BY QueueAssumption DEF Indices
  <2> QED BY <1>1, <2>1, <2>2
<1>14. OnePlace(n, i, {})
  BY <1>10 DEF OnePlace
<1>15. RingInv(n, i, {})
  BY <1>8, <1>9, <1>11, <1>12, <1>13, <1>14 DEF RingInv
<1> QED BY <1>6, <1>9, <1>11, <1>15 DEF n

-----------------------------------------------------------------------------
(* The driver: BlkInv in four parts, and what each says about a thread.    *)

ThreadInv ==
    /\ mutex \in Seq(Threads) /\ pc \in [Threads -> Steps]
    /\ op \in [Threads -> Ops \cup {NoOp}] /\ data \in [Threads -> Seq(Sectors)]
    /\ done \in [Threads -> Nat]
    /\ MutexOrder /\ OpsAccepted

DeviceInv ==
    /\ header \in [kind : Kinds, lba : Nat] /\ bounce \in [Cells -> Sectors]
    /\ disk \in [0 .. Capacity - 1 -> Sectors] /\ inDev \subseteq Request
    /\ \A d \in Descs : q.desc[d].len <= MaxPerReq

RequestsInv == RingInv(q, seen, Busy) /\ HeadsApart

SignalInv == (asleep => ~q.noNotify) /\ NoLostNotification

LEMMA BlkInvParts ==
    BlkInv <=> ThreadInv /\ DeviceInv /\ RequestsInv /\ timeouts \in Nat /\ LeftBehind /\ SignalInv
BY DEF BlkInv, BlkTypes, ThreadInv, DeviceInv, RequestsInv, SignalInv

LEMMA BlkInvNext ==
    ASSUME ThreadInv', DeviceInv', RequestsInv', timeouts' \in Nat, LeftBehind', SignalInv'
    PROVE  BlkInv'
BY DEF BlkInv, BlkTypes, ThreadInv, DeviceInv, RequestsInv, SignalInv

\* Operations, as BlkAssumption has them.
LEMMA OpFacts ==
    /\ \A o \in Ops : /\ o.kind \in Kinds /\ o.lba \in Nat /\ o.n \in Nat
                      /\ o.data \in Seq(Sectors) /\ o.n = Len(o.data)
                      /\ o.kind = "flush" => o.n = 0
    /\ NoOp \notin Ops /\ NoThread \notin Threads
    /\ MaxPerReq \in Nat \ {0} /\ Capacity \in Nat \ {0} /\ LbaMod \in Nat
    /\ S_OK \in Sectors /\ S_IOERR \in Sectors /\ StartIdx \in Indices
<1>1. ASSUME NEW o \in Ops
      PROVE  /\ o.kind \in Kinds /\ o.lba \in Nat /\ o.n \in Nat
             /\ o.data \in Seq(Sectors) /\ o.n = Len(o.data)
             /\ o.kind = "flush" => o.n = 0
  <2>1. /\ o.kind \in {"read", "write", "flush"}
        /\ o.lba \in 0 .. LbaMod - 1
        /\ o.n = Len(o.data)
        /\ o.data \in Seq(Sectors)
        /\ o.kind = "flush" => o.n = 0
    BY BlkAssumption
  <2>2. Len(o.data) \in Nat
    BY <2>1, LenProperties
  <2>3. o.lba \in Nat
    BY <2>1
  <2> QED BY <2>1, <2>2, <2>3 DEF Kinds
<1>2. /\ NoOp \notin Ops /\ NoThread \notin Threads
      /\ MaxPerReq \in Nat \ {0} /\ Capacity \in Nat \ {0} /\ LbaMod \in Nat
      /\ S_OK \in Sectors /\ S_IOERR \in Sectors /\ StartIdx \in Indices
  BY BlkAssumption
<1> QED BY <1>1, <1>2

\* Only the thread at the head of the mutex is past "copy" or has sectors behind it.
LEMMA Holder ==
    ASSUME ThreadInv, NEW t \in Threads,
           pc[t] \notin {"idle", "check", "copy"} \/ (pc[t] = "copy" /\ Head(mutex) = t)
    PROVE  /\ mutex # <<>> /\ Head(mutex) = t /\ In(t, mutex)
           /\ \A u \in Threads \ {t} : pc[u] \in {"idle", "check", "copy"} /\ done[u] = 0
<1>1. /\ mutex \in Seq(Threads) /\ done \in [Threads -> Nat] /\ pc \in [Threads -> Steps]
      /\ \A u \in Threads : In(u, mutex) <=> pc[u] \notin {"idle", "check"}
      /\ \A u \in Threads : pc[u] \notin {"idle", "check", "copy"} \/ done[u] > 0 => u = Head(mutex)
  BY DEF ThreadInv, MutexOrder
<1>2. Head(mutex) = t /\ In(t, mutex)
  BY <1>1
<1>3. mutex # <<>>
  BY <1>2 DEF In
<1>4. ASSUME NEW u \in Threads \ {t} PROVE pc[u] \in {"idle", "check", "copy"} /\ done[u] = 0
  <2>1. done[u] \in Nat /\ ~(done[u] > 0)
    BY <1>1, <1>2
  <2> QED BY <1>1, <1>2, <2>1
<1> QED BY <1>2, <1>3, <1>4

\* The request a thread is about: what it moves, and the buffers of its chain.
LEMMA RequestFacts ==
    ASSUME ThreadInv, NEW t \in Threads, pc[t] \notin {"idle", "check"}
    PROVE  /\ op[t] \in Ops /\ op[t].kind \in Kinds /\ op[t].lba \in Nat /\ op[t].n \in Nat
           /\ done[t] \in Nat /\ data[t] \in Seq(Sectors) /\ Len(data[t]) = op[t].n
           /\ op[t].kind # "flush" =>
                  /\ This(t) \in 1 .. MaxPerReq /\ done[t] + This(t) <= op[t].n
                  /\ op[t].lba + op[t].n <= Capacity
           /\ op[t].kind = "flush" => done[t] + This(t) >= op[t].n
           /\ StatusCell(t) \in Cells /\ StatusCell(t) = IF op[t].kind = "flush" THEN 1 ELSE 1 + This(t)
<1>1. /\ op \in [Threads -> Ops \cup {NoOp}] /\ data \in [Threads -> Seq(Sectors)]
      /\ done \in [Threads -> Nat]
      /\ pc[t] = "idle" <=> op[t] = NoOp
      /\ pc[t] # "idle" => Len(data[t]) = op[t].n
      /\ op[t].kind # "flush" => done[t] < op[t].n /\ op[t].lba + op[t].n <= Capacity
  BY DEF ThreadInv, OpsAccepted
<1>2. op[t] \in Ops
  BY <1>1
<1>3. /\ op[t].kind \in Kinds /\ op[t].lba \in Nat /\ op[t].n \in Nat
      /\ op[t].kind = "flush" => op[t].n = 0
      /\ MaxPerReq \in Nat \ {0}
  BY <1>2, OpFacts
<1>4. done[t] \in Nat /\ data[t] \in Seq(Sectors) /\ Len(data[t]) = op[t].n
  BY <1>1
<1>5. This(t) = IF op[t].n - done[t] < MaxPerReq THEN op[t].n - done[t] ELSE MaxPerReq
  BY DEF This
<1>6. op[t].kind # "flush" => This(t) \in 1 .. MaxPerReq /\ done[t] + This(t) <= op[t].n
  BY <1>1, <1>3, <1>4, <1>5
<1>7. op[t].kind = "flush" => done[t] + This(t) >= op[t].n
  BY <1>3, <1>4, <1>5
<1>8. StatusCell(t) = IF op[t].kind = "flush" THEN 1 ELSE 1 + This(t)
  BY DEF StatusCell
<1>9. StatusCell(t) \in Cells
  BY <1>3, <1>6, <1>8 DEF Cells
<1> QED BY <1>1, <1>2, <1>3, <1>4, <1>6, <1>7, <1>8, <1>9

LEMMA BufferFacts ==
    ASSUME ThreadInv, NEW t \in Threads, pc[t] \notin {"idle", "check"}
    PROVE  /\ Buffers(t) \in Seq(BufferType) /\ Len(Buffers(t)) = IF op[t].kind = "flush" THEN 2 ELSE 3
           /\ \A i \in 1 .. Len(Buffers(t)) : Buffers(t)[i] \in BufferType /\ Buffers(t)[i].len <= MaxPerReq
           /\ Buffers(t)[Len(Buffers(t))].addr = StatusCell(t)
           /\ op[t].kind # "flush" => /\ Buffers(t)[2].len = This(t)
                                      /\ Buffers(t)[2].write = (op[t].kind = "read")
<1> DEFINE hdr == [addr |-> 0, len |-> 1, write |-> FALSE]
           dat == [addr |-> 1, len |-> This(t), write |-> op[t].kind = "read"]
           sta == [addr |-> StatusCell(t), len |-> 1, write |-> TRUE]
<1>1. /\ op[t].kind # "flush" => This(t) \in 1 .. MaxPerReq
      /\ StatusCell(t) \in Cells /\ MaxPerReq \in Nat \ {0}
  BY RequestFacts, OpFacts
<1>2. hdr \in BufferType /\ hdr.len <= MaxPerReq
  BY <1>1 DEF BufferType
<1>3. sta \in BufferType /\ sta.len <= MaxPerReq /\ sta.addr = StatusCell(t)
  BY <1>1 DEF BufferType, Cells
<1>4. op[t].kind # "flush" => dat \in BufferType /\ dat.len <= MaxPerReq
  <2>1. (op[t].kind = "read") \in BOOLEAN
    OBVIOUS
  <2> QED BY <1>1, <2>1 DEF BufferType
<1>5. dat.len = This(t) /\ dat.write = (op[t].kind = "read")
  OBVIOUS
<1>6. Buffers(t) = IF op[t].kind = "flush" THEN <<hdr, sta>> ELSE <<hdr, dat, sta>>
  BY DEF Buffers
<1> HIDE DEF hdr, dat, sta
<1>7. CASE op[t].kind = "flush"
  <2>1. Buffers(t) = <<hdr, sta>>
    BY <1>6, <1>7
  <2>2. Buffers(t) \in Seq(BufferType) /\ Len(Buffers(t)) = 2 /\ Buffers(t)[1] = hdr /\ Buffers(t)[2] = sta
    BY <1>2, <1>3, <2>1
  <2>3. \A i \in 1 .. Len(Buffers(t)) : i = 1 \/ i = 2
    BY <2>2
  <2> QED BY <1>2, <1>3, <1>7, <2>2, <2>3
<1>8. CASE op[t].kind # "flush"
  <2>1. Buffers(t) = <<hdr, dat, sta>>
    BY <1>6, <1>8
  <2>2. /\ Buffers(t) \in Seq(BufferType) /\ Len(Buffers(t)) = 3
        /\ Buffers(t)[1] = hdr /\ Buffers(t)[2] = dat /\ Buffers(t)[3] = sta
    BY <1>2, <1>3, <1>4, <1>8, <2>1
  <2>3. \A i \in 1 .. Len(Buffers(t)) : i = 1 \/ i = 2 \/ i = 3
    BY <2>2
  <2> QED BY <1>2, <1>3, <1>4, <1>5, <1>8, <2>2, <2>3
<1> QED BY <1>7, <1>8

\* Who awaits is alone with it.
LEMMA AwaitingIs ==
    ASSUME ThreadInv, NEW t \in Threads,
           pc[t] \notin {"idle", "check", "copy"} \/ (pc[t] = "copy" /\ Head(mutex) = t)
    PROVE  Awaiting = IF pc[t] \in {"notify", "poll", "clock"} THEN {t} ELSE {}
<1>1. \A u \in Threads \ {t} : pc[u] \in {"idle", "check", "copy"}
  BY Holder
<1> QED BY <1>1 DEF Awaiting

\* Without its head a queue holds the others.
LEMMA TailHolds ==
    ASSUME NEW S, NEW m \in Seq(S), m # <<>>, Distinct(m)
    PROVE  /\ Tail(m) \in Seq(S) /\ Distinct(Tail(m)) /\ In(Head(m), m)
           /\ \A x : In(x, Tail(m)) <=> In(x, m) /\ x # Head(m)
<1>1. Len(m) \in Nat \ {0}
  BY EmptySeq
<1>2. Tail(m) \in Seq(S) /\ Len(Tail(m)) = Len(m) - 1 /\ \A i \in 1 .. Len(m) - 1 : Tail(m)[i] = m[i + 1]
  BY HeadTailProperties
<1>3. Head(m) = m[1]
  BY <1>1
<1>4. \A i \in 1 .. Len(m) - 1 : i + 1 \in 1 .. Len(m) /\ i + 1 # 1
  BY <1>1
<1>5. Distinct(Tail(m))
  <2>1. ASSUME NEW i \in 1 .. Len(m) - 1, NEW j \in 1 .. Len(m) - 1, Tail(m)[i] = Tail(m)[j] PROVE i = j
    <3>1. i + 1 = j + 1
      BY <1>2, <1>4, <2>1 DEF Distinct
    <3> QED BY <1>1, <3>1
  <2> QED BY <1>2, <2>1 DEF Distinct
<1>6. ASSUME NEW x, In(x, Tail(m)) PROVE In(x, m) /\ x # Head(m)
  <2>1. PICK i \in 1 .. Len(m) - 1 : m[i + 1] = x
    BY <1>2, <1>6 DEF In
  <2>2. i + 1 \in 1 .. Len(m) /\ i + 1 # 1 /\ 1 \in 1 .. Len(m)
    BY <1>1, <1>4
  <2> QED BY <1>3, <2>1, <2>2 DEF In, Distinct
<1>7. ASSUME NEW x, In(x, m), x # Head(m) PROVE In(x, Tail(m))
  <2>1. PICK i \in 1 .. Len(m) : m[i] = x
    BY <1>7 DEF In
  <2>2. i - 1 \in 1 .. Len(m) - 1 /\ (i - 1) + 1 = i
    BY <1>1, <1>3, <1>7, <2>1
  <2>3. Tail(m)[i - 1] = x
    BY <1>2, <2>1, <2>2
  <2> QED BY <1>2, <2>2, <2>3 DEF In
<1>8. In(Head(m), m)
  BY <1>1, <1>3 DEF In
<1> QED BY <1>2, <1>5, <1>6, <1>7, <1>8

\* An operation that returns leaves the mutex, if it was in it, to the others.
LEMMA DoneThread ==
    ASSUME ThreadInv, NEW t \in Threads, NEW r, Done(t, r),
           pc[t] \notin {"idle", "copy"},
           data' \in [Threads -> Seq(Sectors)], \A u \in Threads \ {t} : data'[u] = data[u]
    PROVE  ThreadInv' /\ Awaiting' = Awaiting \ {t} /\ pc' = [pc EXCEPT ![t] = "idle"]
<1>1. /\ mutex \in Seq(Threads) /\ pc \in [Threads -> Steps]
      /\ op \in [Threads -> Ops \cup {NoOp}] /\ done \in [Threads -> Nat]
      /\ Distinct(mutex)
      /\ \A u \in Threads : In(u, mutex) <=> pc[u] \notin {"idle", "check"}
      /\ \A u \in Threads : pc[u] \notin {"idle", "check", "copy"} \/ done[u] > 0 => u = Head(mutex)
      /\ OpsAccepted
  BY DEF ThreadInv, MutexOrder
<1>2. /\ pc' = [pc EXCEPT ![t] = "idle"] /\ op' = [op EXCEPT ![t] = NoOp]
      /\ done' = [done EXCEPT ![t] = 0]
      /\ mutex' = IF mutex # <<>> /\ Head(mutex) = t THEN Tail(mutex) ELSE mutex
  BY DEF Done
<1>3. pc' \in [Threads -> Steps] /\ op' \in [Threads -> Ops \cup {NoOp}] /\ done' \in [Threads -> Nat]
  BY <1>1, <1>2 DEF Steps
<1>4. OpsAccepted'
  <2>1. ASSUME NEW u \in Threads
        PROVE  /\ pc'[u] = "idle" <=> op'[u] = NoOp
               /\ pc'[u] \in {"idle", "check"} => done'[u] = 0
               /\ pc'[u] # "idle" => Len(data'[u]) = op'[u].n
               /\ pc'[u] \notin {"idle", "check"} /\ op'[u].kind # "flush" =>
                      done'[u] < op'[u].n /\ op'[u].lba + op'[u].n <= Capacity
    <3>1. CASE u = t
      BY <1>1, <1>2, <3>1
    <3>2. CASE u # t
      BY <1>1, <1>2, <3>2 DEF OpsAccepted
    <3> QED BY <3>1, <3>2
  <2> QED BY <2>1 DEF OpsAccepted
<1>5. /\ mutex' \in Seq(Threads) /\ Distinct(mutex')
      /\ \A u \in Threads : In(u, mutex') <=> In(u, mutex) /\ u # t
  <2>1. CASE mutex # <<>> /\ Head(mutex) = t
    BY <1>1, <1>2, <2>1, TailHolds
  <2>2. CASE ~(mutex # <<>> /\ Head(mutex) = t)
    <3>1. pc[t] = "check"
      <4>1. SUFFICES ASSUME pc[t] # "check" PROVE FALSE
        OBVIOUS
      <4>2. pc[t] \notin {"idle", "check", "copy"}
        BY <4>1
      <4> QED BY <2>2, <4>2, Holder
    <3>2. ~In(t, mutex)
      BY <1>1, <3>1
    <3> QED BY <1>1, <1>2, <2>2, <3>2
  <2> QED BY <2>1, <2>2
<1>6. MutexOrder'
  <2>1. \A u \in Threads : In(u, mutex') <=> pc'[u] \notin {"idle", "check"}
    BY <1>1, <1>2, <1>5
  <2>2. ASSUME NEW u \in Threads, pc'[u] \notin {"idle", "check", "copy"} \/ done'[u] > 0
        PROVE  u = Head(mutex')
    <3>1. u # t
      BY <1>1, <1>2, <2>2
    <3>2. pc[u] \notin {"idle", "check", "copy"} \/ done[u] > 0
      BY <1>1, <1>2, <2>2, <3>1
    <3>3. u = Head(mutex)
      BY <1>1, <3>2
    <3>4. pc[t] \notin {"idle", "check", "copy"} => FALSE
      BY <1>1, <3>1, <3>3
    <3>5. ~In(t, mutex)
      BY <1>1, <3>4
    <3>6. mutex' = mutex
      BY <1>1, <1>2, <3>1, <3>3
    <3> QED BY <3>3, <3>6
  <2> QED BY <1>5, <2>1, <2>2 DEF MutexOrder
<1>7. Awaiting' = Awaiting \ {t}
  BY <1>1, <1>2 DEF Awaiting
<1> QED BY <1>2, <1>3, <1>4, <1>5, <1>6, <1>7 DEF ThreadInv

\* The holder of the mutex goes on with its request.
LEMMA StepThread ==
    ASSUME ThreadInv, NEW t \in Threads, NEW s \in {"add", "notify", "poll", "clock"},
           pc[t] \notin {"idle", "check"}, pc' = [pc EXCEPT ![t] = s], Head(mutex) = t,
           UNCHANGED <<mutex, op, data, done>>
    PROVE  ThreadInv' /\ \A u \in Threads : pc'[u] = IF u = t THEN s ELSE pc[u]
<1>1. /\ mutex \in Seq(Threads) /\ pc \in [Threads -> Steps]
      /\ op \in [Threads -> Ops \cup {NoOp}] /\ done \in [Threads -> Nat] /\ data \in [Threads -> Seq(Sectors)]
      /\ Distinct(mutex)
      /\ \A u \in Threads : In(u, mutex) <=> pc[u] \notin {"idle", "check"}
      /\ \A u \in Threads : pc[u] \notin {"idle", "check", "copy"} \/ done[u] > 0 => u = Head(mutex)
      /\ OpsAccepted
  BY DEF ThreadInv, MutexOrder
<1>2. pc' \in [Threads -> Steps] /\ \A u \in Threads : pc'[u] = IF u = t THEN s ELSE pc[u]
  BY <1>1 DEF Steps
<1>3. MutexOrder'
  <2>1. \A u \in Threads : In(u, mutex') <=> pc'[u] \notin {"idle", "check"}
    BY <1>1, <1>2
  <2>2. \A u \in Threads : pc'[u] \notin {"idle", "check", "copy"} \/ done'[u] > 0 => u = Head(mutex')
    BY <1>1, <1>2
  <2> QED BY <1>1, <2>1, <2>2 DEF MutexOrder
<1>4. OpsAccepted'
  <2>1. ASSUME NEW u \in Threads
        PROVE  /\ pc'[u] = "idle" <=> op'[u] = NoOp
               /\ pc'[u] \in {"idle", "check"} => done'[u] = 0
               /\ pc'[u] # "idle" => Len(data'[u]) = op'[u].n
               /\ pc'[u] \notin {"idle", "check"} /\ op'[u].kind # "flush" =>
                      done'[u] < op'[u].n /\ op'[u].lba + op'[u].n <= Capacity
    <3>1. CASE u = t
      BY <1>1, <1>2, <3>1 DEF OpsAccepted
    <3>2. CASE u # t
      BY <1>1, <1>2, <3>2 DEF OpsAccepted
    <3> QED BY <3>1, <3>2
  <2> QED BY <2>1 DEF OpsAccepted
<1> QED BY <1>1, <1>2, <1>3, <1>4 DEF ThreadInv

\* What a step leaves alone.
LEMMA SameThreads ==
    ASSUME ThreadInv, UNCHANGED <<mutex, pc, op, data, done>>
    PROVE  ThreadInv' /\ Awaiting' = Awaiting
BY DEF ThreadInv, MutexOrder, OpsAccepted, Awaiting

LEMMA SameRequests ==
    ASSUME RequestsInv, UNCHANGED <<q, seen, inDev>>
    PROVE  RequestsInv' /\ Outstanding' = Outstanding
<1>1. Busy' = Busy
  BY DEF Busy
<1>2. RequestsInv'
  BY <1>1 DEF RequestsInv, HeadsApart
<1> QED BY <1>1, <1>2 DEF Outstanding

LEMMA SameDevice ==
    ASSUME DeviceInv, UNCHANGED <<header, bounce, disk, inDev, q>>
    PROVE  DeviceInv'
BY DEF DeviceInv

LEMMA SameSignals ==
    ASSUME SignalInv, UNCHANGED <<q, seen, asleep, kicked>>,
           \A u \in Threads : pc[u] = "notify" => pc'[u] = "notify"
    PROVE  SignalInv'
BY DEF SignalInv, NoLostNotification, HasAvail

LEMMA Counts ==
    ASSUME RequestsInv
    PROVE  /\ Outstanding \subseteq Descs /\ IsFiniteSet(Outstanding) /\ Cardinality(Outstanding) \in Nat
           /\ \A x : Cardinality({x}) = 1
           /\ Cardinality({}) = 0
<1>1. Outstanding \subseteq Descs
  BY RingFacts DEF RequestsInv, Outstanding
<1>2. IsFiniteSet(Outstanding)
  BY <1>1, DescsFinite, FS_Subset
<1> QED BY <1>1, <1>2, FS_CardinalityType, FS_Singleton, FS_EmptySet

LEMMA InitBlk == Init => BlkInv
<1> SUFFICES ASSUME Init PROVE BlkInv
  OBVIOUS
<1>1. /\ q = NewQueue(StartIdx) /\ seen = StartIdx /\ inDev = {}
      /\ header = [kind |-> "read", lba |-> 0] /\ mutex = <<>>
      /\ pc = [t \in Threads |-> "idle"] /\ op = [t \in Threads |-> NoOp]
      /\ data = [t \in Threads |-> <<>>] /\ done = [t \in Threads |-> 0]
      /\ disk = [s \in 0 .. Capacity - 1 |-> S_OK]
      /\ asleep = FALSE /\ timeouts = 0
      /\ \E b \in Sectors : bounce = [c \in Cells |-> b]
  BY DEF Init
<1>2. /\ RingInv(NewQueue(StartIdx), StartIdx, {}) /\ InRing(NewQueue(StartIdx), StartIdx, {}) = {}
      /\ \A d \in Descs : NewQueue(StartIdx).desc[d].len = 0
  BY NewRing, OpFacts
<1>3. Busy = {}
  BY <1>1 DEF Busy
<1>4. RequestsInv /\ Outstanding = {}
  BY <1>1, <1>2, <1>3 DEF RequestsInv, HeadsApart, Outstanding
<1>5. ThreadInv
  <2>1. mutex \in Seq(Threads) /\ Len(mutex) = 0
    BY <1>1
  <2>2. pc \in [Threads -> Steps] /\ op \in [Threads -> Ops \cup {NoOp}] /\ done \in [Threads -> Nat]
    BY <1>1 DEF Steps
  <2>3. data \in [Threads -> Seq(Sectors)]
    <3>1. <<>> \in Seq(Sectors)
      BY EmptySeq
    <3> QED BY <1>1, <3>1
  <2>4. MutexOrder
    BY <1>1, <2>1 DEF MutexOrder, Distinct, In
  <2>5. OpsAccepted
    BY <1>1 DEF OpsAccepted
  <2> QED BY <2>1, <2>2, <2>3, <2>4, <2>5 DEF ThreadInv
<1>6. DeviceInv
  <2>1. header \in [kind : Kinds, lba : Nat]
    BY <1>1 DEF Kinds
  <2>2. bounce \in [Cells -> Sectors] /\ disk \in [0 .. Capacity - 1 -> Sectors]
    BY <1>1, OpFacts
  <2>3. \A d \in Descs : q.desc[d].len <= MaxPerReq
    BY <1>1, <1>2, OpFacts
  <2> QED BY <1>1, <2>1, <2>2, <2>3 DEF DeviceInv
<1>7. Awaiting = {}
  BY <1>1 DEF Awaiting
<1>8. LeftBehind
  BY <1>1, <1>4, <1>7, FS_EmptySet DEF LeftBehind
<1>9. SignalInv
  BY <1>1 DEF SignalInv, NoLostNotification
<1> QED BY <1>1, <1>4, <1>5, <1>6, <1>8, <1>9, BlkInvParts

LEMMA EnterBlk ==
    ASSUME BlkInv, NEW t \in Threads, Enter(t)
    PROVE  BlkInv'
<1>1. ThreadInv /\ DeviceInv /\ RequestsInv /\ timeouts \in Nat /\ LeftBehind /\ SignalInv
  BY BlkInvParts
<1>2. PICK o \in Ops :
         /\ pc[t] = "idle" /\ pc' = [pc EXCEPT ![t] = "check"]
         /\ op' = [op EXCEPT ![t] = o] /\ data' = [data EXCEPT ![t] = o.data]
         /\ UNCHANGED <<q, header, bounce, mutex, done, disk, seen, inDev, asleep, kicked, timeouts>>
  BY DEF Enter, devVars
<1>3. /\ mutex \in Seq(Threads) /\ pc \in [Threads -> Steps]
      /\ op \in [Threads -> Ops \cup {NoOp}] /\ data \in [Threads -> Seq(Sectors)]
      /\ done \in [Threads -> Nat]
      /\ MutexOrder /\ OpsAccepted
  BY <1>1 DEF ThreadInv
<1>4. o.data \in Seq(Sectors) /\ o.n = Len(o.data) /\ o # NoOp
  BY OpFacts
<1>5. /\ pc' \in [Threads -> Steps] /\ op' \in [Threads -> Ops \cup {NoOp}]
      /\ data' \in [Threads -> Seq(Sectors)]
  BY <1>2, <1>3, <1>4 DEF Steps
<1>6. MutexOrder'
  BY <1>2, <1>3 DEF MutexOrder
<1>7. OpsAccepted'
  <2>1. ASSUME NEW u \in Threads
        PROVE  /\ pc'[u] = "idle" <=> op'[u] = NoOp
               /\ pc'[u] \in {"idle", "check"} => done'[u] = 0
               /\ pc'[u] # "idle" => Len(data'[u]) = op'[u].n
               /\ pc'[u] \notin {"idle", "check"} /\ op'[u].kind # "flush" =>
                      done'[u] < op'[u].n /\ op'[u].lba + op'[u].n <= Capacity
    <3>1. CASE u = t
      BY <1>2, <1>3, <1>4, <3>1 DEF OpsAccepted
    <3>2. CASE u # t
      BY <1>2, <1>3, <3>2 DEF OpsAccepted
    <3> QED BY <3>1, <3>2
  <2> QED BY <2>1 DEF OpsAccepted
<1>8. ThreadInv'
  BY <1>2, <1>3, <1>5, <1>6, <1>7 DEF ThreadInv
<1>9. Awaiting' = Awaiting /\ \A u \in Threads : pc[u] = "notify" => pc'[u] = "notify"
  BY <1>2, <1>3 DEF Awaiting
<1>10. RequestsInv' /\ Outstanding' = Outstanding /\ DeviceInv' /\ SignalInv'
  BY <1>1, <1>2, <1>9, SameRequests, SameDevice, SameSignals
<1>11. LeftBehind'
  BY <1>1, <1>2, <1>9, <1>10 DEF LeftBehind
<1> QED BY <1>1, <1>2, <1>8, <1>10, <1>11, BlkInvNext

LEMMA CheckBlk ==
    ASSUME BlkInv, NEW t \in Threads, Check(t)
    PROVE  BlkInv'
<1>1. ThreadInv /\ DeviceInv /\ RequestsInv /\ timeouts \in Nat /\ LeftBehind /\ SignalInv
  BY BlkInvParts
<1>2. /\ pc[t] = "check"
      /\ UNCHANGED <<q, header, bounce, data, disk, seen, inDev, asleep, kicked, timeouts>>
      /\ \/ Refusal(op[t]) # "none" /\ Done(t, Refusal(op[t]))
         \/ /\ Refusal(op[t]) = "none" /\ mutex' = Append(mutex, t)
            /\ pc' = [pc EXCEPT ![t] = "copy"] /\ UNCHANGED <<op, done>>
  BY DEF Check, devVars
<1>3. /\ mutex \in Seq(Threads) /\ pc \in [Threads -> Steps]
      /\ op \in [Threads -> Ops \cup {NoOp}] /\ data \in [Threads -> Seq(Sectors)]
      /\ done \in [Threads -> Nat]
      /\ Distinct(mutex)
      /\ \A u \in Threads : In(u, mutex) <=> pc[u] \notin {"idle", "check"}
      /\ \A u \in Threads : pc[u] \notin {"idle", "check", "copy"} \/ done[u] > 0 => u = Head(mutex)
      /\ OpsAccepted
  BY <1>1 DEF ThreadInv, MutexOrder
<1>4. ThreadInv' /\ Awaiting' = Awaiting /\ \A u \in Threads : pc[u] = "notify" => pc'[u] = "notify"
  <2>1. CASE Refusal(op[t]) # "none" /\ Done(t, Refusal(op[t]))
    <3>1. data' \in [Threads -> Seq(Sectors)] /\ \A u \in Threads \ {t} : data'[u] = data[u]
      BY <1>2, <1>3
    <3>2. ThreadInv' /\ Awaiting' = Awaiting \ {t} /\ pc' = [pc EXCEPT ![t] = "idle"]
      BY <1>1, <1>2, <2>1, <3>1, DoneThread
    <3> QED BY <1>2, <1>3, <3>2 DEF Awaiting
  <2>2. CASE /\ Refusal(op[t]) = "none" /\ mutex' = Append(mutex, t)
             /\ pc' = [pc EXCEPT ![t] = "copy"] /\ UNCHANGED <<op, done>>
    <3>1. pc' \in [Threads -> Steps] /\ \A u \in Threads : pc'[u] = IF u = t THEN "copy" ELSE pc[u]
      BY <1>3, <2>2 DEF Steps
    <3>2. ~In(t, mutex)
      BY <1>2, <1>3
    <3>3. /\ mutex' \in Seq(Threads) /\ Distinct(mutex')
          /\ \A u : In(u, mutex') <=> In(u, mutex) \/ u = t
          /\ Head(mutex') = IF mutex = <<>> THEN t ELSE Head(mutex)
      BY <1>3, <2>2, <3>2, InAppend, DistinctAppend, AppendProperties, HeadTailAppend
    <3>4. op[t] \in Ops /\ done[t] = 0 /\ Len(data[t]) = op[t].n
      BY <1>2, <1>3 DEF OpsAccepted
    <3>5. MutexOrder'
      <4>1. \A u \in Threads : In(u, mutex') <=> pc'[u] \notin {"idle", "check"}
        BY <1>3, <3>1, <3>3
      <4>2. ASSUME NEW u \in Threads, pc'[u] \notin {"idle", "check", "copy"} \/ done'[u] > 0
            PROVE  u = Head(mutex')
        <5>1. u # t /\ (pc[u] \notin {"idle", "check", "copy"} \/ done[u] > 0)
          BY <2>2, <3>1, <3>4, <4>2
        <5>2. u = Head(mutex) /\ pc[u] \notin {"idle", "check"}
          BY <1>3, <5>1 DEF OpsAccepted
        <5>3. mutex # <<>>
          BY <1>3, <5>2 DEF In
        <5> QED BY <3>3, <5>2, <5>3
      <4> QED BY <3>3, <4>1, <4>2 DEF MutexOrder
    <3>6. OpsAccepted'
      <4>1. ASSUME op[t].kind # "flush" PROVE done[t] < op[t].n /\ op[t].lba + op[t].n <= Capacity
        <5>1. op[t].n # 0 /\ ~OutOfRange(op[t])
          BY <2>2, <4>1 DEF Refusal
        <5>2. op[t].n \in Nat /\ op[t].lba \in Nat /\ Capacity \in Nat
          BY <3>4, OpFacts
        <5> QED BY <3>4, <5>1, <5>2 DEF OutOfRange
      <4>2. ASSUME NEW u \in Threads
            PROVE  /\ pc'[u] = "idle" <=> op'[u] = NoOp
                   /\ pc'[u] \in {"idle", "check"} => done'[u] = 0
                   /\ pc'[u] # "idle" => Len(data'[u]) = op'[u].n
                   /\ pc'[u] \notin {"idle", "check"} /\ op'[u].kind # "flush" =>
                          done'[u] < op'[u].n /\ op'[u].lba + op'[u].n <= Capacity
        <5>1. CASE u = t
          BY <1>2, <2>2, <3>1, <3>4, <4>1, <5>1, OpFacts
        <5>2. CASE u # t
          BY <1>2, <1>3, <2>2, <3>1, <5>2 DEF OpsAccepted
        <5> QED BY <5>1, <5>2
      <4> QED BY <4>2 DEF OpsAccepted
    <3>7. ThreadInv'
      BY <1>2, <1>3, <2>2, <3>1, <3>3, <3>5, <3>6 DEF ThreadInv
    <3> QED BY <1>2, <3>1, <3>7 DEF Awaiting
  <2> QED BY <1>2, <2>1, <2>2
<1>5. RequestsInv' /\ Outstanding' = Outstanding /\ DeviceInv' /\ SignalInv'
  BY <1>1, <1>2, <1>4, SameRequests, SameDevice, SameSignals
<1>6. LeftBehind'
  BY <1>1, <1>2, <1>4, <1>5 DEF LeftBehind
<1> QED BY <1>1, <1>2, <1>4, <1>5, <1>6, BlkInvNext

LEMMA CopyInBlk ==
    ASSUME BlkInv, NEW t \in Threads, CopyIn(t)
    PROVE  BlkInv'
<1>1. ThreadInv /\ DeviceInv /\ RequestsInv /\ timeouts \in Nat /\ LeftBehind /\ SignalInv
  BY BlkInvParts
<1>2. /\ pc[t] = "copy" /\ Head(mutex) = t /\ pc' = [pc EXCEPT ![t] = "add"]
      /\ header' = [kind |-> op[t].kind, lba |-> op[t].lba + done[t]]
      /\ bounce' = IF op[t].kind = "write"
                   THEN [c \in Cells |-> IF c <= This(t) THEN data[t][done[t] + c] ELSE bounce[c]]
                   ELSE bounce
      /\ UNCHANGED <<q, mutex, op, data, done, disk, seen, inDev, asleep, kicked, timeouts>>
  BY DEF CopyIn, devVars
<1>3. ThreadInv' /\ \A u \in Threads : pc'[u] = IF u = t THEN "add" ELSE pc[u]
  BY <1>1, <1>2, StepThread
<1>4. Awaiting' = Awaiting /\ \A u \in Threads : pc[u] = "notify" => pc'[u] = "notify"
  BY <1>2, <1>3 DEF Awaiting
<1>5. DeviceInv'
  <2>1. /\ op[t].kind \in Kinds /\ op[t].lba \in Nat /\ op[t].n \in Nat
        /\ done[t] \in Nat /\ data[t] \in Seq(Sectors) /\ Len(data[t]) = op[t].n
        /\ op[t].kind # "flush" => This(t) \in 1 .. MaxPerReq /\ done[t] + This(t) <= op[t].n
    BY <1>1, <1>2, RequestFacts
  <2>2. header' \in [kind : Kinds, lba : Nat]
    BY <1>2, <2>1
  <2>3. bounce' \in [Cells -> Sectors]
    <3>1. bounce \in [Cells -> Sectors]
      BY <1>1 DEF DeviceInv
    <3>2. CASE op[t].kind = "write"
      <4>1. ASSUME NEW c \in Cells, c <= This(t) PROVE data[t][done[t] + c] \in Sectors
        <5>a. MaxPerReq \in Nat \ {0}
          BY OpFacts
        <5>1. done[t] + c \in 1 .. Len(data[t])
          BY <2>1, <3>2, <4>1, <5>a DEF Cells
        <5> QED BY <2>1, <5>1, ElementOfSeq
      <4>2. \A c \in Cells : (IF c <= This(t) THEN data[t][done[t] + c] ELSE bounce[c]) \in Sectors
        BY <3>1, <4>1
      <4> QED BY <1>2, <3>2, <4>2
    <3>3. CASE op[t].kind # "write"
      BY <1>2, <3>1, <3>3
    <3> QED BY <3>2, <3>3
  <2> QED BY <1>1, <1>2, <2>2, <2>3 DEF DeviceInv
<1>6. RequestsInv' /\ Outstanding' = Outstanding /\ SignalInv'
  BY <1>1, <1>2, <1>4, SameRequests, SameSignals
<1>7. LeftBehind'
  BY <1>1, <1>2, <1>4, <1>6 DEF LeftBehind
<1> QED BY <1>1, <1>2, <1>3, <1>5, <1>6, <1>7, BlkInvNext

LEMMA SubmitBlk ==
    ASSUME BlkInv, NEW t \in Threads, Submit(t)
    PROVE  BlkInv'
<1>1. ThreadInv /\ DeviceInv /\ RequestsInv /\ timeouts \in Nat /\ LeftBehind /\ SignalInv
  BY BlkInvParts
<1>2. /\ pc[t] = "add"
      /\ UNCHANGED <<header, bounce, data, disk, seen, inDev, asleep, kicked, timeouts>>
      /\ \/ /\ CanAdd(q, Buffers(t)) /\ q' = Add(q, Buffers(t), op[t].lba + done[t])
            /\ pc' = [pc EXCEPT ![t] = "notify"] /\ UNCHANGED <<mutex, op, done>>
         \/ Done(t, "io") /\ UNCHANGED q
  BY DEF Submit, devVars
<1>3. Head(mutex) = t /\ Awaiting = {}
  BY <1>1, <1>2, Holder, AwaitingIs
<1>4. data \in [Threads -> Seq(Sectors)] /\ pc \in [Threads -> Steps]
  BY <1>1 DEF ThreadInv
<1>5. CASE /\ CanAdd(q, Buffers(t)) /\ q' = Add(q, Buffers(t), op[t].lba + done[t])
           /\ pc' = [pc EXCEPT ![t] = "notify"] /\ UNCHANGED <<mutex, op, done>>
  <2>1. ThreadInv' /\ \A u \in Threads : pc'[u] = IF u = t THEN "notify" ELSE pc[u]
    BY <1>1, <1>2, <1>3, <1>5, StepThread
  <2>2. Awaiting' = {t}
    BY <1>3, <2>1 DEF Awaiting
  <2> DEFINE bs == Buffers(t)
             tok == op[t].lba + done[t]
             ds == Allocated(q, Len(bs))
  <2>3. /\ bs \in Seq(BufferType) /\ tok \in Nat
        /\ \A i \in 1 .. Len(bs) : bs[i].len <= MaxPerReq
    BY <1>1, <1>2, BufferFacts, RequestFacts
  <2>4. RingInv(q, seen, Busy) /\ CanAdd(q, bs) /\ q' = Add(q, bs, tok)
    BY <1>1, <1>5 DEF RequestsInv
  <2> HIDE DEF bs, tok
  <2>5. /\ RingInv(q', seen, Busy)
        /\ ds[1] \in Descs /\ ds[1] \notin InRing(q, seen, Busy)
        /\ InRing(q', seen, Busy) = InRing(q, seen, Busy) \cup {ds[1]}
        /\ ds \in Seq(Descs) /\ Len(ds) = Len(bs)
        /\ \A i \in 1 .. Len(bs) : q'.desc[ds[i]] = ChainDesc(bs, ds, i)
        /\ \A x \in Descs : ~In(x, ds) => q'.desc[x] = q.desc[x]
        /\ q'.noNotify = q.noNotify
    BY <2>3, <2>4, AddRing
  <2> HIDE DEF ds
  <2>6. Busy' = Busy /\ seen' = seen
    BY <1>2 DEF Busy
  <2>7. RequestsInv'
    BY <1>1, <1>2, <2>5, <2>6 DEF RequestsInv, HeadsApart
  <2>8. DeviceInv'
    <3>1. ASSUME NEW x \in Descs PROVE q'.desc[x].len <= MaxPerReq
      <4>1. CASE In(x, ds)
        <5>1. PICK i \in 1 .. Len(bs) : ds[i] = x
          BY <2>5, <4>1 DEF In
        <5>2. ChainDesc(bs, ds, i).len = bs[i].len
          BY DEF ChainDesc
        <5>3. q'.desc[x] = ChainDesc(bs, ds, i)
          BY <2>5, <5>1
        <5> QED BY <2>3, <5>2, <5>3
      <4>2. CASE ~In(x, ds)
        BY <1>1, <2>5, <4>2 DEF DeviceInv
      <4> QED BY <4>1, <4>2
    <3> QED BY <1>1, <1>2, <3>1 DEF DeviceInv
  <2>9. LeftBehind'
    <3>1. Outstanding' = Outstanding \cup {ds[1]} /\ ds[1] \notin Outstanding
      BY <2>5, <2>6 DEF Outstanding
    <3>2. Cardinality(Outstanding') = Cardinality(Outstanding) + 1
      BY <1>1, <3>1, Counts, FS_AddElement
    <3>3. Cardinality(Outstanding) = timeouts + 0
      BY <1>1, <1>3, Counts DEF LeftBehind
    <3>4. Cardinality(Awaiting') = 1
      BY <1>1, <2>2, Counts
    <3> QED BY <1>1, <1>2, <3>2, <3>3, <3>4 DEF LeftBehind
  <2>10. SignalInv'
    <3>1. pc'[t] = "notify"
      BY <2>1
    <3> QED BY <1>1, <1>2, <2>5, <3>1 DEF SignalInv, NoLostNotification
  <2> QED BY <1>1, <1>2, <2>1, <2>7, <2>8, <2>9, <2>10, BlkInvNext
<1>6. CASE Done(t, "io") /\ UNCHANGED q
  <2>1. data' \in [Threads -> Seq(Sectors)] /\ \A u \in Threads \ {t} : data'[u] = data[u]
    BY <1>2, <1>4
  <2>2. ThreadInv' /\ Awaiting' = Awaiting \ {t} /\ pc' = [pc EXCEPT ![t] = "idle"]
    BY <1>1, <1>2, <1>6, <2>1, DoneThread
  <2>3. Awaiting' = Awaiting /\ \A u \in Threads : pc[u] = "notify" => pc'[u] = "notify"
    BY <1>2, <1>3, <1>4, <2>2
  <2>4. RequestsInv' /\ Outstanding' = Outstanding /\ DeviceInv' /\ SignalInv'
    BY <1>1, <1>2, <1>6, <2>3, SameRequests, SameDevice, SameSignals
  <2>5. LeftBehind'
    BY <1>1, <1>2, <2>3, <2>4 DEF LeftBehind
  <2> QED BY <1>1, <1>2, <2>2, <2>4, <2>5, BlkInvNext
<1> QED BY <1>2, <1>5, <1>6

LEMMA NotifyBlk ==
    ASSUME BlkInv, NEW t \in Threads, Notify(t)
    PROVE  BlkInv'
<1>1. ThreadInv /\ DeviceInv /\ RequestsInv /\ timeouts \in Nat /\ LeftBehind /\ SignalInv
  BY BlkInvParts
<1>2. /\ pc[t] = "notify" /\ kicked' = (kicked \/ ~q.noNotify) /\ pc' = [pc EXCEPT ![t] = "poll"]
      /\ UNCHANGED <<q, header, bounce, mutex, op, data, done, disk, seen, inDev, asleep, timeouts>>
  BY DEF Notify, ShouldNotify
<1>3. Head(mutex) = t /\ Awaiting = {t}
  BY <1>1, <1>2, Holder, AwaitingIs
<1>4. ThreadInv' /\ \A u \in Threads : pc'[u] = IF u = t THEN "poll" ELSE pc[u]
  BY <1>1, <1>2, <1>3, StepThread
<1>5. Awaiting' = Awaiting
  BY <1>2, <1>4 DEF Awaiting
<1>6. RequestsInv' /\ Outstanding' = Outstanding /\ DeviceInv'
  BY <1>1, <1>2, SameRequests, SameDevice
<1>7. SignalInv'
  BY <1>1, <1>2 DEF SignalInv, NoLostNotification
<1>8. LeftBehind'
  BY <1>1, <1>2, <1>5, <1>6 DEF LeftBehind
<1> QED BY <1>1, <1>2, <1>4, <1>6, <1>7, <1>8, BlkInvNext

\* PollEmpty and Spin.
LEMMA WaitBlk ==
    ASSUME BlkInv, NEW t \in Threads, PollEmpty(t) \/ Spin(t)
    PROVE  BlkInv'
<1>1. ThreadInv /\ DeviceInv /\ RequestsInv /\ timeouts \in Nat /\ LeftBehind /\ SignalInv
  BY BlkInvParts
<1>2. /\ pc[t] \in {"poll", "clock"}
      /\ \E s \in {"poll", "clock"} : pc' = [pc EXCEPT ![t] = s]
      /\ UNCHANGED <<q, header, bounce, mutex, op, data, done, disk, seen, inDev, asleep, kicked, timeouts>>
  BY DEF PollEmpty, Spin, devVars
<1>3. Head(mutex) = t
  BY <1>1, <1>2, Holder
<1>4. ThreadInv' /\ \E s \in {"poll", "clock"} : \A u \in Threads : pc'[u] = IF u = t THEN s ELSE pc[u]
  BY <1>1, <1>2, <1>3, StepThread
<1>5. Awaiting' = Awaiting /\ \A u \in Threads : pc[u] = "notify" => pc'[u] = "notify"
  BY <1>2, <1>4 DEF Awaiting
<1>6. RequestsInv' /\ Outstanding' = Outstanding /\ DeviceInv' /\ SignalInv'
  BY <1>1, <1>2, <1>5, SameRequests, SameDevice, SameSignals
<1>7. LeftBehind'
  BY <1>1, <1>2, <1>5, <1>6 DEF LeftBehind
<1> QED BY <1>1, <1>2, <1>4, <1>6, <1>7, BlkInvNext

LEMMA ExpireBlk ==
    ASSUME BlkInv, NEW t \in Threads, Expire(t)
    PROVE  BlkInv'
<1>1. ThreadInv /\ DeviceInv /\ RequestsInv /\ timeouts \in Nat /\ LeftBehind /\ SignalInv
  BY BlkInvParts
<1>2. /\ pc[t] = "clock" /\ Done(t, "timeout") /\ timeouts' = timeouts + 1
      /\ UNCHANGED <<q, header, bounce, data, disk, seen, inDev, asleep, kicked>>
  BY DEF Expire, devVars
<1>3. Awaiting = {t}
  BY <1>1, <1>2, AwaitingIs
<1>4. data \in [Threads -> Seq(Sectors)] /\ pc \in [Threads -> Steps]
  BY <1>1 DEF ThreadInv
<1>5. ThreadInv' /\ Awaiting' = Awaiting \ {t} /\ pc' = [pc EXCEPT ![t] = "idle"]
  <2>1. data' \in [Threads -> Seq(Sectors)] /\ \A u \in Threads \ {t} : data'[u] = data[u]
    BY <1>2, <1>4
  <2> QED BY <1>1, <1>2, <2>1, DoneThread
<1>6. Awaiting' = {} /\ \A u \in Threads : pc[u] = "notify" => pc'[u] = "notify"
  BY <1>2, <1>3, <1>4, <1>5
<1>7. RequestsInv' /\ Outstanding' = Outstanding /\ DeviceInv' /\ SignalInv'
  BY <1>1, <1>2, <1>6, SameRequests, SameDevice, SameSignals
<1>8. LeftBehind'
  <2>1. Cardinality(Outstanding) = timeouts + 1
    BY <1>1, <1>3, Counts DEF LeftBehind
  <2>2. Cardinality(Awaiting') = 0
    BY <1>1, <1>6, Counts
  <2> QED BY <1>1, <1>2, <1>7, <2>1, <2>2 DEF LeftBehind
<1>9. timeouts' \in Nat
  BY <1>1, <1>2
<1> QED BY <1>5, <1>7, <1>8, <1>9, BlkInvNext

\* What a completed read leaves in the buffer.
LEMMA CopyOutFacts ==
    ASSUME ThreadInv, DeviceInv, NEW t \in Threads, pc[t] = "poll"
    PROVE  /\ CopyOut(t) \in [Threads -> Seq(Sectors)]
           /\ \A u \in Threads \ {t} : CopyOut(t)[u] = data[u]
           /\ Len(CopyOut(t)[t]) = Len(data[t])
           /\ op[t].kind = "read" =>
                  \A i \in 1 .. Len(data[t]) :
                      CopyOut(t)[t][i] = IF i \in done[t] + 1 .. done[t] + This(t) THEN bounce[i - done[t]]
                                         ELSE data[t][i]
           /\ op[t].kind # "read" => CopyOut(t) = data
<1>1. /\ done[t] \in Nat /\ data[t] \in Seq(Sectors) /\ Len(data[t]) = op[t].n
      /\ op[t].kind # "flush" => This(t) \in 1 .. MaxPerReq /\ done[t] + This(t) <= op[t].n
  BY RequestFacts
<1>2. bounce \in [Cells -> Sectors] /\ data \in [Threads -> Seq(Sectors)] /\ MaxPerReq \in Nat
  BY OpFacts DEF DeviceInv, ThreadInv
<1>3. CASE op[t].kind = "read"
  <2> DEFINE N == Len(data[t])
             f == [i \in DOMAIN data[t] |->
                     IF i \in done[t] + 1 .. done[t] + This(t) THEN bounce[i - done[t]] ELSE data[t][i]]
  <2>1. N \in Nat /\ DOMAIN data[t] = 1 .. N /\ \A i \in 1 .. N : data[t][i] \in Sectors
    BY <1>1, LenProperties, ElementOfSeq
  <2>2. ASSUME NEW i \in 1 .. N, i \in done[t] + 1 .. done[t] + This(t) PROVE bounce[i - done[t]] \in Sectors
    <3>1. i - done[t] \in Cells
      BY <1>1, <1>2, <1>3, <2>2 DEF Cells
    <3> QED BY <1>2, <3>1
  <2>3. f \in [1 .. N -> Sectors] /\ \A i \in 1 .. N :
           f[i] = IF i \in done[t] + 1 .. done[t] + This(t) THEN bounce[i - done[t]] ELSE data[t][i]
    BY <2>1, <2>2
  <2>4. f \in Seq(Sectors) /\ Len(f) = N
    <3> HIDE DEF f
    <3> QED BY <2>1, <2>3
  <2>5. CopyOut(t) = [data EXCEPT ![t] = f]
    BY <1>3 DEF CopyOut
  <2> HIDE DEF f
  <2> QED BY <1>2, <1>3, <2>3, <2>4, <2>5
<1>4. CASE op[t].kind # "read"
  <2>1. CopyOut(t) = data
    BY <1>4 DEF CopyOut
  <2> QED BY <1>2, <1>4, <2>1
<1> QED BY <1>3, <1>4

LEMMA CompletedBlk ==
    ASSUME BlkInv, NEW t \in Threads, Completed(t)
    PROVE  BlkInv'
<1>1. ThreadInv /\ DeviceInv /\ RequestsInv /\ timeouts \in Nat /\ LeftBehind /\ SignalInv
  BY BlkInvParts
<1>2. /\ pc[t] = "poll" /\ HasUsed(q) /\ q' = PopUsed(q)
      /\ UNCHANGED <<header, bounce, disk, seen, inDev, asleep, kicked, timeouts>>
      /\ \/ \E r \in {"io", "ok"} : Done(t, r) /\ (data' = data \/ data' = CopyOut(t))
         \/ /\ data' = CopyOut(t) /\ ~(done[t] + This(t) >= op[t].n)
            /\ done' = [done EXCEPT ![t] = @ + This(t)]
            /\ pc' = [pc EXCEPT ![t] = "copy"] /\ UNCHANGED <<mutex, op>>
  BY DEF Completed, devVars
<1>3. Head(mutex) = t /\ In(t, mutex) /\ Awaiting = {t}
  BY <1>1, <1>2, Holder, AwaitingIs
<1>4. /\ data \in [Threads -> Seq(Sectors)] /\ CopyOut(t) \in [Threads -> Seq(Sectors)]
      /\ \A u \in Threads \ {t} : CopyOut(t)[u] = data[u]
      /\ Len(CopyOut(t)[t]) = Len(data[t])
  BY <1>1, <1>2, CopyOutFacts DEF ThreadInv
<1>5. /\ mutex \in Seq(Threads) /\ pc \in [Threads -> Steps]
      /\ op \in [Threads -> Ops \cup {NoOp}] /\ done \in [Threads -> Nat]
      /\ Distinct(mutex)
      /\ \A u \in Threads : In(u, mutex) <=> pc[u] \notin {"idle", "check"}
      /\ \A u \in Threads : pc[u] \notin {"idle", "check", "copy"} \/ done[u] > 0 => u = Head(mutex)
      /\ OpsAccepted
  BY <1>1 DEF ThreadInv, MutexOrder
<1>6. ThreadInv' /\ Awaiting' = {} /\ \A u \in Threads : pc[u] = "notify" => pc'[u] = "notify"
  <2>1. ASSUME NEW r \in {"io", "ok"}, Done(t, r), data' = data \/ data' = CopyOut(t)
        PROVE  ThreadInv' /\ Awaiting' = {} /\ \A u \in Threads : pc[u] = "notify" => pc'[u] = "notify"
    <3>1. data' \in [Threads -> Seq(Sectors)] /\ \A u \in Threads \ {t} : data'[u] = data[u]
      BY <1>4, <2>1
    <3>2. ThreadInv' /\ Awaiting' = Awaiting \ {t} /\ pc' = [pc EXCEPT ![t] = "idle"]
      BY <1>1, <1>2, <2>1, <3>1, DoneThread
    <3> QED BY <1>2, <1>3, <1>5, <3>2
  <2>2. CASE /\ data' = CopyOut(t) /\ ~(done[t] + This(t) >= op[t].n)
             /\ done' = [done EXCEPT ![t] = @ + This(t)]
             /\ pc' = [pc EXCEPT ![t] = "copy"] /\ UNCHANGED <<mutex, op>>
    <3>1. /\ op[t] \in Ops /\ op[t].n \in Nat /\ done[t] \in Nat /\ Len(data[t]) = op[t].n
          /\ op[t].kind # "flush" => This(t) \in 1 .. MaxPerReq /\ op[t].lba + op[t].n <= Capacity
          /\ op[t].kind = "flush" => done[t] + This(t) >= op[t].n
      BY <1>1, <1>2, RequestFacts
    <3>2. op[t].kind # "flush" /\ This(t) \in Nat
      BY <2>2, <3>1, OpFacts
    <3>3. /\ done' \in [Threads -> Nat] /\ done'[t] = done[t] + This(t) /\ done'[t] < op[t].n
          /\ \A u \in Threads \ {t} : done'[u] = done[u]
      BY <1>5, <2>2, <3>1, <3>2
    <3>4. pc' \in [Threads -> Steps] /\ \A u \in Threads : pc'[u] = IF u = t THEN "copy" ELSE pc[u]
      BY <1>5, <2>2 DEF Steps
    <3>5. MutexOrder'
      <4>1. \A u \in Threads : In(u, mutex') <=> pc'[u] \notin {"idle", "check"}
        BY <1>2, <1>5, <2>2, <3>4
      <4>2. \A u \in Threads : pc'[u] \notin {"idle", "check", "copy"} \/ done'[u] > 0 => u = Head(mutex')
        BY <1>3, <1>5, <2>2, <3>3, <3>4
      <4> QED BY <1>5, <2>2, <4>1, <4>2 DEF MutexOrder
    <3>6. OpsAccepted'
      <4>1. ASSUME NEW u \in Threads
            PROVE  /\ pc'[u] = "idle" <=> op'[u] = NoOp
                   /\ pc'[u] \in {"idle", "check"} => done'[u] = 0
                   /\ pc'[u] # "idle" => Len(data'[u]) = op'[u].n
                   /\ pc'[u] \notin {"idle", "check"} /\ op'[u].kind # "flush" =>
                          done'[u] < op'[u].n /\ op'[u].lba + op'[u].n <= Capacity
        <5>1. CASE u = t
          BY <1>4, <2>2, <3>1, <3>2, <3>3, <3>4, <5>1, OpFacts
        <5>2. CASE u # t
          BY <1>4, <1>5, <2>2, <3>3, <3>4, <5>2 DEF OpsAccepted
        <5> QED BY <5>1, <5>2
      <4> QED BY <4>1 DEF OpsAccepted
    <3>7. ThreadInv'
      BY <1>4, <1>5, <2>2, <3>3, <3>4, <3>5, <3>6 DEF ThreadInv
    <3>8. \A u \in Threads \ {t} : pc[u] \in {"idle", "check", "copy"}
      BY <1>1, <1>2, Holder
    <3> QED BY <1>2, <3>4, <3>7, <3>8 DEF Awaiting
  <2> QED BY <1>2, <2>1, <2>2
<1> DEFINE h == UsedEntry(q).id
<1>7. /\ RingInv(q', seen, Busy) /\ h \in InRing(q, seen, Busy)
      /\ InRing(q', seen, Busy) = InRing(q, seen, Busy) \ {h}
      /\ q'.noNotify = q.noNotify /\ q'.nextAvail = q.nextAvail
  BY <1>1, <1>2, PopRing DEF RequestsInv
<1>8. q'.desc = q.desc
  <2>1. RingInv(q, seen, Busy) /\ q \in QueueType
    BY <1>1 DEF RequestsInv, RingInv
  <2>2. Chain(q, h) \in Seq(Descs)
    BY <1>7, <2>1, RingFacts
  <2> QED BY <1>2, <2>1, <2>2, PopParts
<1> HIDE DEF h
<1>9. Busy' = Busy /\ seen' = seen
  BY <1>2 DEF Busy
<1>10. RequestsInv'
  BY <1>1, <1>2, <1>7, <1>9 DEF RequestsInv, HeadsApart
<1>11. DeviceInv'
  BY <1>1, <1>2, <1>8 DEF DeviceInv
<1>12. LeftBehind'
  <2>1. Outstanding' = Outstanding \ {h} /\ h \in Outstanding
    BY <1>7, <1>9 DEF Outstanding
  <2>2. Cardinality(Outstanding') = Cardinality(Outstanding) - 1
    BY <1>1, <2>1, Counts, FS_RemoveElement
  <2>3. Cardinality(Outstanding) = timeouts + 1
    BY <1>1, <1>3, Counts DEF LeftBehind
  <2>4. Cardinality(Awaiting') = 0
    BY <1>1, <1>6, Counts
  <2> QED BY <1>1, <1>2, <2>2, <2>3, <2>4 DEF LeftBehind
<1>13. SignalInv'
  BY <1>1, <1>2, <1>6, <1>7 DEF SignalInv, NoLostNotification, HasAvail
<1> QED BY <1>1, <1>2, <1>6, <1>10, <1>11, <1>12, <1>13, BlkInvNext

\* The request the device has after it fetched one.
Taken ==
    LET h  == AvailHead(q, seen)
        ch == Chain(q, h)
    IN  [head   |-> h,
         kind   |-> header.kind,
         lba    |-> header.lba,
         moves  |-> IF Len(ch) = 3 THEN q.desc[ch[2]].len ELSE 0,
         fills  |-> Len(ch) = 3 /\ q.desc[ch[2]].write,
         status |-> q.desc[Last(ch)].addr,
         data   |-> [c \in Cells |-> bounce[c]]]

LEMMA TakenFacts ==
    ASSUME BlkInv, HasAvail(q, seen)
    PROVE  /\ Taken \in Request /\ Taken.head = AvailHead(q, seen)
           /\ Taken.kind = header.kind /\ Taken.lba = header.lba
           /\ Taken.moves = (IF Len(Chain(q, AvailHead(q, seen))) = 3
                             THEN q.desc[Chain(q, AvailHead(q, seen))[2]].len ELSE 0)
           /\ Taken.fills = (Len(Chain(q, AvailHead(q, seen))) = 3
                             /\ q.desc[Chain(q, AvailHead(q, seen))[2]].write)
           /\ Taken.status = q.desc[Last(Chain(q, AvailHead(q, seen)))].addr
           /\ Taken.data = bounce
<1> DEFINE h == AvailHead(q, seen)
           ch == Chain(q, h)
           mv == IF Len(ch) = 3 THEN q.desc[ch[2]].len ELSE 0
           fi == Len(ch) = 3 /\ q.desc[ch[2]].write
           st == q.desc[Last(ch)].addr
           dt == [c \in Cells |-> bounce[c]]
<1>1. DeviceInv /\ RingInv(q, seen, Busy) /\ q \in QueueType
  BY BlkInvParts DEF RequestsInv, RingInv
<1>2. h \in Descs /\ h \in InRing(q, seen, Busy)
  BY <1>1, FetchRing
<1>3. ch \in Seq(Descs) /\ Len(ch) \in 1 .. QSize /\ \A i \in 1 .. Len(ch) : ch[i] \in Descs
  BY <1>1, <1>2, RingFacts DEF IsChain
<1>4. q.desc \in [Descs -> Descriptor] /\ \A d \in Descs : q.desc[d].len <= MaxPerReq
  BY <1>1, QueueParts DEF DeviceInv
<1>5. header \in [kind : Kinds, lba : Nat] /\ bounce \in [Cells -> Sectors] /\ MaxPerReq \in Nat \ {0}
  BY <1>1, OpFacts DEF DeviceInv
<1> HIDE DEF h
<1>6. \A d \in Descs : q.desc[d].len \in 0 .. MaxPerReq /\ q.desc[d].addr \in Nat
  BY <1>4, <1>5 DEF Descriptor
<1>7. mv \in 0 .. MaxPerReq
  <2>1. Len(ch) = 3 => ch[2] \in Descs
    BY <1>3
  <2> HIDE DEF ch
  <2> QED BY <1>5, <1>6, <2>1
<1>8. st \in Nat
  <2>1. Last(ch) = ch[Len(ch)]
    BY DEF Last
  <2>2. ch[Len(ch)] \in Descs
    BY <1>3
  <2> HIDE DEF ch
  <2> QED BY <1>6, <2>1, <2>2
<1>9. fi \in BOOLEAN
  OBVIOUS
<1>10. dt = bounce
  BY <1>5
<1>11. Taken = [head |-> h, kind |-> header.kind, lba |-> header.lba, moves |-> mv, fills |-> fi,
                status |-> st, data |-> dt]
  BY DEF Taken, h
<1>12. mv = (IF Len(ch) = 3 THEN q.desc[ch[2]].len ELSE 0) /\ fi = (Len(ch) = 3 /\ q.desc[ch[2]].write)
       /\ st = q.desc[Last(ch)].addr
  OBVIOUS
<1> HIDE DEF ch, mv, fi, st, dt
<1>13. /\ Taken \in Request /\ Taken.head = h /\ Taken.kind = header.kind /\ Taken.lba = header.lba
       /\ Taken.moves = mv /\ Taken.fills = fi /\ Taken.status = st /\ Taken.data = bounce
  BY <1>2, <1>5, <1>7, <1>8, <1>9, <1>10, <1>11 DEF Request
<1> QED BY <1>12, <1>13 DEF ch, h

LEMMA FetchBlk ==
    ASSUME BlkInv, DevFetch
    PROVE  BlkInv'
<1>1. ThreadInv /\ DeviceInv /\ RequestsInv /\ timeouts \in Nat /\ LeftBehind /\ SignalInv
  BY BlkInvParts
<1>2. /\ ~asleep /\ HasAvail(q, seen) /\ inDev' = inDev \cup {Taken} /\ seen' = Plus(seen, 1)
      /\ UNCHANGED <<q, header, bounce, mutex, pc, op, data, done, disk, asleep, kicked, timeouts>>
  BY DEF DevFetch, Taken, drvVars
<1>3. Taken \in Request /\ Taken.head = AvailHead(q, seen)
  BY <1>2, TakenFacts
<1> DEFINE h == AvailHead(q, seen)
<1>4. /\ RingInv(q, Plus(seen, 1), Busy \cup {h}) /\ h \notin Busy
      /\ InRing(q, Plus(seen, 1), Busy \cup {h}) = InRing(q, seen, Busy)
  BY <1>1, <1>2, FetchRing DEF RequestsInv
<1> HIDE DEF h
<1>5. Busy' = Busy \cup {h}
  BY <1>2, <1>3 DEF Busy, h
<1>6. HeadsApart'
  <2>1. \A r \in inDev : r.head # h
    BY <1>4 DEF Busy
  <2> QED BY <1>1, <1>2, <1>3, <2>1 DEF RequestsInv, HeadsApart, h
<1>7. RequestsInv' /\ Outstanding' = Outstanding
  BY <1>2, <1>4, <1>5, <1>6 DEF RequestsInv, Outstanding
<1>8. ThreadInv' /\ Awaiting' = Awaiting
  BY <1>1, <1>2, SameThreads
<1>9. DeviceInv'
  BY <1>1, <1>2, <1>3 DEF DeviceInv
<1>10. SignalInv'
  BY <1>1, <1>2 DEF SignalInv, NoLostNotification
<1>11. LeftBehind'
  BY <1>1, <1>2, <1>7, <1>8 DEF LeftBehind
<1> QED BY <1>1, <1>2, <1>7, <1>8, <1>9, <1>10, <1>11, BlkInvNext

\* What an answer does to the ring and to what the sectors and cells may hold.
LEMMA AnswerBlk ==
    ASSUME BlkInv, NEW r \in inDev, NEW s \in {S_OK, S_IOERR}, s = S_OK => Sensible(r), DevAnswer(r, s)
    PROVE  BlkInv'
<1>1. ThreadInv /\ DeviceInv /\ RequestsInv /\ timeouts \in Nat /\ LeftBehind /\ SignalInv
  BY BlkInvParts
<1>2. /\ q' = PushUsed(q, r.head, r.moves) /\ inDev' = inDev \ {r}
      /\ UNCHANGED <<header, mutex, pc, op, data, done, seen, asleep, kicked, timeouts>>
      /\ bounce' = [c \in Cells |->
                      IF c = r.status THEN s
                      ELSE IF s = S_OK /\ r.kind = "read" /\ c <= r.moves THEN disk[r.lba + c - 1]
                      ELSE bounce[c]]
      /\ disk' = IF s = S_OK /\ r.kind = "write"
                 THEN [x \in DOMAIN disk |->
                         IF x \in r.lba .. r.lba + r.moves - 1 THEN r.data[x - r.lba + 1] ELSE disk[x]]
                 ELSE disk
  BY DEF DevAnswer
<1>3. r \in Request /\ RingInv(q, seen, Busy) /\ HeadsApart /\ r.head \in Busy
  BY <1>1 DEF DeviceInv, RequestsInv, Busy
<1>4. /\ r.head \in Descs /\ r.lba \in Nat /\ r.moves \in 0 .. MaxPerReq /\ r.data \in [Cells -> Sectors]
      /\ r.moves \in Nat
  BY <1>3, OpFacts DEF Request
<1>5. /\ RingInv(q', seen, Busy \ {r.head})
      /\ InRing(q', seen, Busy \ {r.head}) = InRing(q, seen, Busy)
      /\ q'.desc = q.desc /\ q'.noNotify = q.noNotify /\ q'.nextAvail = q.nextAvail
  <2> DEFINE h == r.head
             m == r.moves
  <2>1. q' = PushUsed(q, h, m) /\ RingInv(q, seen, Busy) /\ h \in Busy /\ m \in Nat
    BY <1>2, <1>3, <1>4
  <2> HIDE DEF h, m
  <2>2. /\ RingInv(q', seen, Busy \ {h})
        /\ InRing(q', seen, Busy \ {h}) = InRing(q, seen, Busy)
        /\ q'.desc = q.desc /\ q'.noNotify = q.noNotify /\ q'.nextAvail = q.nextAvail
    BY <2>1, AnswerRing
  <2> QED BY <2>2 DEF h
<1>6. Busy' = Busy \ {r.head}
  BY <1>2, <1>3 DEF Busy, HeadsApart
<1>7. RequestsInv' /\ Outstanding' = Outstanding
  BY <1>2, <1>3, <1>5, <1>6 DEF RequestsInv, HeadsApart, Outstanding
<1>8. /\ header \in [kind : Kinds, lba : Nat] /\ bounce \in [Cells -> Sectors]
      /\ disk \in [0 .. Capacity - 1 -> Sectors] /\ inDev \subseteq Request
      /\ \A d \in Descs : q.desc[d].len <= MaxPerReq
  BY <1>1 DEF DeviceInv
<1>9. bounce' \in [Cells -> Sectors]
  <2>1. s \in Sectors
    BY OpFacts
  <2>2. ASSUME NEW c \in Cells, s = S_OK, c <= r.moves PROVE disk[r.lba + c - 1] \in Sectors
    <3>1. r.lba + r.moves <= Capacity
      BY <2>2 DEF Sensible
    <3>2. r.lba + c - 1 \in 0 .. Capacity - 1
      BY <1>4, <2>2, <3>1, OpFacts DEF Cells
    <3> QED BY <1>8, <3>2
  <2>3. ASSUME NEW c \in Cells
        PROVE  (IF c = r.status THEN s
                ELSE IF s = S_OK /\ r.kind = "read" /\ c <= r.moves THEN disk[r.lba + c - 1]
                ELSE bounce[c]) \in Sectors
    BY <1>8, <2>1, <2>2
  <2> QED BY <1>2, <2>3
<1>10. disk' \in [0 .. Capacity - 1 -> Sectors]
  <2>1. CASE s = S_OK /\ r.kind = "write"
    <3>1. DOMAIN disk = 0 .. Capacity - 1
      BY <1>8
    <3>2. ASSUME NEW x \in 0 .. Capacity - 1
          PROVE  (IF x \in r.lba .. r.lba + r.moves - 1 THEN r.data[x - r.lba + 1] ELSE disk[x]) \in Sectors
      <4>a. MaxPerReq \in Nat \ {0}
        BY OpFacts
      <4>1. ASSUME x \in r.lba .. r.lba + r.moves - 1 PROVE x - r.lba + 1 \in Cells
        BY <1>4, <3>2, <4>1, <4>a DEF Cells
      <4> QED BY <1>4, <1>8, <4>1
    <3> QED BY <1>2, <2>1, <3>1, <3>2
  <2>2. CASE ~(s = S_OK /\ r.kind = "write")
    BY <1>2, <1>8, <2>2
  <2> QED BY <2>1, <2>2
<1>11. DeviceInv'
  BY <1>2, <1>5, <1>8, <1>9, <1>10 DEF DeviceInv
<1>12. ThreadInv' /\ Awaiting' = Awaiting
  BY <1>1, <1>2, SameThreads
<1>13. SignalInv'
  BY <1>1, <1>2, <1>5 DEF SignalInv, NoLostNotification, HasAvail
<1>14. LeftBehind'
  BY <1>1, <1>2, <1>7, <1>12 DEF LeftBehind
<1> QED BY <1>1, <1>2, <1>7, <1>11, <1>12, <1>13, <1>14, BlkInvNext

\* DevSleep and DevWake.
LEMMA FlagBlk ==
    ASSUME BlkInv, DevSleep \/ DevWake
    PROVE  BlkInv'
<1>1. ThreadInv /\ DeviceInv /\ RequestsInv /\ timeouts \in Nat /\ LeftBehind /\ SignalInv
  BY BlkInvParts
<1>2. /\ UNCHANGED <<header, bounce, mutex, pc, op, data, done, disk, seen, inDev, timeouts>>
      /\ \/ ~HasAvail(q, seen) /\ asleep' = TRUE /\ q' = [q EXCEPT !.noNotify = FALSE]
         \/ asleep' = FALSE /\ \E f \in BOOLEAN : q' = [q EXCEPT !.noNotify = f]
  BY DEF DevSleep, DevWake
<1>3. PICK f \in BOOLEAN : q' = [q EXCEPT !.noNotify = f] /\ (asleep' => ~f /\ ~HasAvail(q, seen))
  BY <1>2
<1>4. /\ RingInv(q', seen, Busy) /\ q'.noNotify = f /\ q'.desc = q.desc /\ q'.nextAvail = q.nextAvail
      /\ InRing(q', seen, Busy) = InRing(q, seen, Busy)
  BY <1>1, <1>3, FlagRing DEF RequestsInv
<1>5. Busy' = Busy
  BY <1>2 DEF Busy
<1>6. RequestsInv' /\ Outstanding' = Outstanding
  BY <1>1, <1>2, <1>4, <1>5 DEF RequestsInv, HeadsApart, Outstanding
<1>7. ThreadInv' /\ Awaiting' = Awaiting
  BY <1>1, <1>2, SameThreads
<1>8. DeviceInv'
  BY <1>1, <1>2, <1>4 DEF DeviceInv
<1>9. SignalInv'
  BY <1>2, <1>3, <1>4 DEF SignalInv, NoLostNotification, HasAvail
<1>10. LeftBehind'
  BY <1>1, <1>2, <1>6, <1>7 DEF LeftBehind
<1> QED BY <1>1, <1>2, <1>6, <1>7, <1>8, <1>9, <1>10, BlkInvNext

LEMMA SameBlk ==
    ASSUME BlkInv, UNCHANGED vars
    PROVE  BlkInv'
<1>1. ThreadInv /\ DeviceInv /\ RequestsInv /\ timeouts \in Nat /\ LeftBehind /\ SignalInv
  BY BlkInvParts
<1>2. UNCHANGED <<q, header, bounce, mutex, pc, op, data, done, disk, seen, inDev, asleep, kicked, timeouts>>
  BY DEF vars, drvVars, devVars
<1>3. ThreadInv' /\ Awaiting' = Awaiting /\ \A u \in Threads : pc[u] = "notify" => pc'[u] = "notify"
  BY <1>1, <1>2, SameThreads
<1>4. RequestsInv' /\ Outstanding' = Outstanding /\ DeviceInv' /\ SignalInv'
  BY <1>1, <1>2, <1>3, SameRequests, SameDevice, SameSignals
<1>5. LeftBehind'
  BY <1>1, <1>2, <1>3, <1>4 DEF LeftBehind
<1> QED BY <1>1, <1>2, <1>3, <1>4, <1>5, BlkInvNext

LEMMA NextBlk == BlkInv /\ [Next]_vars => BlkInv'
<1> SUFFICES ASSUME BlkInv, [Next]_vars PROVE BlkInv'
  OBVIOUS
<1>1. ASSUME NEW t \in Threads, Thread(t) PROVE BlkInv'
  BY <1>1, EnterBlk, CheckBlk, CopyInBlk, SubmitBlk, NotifyBlk, CompletedBlk, WaitBlk, ExpireBlk DEF Thread
<1>2. ASSUME Device PROVE BlkInv'
  <2>1. CASE DevFetch
    BY <2>1, FetchBlk
  <2>2. CASE DevComplete
    <3>1. PICK r \in inDev : \/ Sensible(r) /\ DevAnswer(r, S_OK)
                             \/ DevAnswer(r, S_IOERR)
      BY <2>2 DEF DevComplete
    <3>2. S_OK # S_IOERR
      BY DEF S_OK, S_IOERR
    <3> QED BY <3>1, <3>2, AnswerBlk
  <2>3. CASE DevSleep \/ DevWake
    BY <2>3, FlagBlk
  <2> QED BY <1>2, <2>1, <2>2, <2>3 DEF Device
<1> QED BY <1>1, <1>2, SameBlk DEF Next

-----------------------------------------------------------------------------
(* What holds whatever times out. *)

\* The ring, the mutex and what was left behind agree: the inductive invariant.
THEOREM BlockInvariant == Spec => []BlkInv
<1>1. Init => BlkInv
  BY InitBlk
<1>2. BlkInv /\ [Next]_vars => BlkInv'
  BY NextBlk
<1> QED BY <1>1, <1>2, PTL DEF Spec

\* add, pop_used and return_descriptor_chain never lose a descriptor, free it twice
\* or give it to two requests, for any number of time-outs and wrapped indices.
THEOREM DescriptorsStayConserved == Spec => []DescriptorsConserved
<1>1. BlkInv => DescriptorsConserved
  BY BlkInvParts DEF RequestsInv, RingInv, DescriptorsConserved, Outstanding
<1> QED BY <1>1, BlockInvariant, PTL

\* The device never sleeps on a request that the driver will not notify it of.
THEOREM NotificationsReachDevice == Spec => []NoLostNotification
<1>1. BlkInv => NoLostNotification
  BY DEF BlkInv
<1> QED BY <1>1, BlockInvariant, PTL

\* Each operation that times out leaves exactly one request in the ring for good.
THEOREM TimeoutsLeaveOneBehind == Spec => []LeftBehind
<1>1. BlkInv => LeftBehind
  BY DEF BlkInv
<1> QED BY <1>1, BlockInvariant, PTL

-----------------------------------------------------------------------------
(* Until something times out: InStep.                                      *)

\* At most one request is in the ring, and only while its thread awaits it.
LEMMA OneAtATime ==
    ASSUME BlkInv, timeouts = 0
    PROVE  /\ Awaiting = {} => Outstanding = {}
           /\ \A x, y \in Outstanding : x = y
           /\ \A u \in Awaiting : Awaiting = {u} /\ u \in Threads
<1>1. ThreadInv /\ RequestsInv /\ LeftBehind
  BY BlkInvParts
<1>2. \A u \in Awaiting : Awaiting = {u} /\ u \in Threads
  <2>1. ASSUME NEW u \in Awaiting PROVE Awaiting = {u} /\ u \in Threads
    <3>1. u \in Threads /\ pc[u] \in {"notify", "poll", "clock"}
      BY DEF Awaiting
    <3> QED BY <1>1, <3>1, AwaitingIs
  <2> QED BY <2>1
<1>3. Cardinality(Outstanding) = Cardinality(Awaiting)
  <2>1. Cardinality(Awaiting) \in Nat
    <3>1. CASE Awaiting = {}
      BY <3>1, FS_EmptySet
    <3>2. CASE Awaiting # {}
      <4>1. PICK u : Awaiting = {u}
        BY <1>2, <3>2
      <4>2. Cardinality({u}) = 1
        BY FS_Singleton
      <4> QED BY <4>1, <4>2
    <3> QED BY <3>1, <3>2
  <2> QED BY <1>1, <2>1 DEF LeftBehind
<1>4. IsFiniteSet(Outstanding)
  BY <1>1, Counts
<1>5. Awaiting = {} => Outstanding = {}
  BY <1>3, <1>4, FS_EmptySet
<1>6. ASSUME NEW u \in Awaiting PROVE \A x, y \in Outstanding : x = y
  <2>1. Cardinality(Outstanding) = 1
    BY <1>1, <1>2, <1>3, Counts
  <2>2. \E z : Outstanding = {z}
    BY <1>4, <2>1, FS_Singleton
  <2> QED BY <2>2
<1> QED BY <1>2, <1>5, <1>6

\* Where a request can be: published, with the device or answered, and only there.
LEMMA Placed ==
    ASSUME BlkInv
    PROVE  /\ \A i \in Published(q, seen) : PublishedHead(q, i) \in Outstanding
           /\ \A r \in inDev : r.head \in Outstanding
           /\ \A i \in Answered(q) : AnsweredHead(q, i) \in Outstanding
           /\ \A i \in Published(q, seen) : \A r \in inDev : PublishedHead(q, i) # r.head
<1>1. OnePlace(q, seen, Busy)
  BY BlkInvParts DEF RequestsInv, RingInv
<1>2. \A r \in inDev : r.head \in Busy
  BY DEF Busy
<1> QED BY <1>1, <1>2 DEF Outstanding, InRing, OnePlace

\* A thread with nothing done and nothing filled in depends on its own state only.
LEMMA Bystander ==
    ASSUME NEW u \in Threads, ThreadInStep(u), pc[u] \in {"idle", "check", "copy"}, done[u] = 0,
           pc'[u] = pc[u], op'[u] = op[u], data'[u] = data[u], done'[u] = done[u]
    PROVE  ThreadInStep(u)'
<1>1. u \notin Awaiting'
  BY DEF Awaiting
<1>2. pc'[u] = "check" => data'[u] = op'[u].data
  BY DEF ThreadInStep
<1>3. pc'[u] \notin {"idle", "check"} => SoFar(u)'
  <2>1. \A i : i \notin 1 .. 0
    OBVIOUS
  <2>2. pc[u] \notin {"idle", "check"} => SoFar(u)
    BY DEF ThreadInStep
  <2> QED BY <2>1, <2>2 DEF SoFar
<1> QED BY <1>1, <1>2, <1>3 DEF ThreadInStep

\* What a thread knows stays true if nothing it is about changes.
LEMMA KeptSoFar ==
    ASSUME NEW u \in Threads, op'[u] = op[u], data'[u] = data[u], done'[u] = done[u], disk' = disk, SoFar(u)
    PROVE  SoFar(u)'
BY DEF SoFar

LEMMA KeptFilledIn ==
    ASSUME NEW u \in Threads, op'[u] = op[u], data'[u] = data[u], done'[u] = done[u],
           header' = header, bounce' = bounce, FilledIn(u)
    PROVE  FilledIn(u)'
BY DEF FilledIn, This

LEMMA KeptBuffers ==
    ASSUME NEW u \in Threads, op'[u] = op[u], done'[u] = done[u]
    PROVE  Buffers(u)' = Buffers(u) /\ This(u)' = This(u) /\ StatusCell(u)' = StatusCell(u)
BY DEF Buffers, This, StatusCell

LEMMA KeptFetched ==
    ASSUME NEW u \in Threads, op'[u] = op[u], data'[u] = data[u], done'[u] = done[u], NEW r, Fetched(u, r)
    PROVE  Fetched(u, r)'
BY DEF Fetched, This, StatusCell

LEMMA KeptEffected ==
    ASSUME NEW u \in Threads, op'[u] = op[u], data'[u] = data[u], done'[u] = done[u],
           UNCHANGED <<bounce, disk, durable>>, Effected(u)
    PROVE  Effected(u)'
BY DEF Effected, This, StatusCell

\* A step that leaves the ring, the buffer and the disk alone, and every thread but t.
LEMMA OthersInStep ==
    ASSUME NEW u \in Threads, ThreadInStep(u), pc'[u] = pc[u], op'[u] = op[u], data'[u] = data[u],
           done'[u] = done[u], UNCHANGED <<header, bounce, disk, durable, q, seen, inDev>>
    PROVE  ThreadInStep(u)'
<1>1. pc'[u] \notin {"idle", "check"} => SoFar(u)'
  BY KeptSoFar DEF ThreadInStep
<1>2. pc'[u] = "check" => data'[u] = op'[u].data
  BY DEF ThreadInStep
<1>3. pc'[u] = "add" => FilledIn(u)'
  BY KeptFilledIn DEF ThreadInStep
<1>4. Underway(u) => Underway(u)'
  <2>1. ASSUME Underway(u) PROVE Underway(u)'
    <3>1. Published(q, seen)' = Published(q, seen) /\ Answered(q)' = Answered(q)
      BY DEF Published, Answered
    <3>2. ASSUME NEW i \in Published(q, seen) PROVE FilledIn(u)' /\ AsBuilt(u, Chain(q, PublishedHead(q, i)))'
      <4>1. FilledIn(u) /\ AsBuilt(u, Chain(q, PublishedHead(q, i)))
        BY <2>1 DEF Underway
      <4>2. FilledIn(u)'
        BY <4>1, KeptFilledIn
      <4>3. Buffers(u)' = Buffers(u) /\ q' = q
        BY KeptBuffers
      <4>4. AsBuilt(u, Chain(q, PublishedHead(q, i)))'
        BY <4>1, <4>3 DEF AsBuilt
      <4> QED BY <4>2, <4>4
    <3>3. ASSUME NEW r \in inDev PROVE Fetched(u, r)'
      BY <2>1, KeptFetched DEF Underway
    <3>4. Answered(q) # {} => Effected(u)'
      BY <2>1, KeptEffected DEF Underway
    <3> QED BY <3>1, <3>2, <3>3, <3>4 DEF Underway
  <2> QED BY <2>1
<1>5. u \in Awaiting' => u \in Awaiting
  BY DEF Awaiting
<1> QED BY <1>1, <1>2, <1>3, <1>4, <1>5 DEF ThreadInStep

\* After a completed request the thread has the sectors of all its requests so far.
LEMMA DoneSoFar ==
    ASSUME BlkInv, InStep, timeouts = 0, NEW t \in Threads, pc[t] = "poll", HasUsed(q),
           bounce[StatusCell(t)] = S_OK
    PROVE  /\ op[t].kind = "read" =>
                  \A i \in 1 .. done[t] + This(t) : CopyOut(t)[t][i] = disk[op[t].lba + i - 1]
           /\ op[t].kind = "write" =>
                  /\ data[t] = op[t].data
                  /\ \A i \in 1 .. done[t] + This(t) : disk[op[t].lba + i - 1] = data[t][i]
           /\ op[t].kind = "flush" => durable = disk
<1>1. ThreadInv /\ DeviceInv /\ RingInv(q, seen, Busy)
  BY BlkInvParts DEF RequestsInv
<1>2. t \in Awaiting
  BY DEF Awaiting
<1>3. SoFar(t) /\ Underway(t)
  BY <1>2 DEF InStep, ThreadInStep
<1>4. Answered(q) # {}
  <2>1. q.nextUsed \in Answered(q)
    BY <1>1, PopRing
  <2> QED BY <2>1
<1>5. CASE op[t].kind \in {"read", "write"}
  <2>1. /\ This(t) \in Nat /\ done[t] \in Nat /\ done[t] + This(t) <= Len(data[t]) /\ op[t].lba \in Nat
        /\ Len(data[t]) \in Nat
    BY <1>1, <1>5, RequestFacts, OpFacts
  <2>2. \A i \in 1 .. done[t] + This(t) : i \in 1 .. done[t] \/ (i \in done[t] + 1 .. done[t] + This(t))
    BY <2>1
  <2>3. \A i \in done[t] + 1 .. done[t] + This(t) :
           i - done[t] \in 1 .. This(t) /\ done[t] + (i - done[t]) = i
           /\ op[t].lba + done[t] + (i - done[t]) - 1 = op[t].lba + i - 1
    <3> DEFINE d == done[t]
               m == This(t)
               l == op[t].lba
    <3>1. d \in Nat /\ m \in Nat /\ l \in Nat
      BY <2>1
    <3> HIDE DEF d, m, l
    <3>2. \A i \in d + 1 .. d + m : i - d \in 1 .. m /\ d + (i - d) = i /\ l + d + (i - d) - 1 = l + i - 1
      BY <3>1
    <3> QED BY <3>2 DEF d, m, l
  <2>4. \A i \in 1 .. done[t] + This(t) : i \in 1 .. Len(data[t])
    BY <2>1
  <2>5. CASE op[t].kind = "read"
    <3>1. \A c \in 1 .. This(t) : bounce[c] = disk[op[t].lba + done[t] + c - 1]
      BY <1>3, <1>4, <2>5 DEF Underway, Effected
    <3>2. \A i \in 1 .. done[t] : data[t][i] = disk[op[t].lba + i - 1]
      BY <1>3, <2>5 DEF SoFar
    <3>3. \A i \in 1 .. Len(data[t]) :
             CopyOut(t)[t][i] = IF i \in done[t] + 1 .. done[t] + This(t) THEN bounce[i - done[t]]
                                ELSE data[t][i]
      BY <1>1, <2>5, CopyOutFacts
    <3>4. ASSUME NEW i \in 1 .. done[t] + This(t) PROVE CopyOut(t)[t][i] = disk[op[t].lba + i - 1]
      <4>1. CASE i \in done[t] + 1 .. done[t] + This(t)
        <5>1. CopyOut(t)[t][i] = bounce[i - done[t]]
          BY <2>4, <3>3, <4>1
        <5>2. bounce[i - done[t]] = disk[op[t].lba + done[t] + (i - done[t]) - 1]
          BY <2>3, <3>1, <4>1
        <5> QED BY <2>3, <4>1, <5>1, <5>2
      <4>2. CASE i \notin done[t] + 1 .. done[t] + This(t)
        BY <2>2, <2>4, <3>2, <3>3, <4>2
      <4> QED BY <4>1, <4>2
    <3> QED BY <2>5, <3>4
  <2>6. CASE op[t].kind = "write"
    <3>1. \A c \in 1 .. This(t) : disk[op[t].lba + done[t] + c - 1] = data[t][done[t] + c]
      BY <1>3, <1>4, <2>6 DEF Underway, Effected
    <3>2. data[t] = op[t].data /\ \A i \in 1 .. done[t] : disk[op[t].lba + i - 1] = data[t][i]
      BY <1>3, <2>6 DEF SoFar
    <3>3. ASSUME NEW i \in 1 .. done[t] + This(t) PROVE disk[op[t].lba + i - 1] = data[t][i]
      <4>1. CASE i \in done[t] + 1 .. done[t] + This(t)
        <5>1. disk[op[t].lba + done[t] + (i - done[t]) - 1] = data[t][done[t] + (i - done[t])]
          BY <2>3, <3>1, <4>1
        <5> QED BY <2>3, <4>1, <5>1
      <4>2. CASE i \notin done[t] + 1 .. done[t] + This(t)
        BY <2>2, <3>2, <4>2
      <4> QED BY <4>1, <4>2
    <3> QED BY <2>6, <3>2, <3>3
  <2> QED BY <1>5, <2>5, <2>6
<1>6. CASE op[t].kind = "flush"
  BY <1>3, <1>4, <1>6 DEF Underway, Effected
<1> QED BY <1>1, <1>5, <1>6, RequestFacts DEF Kinds

LEMMA DataSoFar ==
    ASSUME BlkInv, InStep, timeouts = 0, NEW t \in Threads, pc[t] = "poll", HasUsed(q),
           bounce[StatusCell(t)] = S_OK, data' = CopyOut(t), op' = op, disk' = disk,
           done'[t] = done[t] + This(t)
    PROVE  SoFar(t)'
<1>1. ThreadInv /\ DeviceInv
  BY BlkInvParts
<1>2. op[t].kind # "read" => data' = data
  BY <1>1, CopyOutFacts
<1>3. CASE op[t].kind = "read"
  <2>1. \A i \in 1 .. done[t] + This(t) : CopyOut(t)[t][i] = disk[op[t].lba + i - 1]
    BY <1>3, DoneSoFar
  <2> QED BY <1>3, <2>1 DEF SoFar
<1>4. CASE op[t].kind = "write"
  <2>1. data[t] = op[t].data /\ \A i \in 1 .. done[t] + This(t) : disk[op[t].lba + i - 1] = data[t][i]
    BY <1>4, DoneSoFar
  <2> QED BY <1>2, <1>4, <2>1 DEF SoFar
<1>5. CASE op[t].kind \notin {"read", "write"}
  BY <1>5 DEF SoFar
<1> QED BY <1>3, <1>4, <1>5

LEMMA ThreadsInStep ==
    ASSUME BlkInv, InStep, timeouts = 0, NEW t \in Threads, Thread(t), timeouts' = 0
    PROVE  InStep'
<1>1. \A u \in Threads : ThreadInStep(u)
  BY DEF InStep
<1>2. /\ pc \in [Threads -> Steps] /\ op \in [Threads -> Ops \cup {NoOp}]
      /\ data \in [Threads -> Seq(Sectors)] /\ done \in [Threads -> Nat] /\ OpsAccepted
  BY BlkInvParts DEF ThreadInv
<1>3. ThreadInv /\ DeviceInv /\ RingInv(q, seen, Busy)
  BY BlkInvParts DEF RequestsInv
<1>4. ASSUME Enter(t) PROVE InStep'
  <2>1. PICK o \in Ops :
           /\ pc[t] = "idle" /\ pc' = [pc EXCEPT ![t] = "check"]
           /\ op' = [op EXCEPT ![t] = o] /\ data' = [data EXCEPT ![t] = o.data]
           /\ UNCHANGED <<header, bounce, disk, durable, q, seen, inDev, done>>
    BY <1>4 DEF Enter, devVars
  <2>2. ThreadInStep(t)'
    <3>1. pc'[t] = "check" /\ data'[t] = op'[t].data
      BY <1>2, <2>1
    <3> QED BY <3>1 DEF ThreadInStep, Awaiting
  <2>3. \A u \in Threads \ {t} : ThreadInStep(u)'
    BY <1>1, <1>2, <2>1, OthersInStep
  <2> QED BY <2>2, <2>3 DEF InStep
<1>5. ASSUME Check(t) PROVE InStep'
  <2>1. /\ pc[t] = "check" /\ UNCHANGED <<header, bounce, disk, durable, q, seen, inDev, data>>
        /\ \/ pc' = [pc EXCEPT ![t] = "idle"] /\ op' = [op EXCEPT ![t] = NoOp] /\ done' = [done EXCEPT ![t] = 0]
           \/ pc' = [pc EXCEPT ![t] = "copy"] /\ op' = op /\ done' = done
    BY <1>5 DEF Check, Done, devVars
  <2>2. ThreadInStep(t)'
    <3>1. CASE pc' = [pc EXCEPT ![t] = "idle"]
      <4>1. pc'[t] = "idle"
        BY <1>2, <3>1
      <4> QED BY <4>1 DEF ThreadInStep, Awaiting
    <3>2. CASE pc' = [pc EXCEPT ![t] = "copy"] /\ op' = op /\ done' = done
      <4>1. pc'[t] = "copy" /\ done[t] = 0 /\ data[t] = op[t].data
        BY <1>1, <1>2, <2>1, <3>2 DEF OpsAccepted, ThreadInStep
      <4>2. SoFar(t)'
        <5>1. \A i : i \notin 1 .. 0
          OBVIOUS
        <5>2. done'[t] = 0 /\ data'[t] = op'[t].data
          BY <2>1, <3>2, <4>1
        <5> QED BY <5>1, <5>2 DEF SoFar
      <4> QED BY <4>1, <4>2 DEF ThreadInStep, Awaiting
    <3> QED BY <2>1, <3>1, <3>2
  <2>3. \A u \in Threads \ {t} : ThreadInStep(u)'
    BY <1>1, <1>2, <2>1, OthersInStep
  <2> QED BY <2>2, <2>3 DEF InStep
<1>6. ASSUME CopyIn(t) PROVE InStep'
  <2>1. /\ pc[t] = "copy" /\ Head(mutex) = t /\ pc' = [pc EXCEPT ![t] = "add"]
        /\ header' = [kind |-> op[t].kind, lba |-> op[t].lba + done[t]]
        /\ bounce' = IF op[t].kind = "write"
                     THEN [c \in Cells |-> IF c <= This(t) THEN data[t][done[t] + c] ELSE bounce[c]]
                     ELSE bounce
        /\ UNCHANGED <<disk, durable, q, seen, inDev, op, data, done>>
    BY <1>6 DEF CopyIn, devVars
  <2>2. \A u \in Threads \ {t} : pc[u] \in {"idle", "check", "copy"} /\ done[u] = 0
    BY <1>3, <2>1, Holder
  <2>3. FilledIn(t)'
    <3>1. This(t)' = This(t) /\ op' = op /\ data' = data /\ done' = done
      BY <2>1, KeptBuffers
    <3>2. op[t].kind = "write" => This(t) \in 1 .. MaxPerReq /\ MaxPerReq \in Nat
      BY <1>3, <2>1, RequestFacts, OpFacts
    <3>3. ASSUME op[t].kind = "write", NEW c \in 1 .. This(t) PROVE bounce'[c] = data[t][done[t] + c]
      <4>1. c \in Cells /\ c <= This(t)
        BY <3>2, <3>3 DEF Cells
      <4> QED BY <2>1, <3>3, <4>1
    <3> QED BY <2>1, <3>1, <3>3 DEF FilledIn
  <2>4. SoFar(t)'
    BY <1>1, <2>1, KeptSoFar DEF ThreadInStep
  <2>5. pc'[t] = "add"
    BY <1>2, <2>1
  <2>6. ThreadInStep(t)'
    BY <2>3, <2>4, <2>5 DEF ThreadInStep, Awaiting
  <2>7. \A u \in Threads \ {t} : ThreadInStep(u)'
    BY <1>1, <1>2, <2>1, <2>2, Bystander
  <2> QED BY <2>6, <2>7 DEF InStep
<1>7. ASSUME Notify(t) \/ PollEmpty(t) \/ Spin(t) PROVE InStep'
  <2>1. /\ pc[t] \in {"notify", "poll", "clock"}
        /\ \E s \in {"poll", "clock"} : pc' = [pc EXCEPT ![t] = s]
        /\ UNCHANGED <<header, bounce, disk, durable, q, seen, inDev, op, data, done>>
    BY <1>7 DEF Notify, PollEmpty, Spin, devVars
  <2>2. t \in Awaiting /\ pc'[t] \in {"poll", "clock"}
    BY <1>2, <2>1 DEF Awaiting
  <2>3. SoFar(t) /\ Underway(t)
    BY <1>1, <2>1, <2>2 DEF ThreadInStep
  <2>4. SoFar(t)'
    BY <2>1, <2>3, KeptSoFar
  <2>5. Underway(t)'
    <3>1. Published(q, seen)' = Published(q, seen) /\ Answered(q)' = Answered(q) /\ q' = q /\ inDev' = inDev
      BY <2>1 DEF Published, Answered
    <3>2. ASSUME NEW i \in Published(q, seen) PROVE FilledIn(t)' /\ AsBuilt(t, Chain(q, PublishedHead(q, i)))'
      <4>1. FilledIn(t) /\ AsBuilt(t, Chain(q, PublishedHead(q, i)))
        BY <2>3 DEF Underway
      <4>2. FilledIn(t)'
        BY <2>1, <4>1, KeptFilledIn
      <4>3. Buffers(t)' = Buffers(t)
        BY <2>1, KeptBuffers
      <4>4. AsBuilt(t, Chain(q, PublishedHead(q, i)))'
        BY <3>1, <4>1, <4>3 DEF AsBuilt
      <4> QED BY <4>2, <4>4
    <3>3. ASSUME NEW r \in inDev PROVE Fetched(t, r)'
      BY <2>1, <2>3, KeptFetched DEF Underway
    <3>4. Answered(q) # {} => Effected(t)'
      BY <2>1, <2>3, KeptEffected DEF Underway
    <3> QED BY <3>1, <3>2, <3>3, <3>4 DEF Underway
  <2>6. ThreadInStep(t)'
    BY <2>2, <2>4, <2>5 DEF ThreadInStep
  <2>7. \A u \in Threads \ {t} : ThreadInStep(u)'
    BY <1>1, <1>2, <2>1, OthersInStep
  <2> QED BY <2>6, <2>7 DEF InStep
<1>8. ASSUME Submit(t) PROVE InStep'
  <2>1. /\ pc[t] = "add" /\ UNCHANGED <<header, bounce, disk, durable, seen, inDev, data>>
        /\ \/ /\ CanAdd(q, Buffers(t)) /\ q' = Add(q, Buffers(t), op[t].lba + done[t])
              /\ pc' = [pc EXCEPT ![t] = "notify"] /\ UNCHANGED <<op, done>>
           \/ Done(t, "io") /\ UNCHANGED q
    BY <1>8 DEF Submit, devVars
  <2>2. \A u \in Threads \ {t} : pc[u] \in {"idle", "check", "copy"} /\ done[u] = 0
    BY <1>3, <2>1, Holder
  <2>3. CASE Done(t, "io") /\ UNCHANGED q
    <3>1. /\ pc' = [pc EXCEPT ![t] = "idle"] /\ op' = [op EXCEPT ![t] = NoOp]
          /\ done' = [done EXCEPT ![t] = 0]
      BY <2>3 DEF Done
    <3>2. ThreadInStep(t)'
      <4>1. pc'[t] = "idle"
        BY <1>2, <3>1
      <4> QED BY <4>1 DEF ThreadInStep, Awaiting
    <3>3. \A u \in Threads \ {t} : ThreadInStep(u)'
      BY <1>1, <1>2, <2>1, <2>3, <3>1, OthersInStep
    <3> QED BY <3>2, <3>3 DEF InStep
  <2>4. CASE /\ CanAdd(q, Buffers(t)) /\ q' = Add(q, Buffers(t), op[t].lba + done[t])
             /\ pc' = [pc EXCEPT ![t] = "notify"] /\ UNCHANGED <<op, done>>
    <3> DEFINE bs == Buffers(t)
               tok == op[t].lba + done[t]
               ds == Allocated(q, Len(bs))
    <3>1. bs \in Seq(BufferType) /\ tok \in Nat /\ CanAdd(q, bs) /\ q' = Add(q, bs, tok)
      BY <1>3, <2>1, <2>4, BufferFacts, RequestFacts
    <3>2. bs' = bs
      BY <2>4, KeptBuffers
    <3>3. Outstanding = {}
      <4>1. Awaiting = {}
        BY <1>3, <2>1, AwaitingIs
      <4> QED BY <4>1, OneAtATime
    <3>4. Published(q, seen) = {} /\ inDev = {} /\ Answered(q) = {}
      BY <3>3, Placed
    <3> HIDE DEF bs, tok
    <3>5. /\ Published(q', seen) = Published(q, seen) \cup {q.nextAvail}
          /\ Answered(q') = Answered(q)
          /\ PublishedHead(q', q.nextAvail) = ds[1] /\ Chain(q', ds[1]) = ds
          /\ Len(ds) = Len(bs)
          /\ \A i \in 1 .. Len(bs) : q'.desc[ds[i]] = ChainDesc(bs, ds, i)
      BY <1>3, <3>1, AddRing
    <3> HIDE DEF ds
    <3>6. Published(q, seen)' = {q.nextAvail} /\ Answered(q)' = {} /\ inDev' = {}
      <4>1. Published(q, seen)' = Published(q', seen) /\ Answered(q)' = Answered(q')
        BY <2>1 DEF Published, Answered
      <4> QED BY <2>1, <3>4, <3>5, <4>1
    <3>7. FilledIn(t)'
      BY <1>1, <2>1, <2>4, KeptFilledIn DEF ThreadInStep
    <3>8. ASSUME NEW i \in 1 .. Len(bs)
          PROVE  q'.desc[ds[i]].addr = bs[i].addr /\ q'.desc[ds[i]].len = bs[i].len
                 /\ q'.desc[ds[i]].write = bs[i].write
      <4>1. q'.desc[ds[i]] = ChainDesc(bs, ds, i)
        BY <3>5
      <4>2. /\ ChainDesc(bs, ds, i).addr = bs[i].addr /\ ChainDesc(bs, ds, i).len = bs[i].len
            /\ ChainDesc(bs, ds, i).write = bs[i].write
        BY DEF ChainDesc
      <4> QED BY <4>1, <4>2
    <3>9. Underway(t)'
      <4>1. ASSUME NEW i \in Published(q, seen)' PROVE AsBuilt(t, Chain(q, PublishedHead(q, i)))'
        <5>1. Chain(q', PublishedHead(q', i)) = ds
          BY <3>5, <3>6
        <5>2. Buffers(t)' = bs
          BY <3>2 DEF bs
        <5> QED BY <3>5, <3>8, <5>1, <5>2 DEF AsBuilt
      <4> QED BY <3>6, <3>7, <4>1 DEF Underway
    <3>10. SoFar(t)'
      BY <1>1, <2>1, <2>4, KeptSoFar DEF ThreadInStep
    <3>11. pc'[t] = "notify"
      BY <1>2, <2>4
    <3>12. ThreadInStep(t)'
      BY <3>9, <3>10, <3>11 DEF ThreadInStep
    <3>13. \A u \in Threads \ {t} : ThreadInStep(u)'
      BY <1>1, <1>2, <2>1, <2>2, <2>4, Bystander
    <3> QED BY <3>12, <3>13 DEF InStep
  <2> QED BY <2>1, <2>3, <2>4
<1>9. ASSUME Completed(t) PROVE InStep'
  <2>1. /\ pc[t] = "poll" /\ HasUsed(q) /\ UNCHANGED <<disk>>
        /\ \/ pc' = [pc EXCEPT ![t] = "idle"] /\ op' = [op EXCEPT ![t] = NoOp]
              /\ done' = [done EXCEPT ![t] = 0] /\ (data' = data \/ data' = CopyOut(t))
           \/ /\ data' = CopyOut(t) /\ ~(done[t] + This(t) >= op[t].n) /\ bounce[StatusCell(t)] = S_OK
              /\ done' = [done EXCEPT ![t] = @ + This(t)]
              /\ pc' = [pc EXCEPT ![t] = "copy"] /\ op' = op
    BY <1>9 DEF Completed, Done, devVars
  <2>2. \A u \in Threads \ {t} : pc[u] \in {"idle", "check", "copy"} /\ done[u] = 0
    BY <1>3, <2>1, Holder
  <2>3. /\ \A u \in Threads \ {t} : CopyOut(t)[u] = data[u]
        /\ CopyOut(t) \in [Threads -> Seq(Sectors)]
    BY <1>3, <2>1, CopyOutFacts
  <2>4. \A u \in Threads \ {t} : ThreadInStep(u)'
    <3>1. ASSUME NEW u \in Threads \ {t} PROVE pc'[u] = pc[u] /\ op'[u] = op[u] /\ data'[u] = data[u] /\ done'[u] = done[u]
      BY <1>2, <2>1, <2>3
    <3> QED BY <1>1, <2>2, <3>1, Bystander
  <2>5. ThreadInStep(t)'
    <3>1. CASE pc' = [pc EXCEPT ![t] = "idle"]
      <4>1. pc'[t] = "idle"
        BY <1>2, <3>1
      <4> QED BY <4>1 DEF ThreadInStep, Awaiting
    <3>2. CASE /\ data' = CopyOut(t) /\ bounce[StatusCell(t)] = S_OK
               /\ ~(done[t] + This(t) >= op[t].n)
               /\ done' = [done EXCEPT ![t] = @ + This(t)]
               /\ pc' = [pc EXCEPT ![t] = "copy"] /\ op' = op
      <4>1. pc'[t] = "copy" /\ done'[t] = done[t] + This(t)
        BY <1>2, <3>2
      <4>2. SoFar(t)'
        BY <1>3, <2>1, <3>2, <4>1, DataSoFar
      <4> QED BY <4>1, <4>2 DEF ThreadInStep, Awaiting
    <3> QED BY <2>1, <3>1, <3>2
  <2> QED BY <2>4, <2>5 DEF InStep
<1>10. ASSUME Expire(t) PROVE InStep'
  BY <1>10 DEF Expire
<1> QED BY <1>4, <1>5, <1>6, <1>7, <1>8, <1>9, <1>10 DEF Thread

\* The request the device takes is the one its thread has put together.
LEMMA TakenAsMeant ==
    ASSUME BlkInv, HasAvail(q, seen), NEW t \in Threads, pc[t] \notin {"idle", "check"},
           FilledIn(t), AsBuilt(t, Chain(q, AvailHead(q, seen)))
    PROVE  Fetched(t, Taken)
<1> DEFINE ch == Chain(q, AvailHead(q, seen))
           bs == Buffers(t)
<1>1. ThreadInv /\ DeviceInv
  BY BlkInvParts
<1>2. /\ Taken.kind = header.kind /\ Taken.lba = header.lba
      /\ Taken.moves = (IF Len(ch) = 3 THEN q.desc[ch[2]].len ELSE 0)
      /\ Taken.fills = (Len(ch) = 3 /\ q.desc[ch[2]].write)
      /\ Taken.status = q.desc[Last(ch)].addr
      /\ Taken.data = bounce
  BY TakenFacts
<1>3. /\ Len(ch) = Len(bs)
      /\ \A i \in 1 .. Len(ch) : /\ q.desc[ch[i]].addr = bs[i].addr /\ q.desc[ch[i]].len = bs[i].len
                                 /\ q.desc[ch[i]].write = bs[i].write
  BY DEF AsBuilt
<1>4. /\ Len(bs) = (IF op[t].kind = "flush" THEN 2 ELSE 3)
      /\ bs[Len(bs)].addr = StatusCell(t)
      /\ op[t].kind # "flush" => bs[2].len = This(t) /\ bs[2].write = (op[t].kind = "read")
  BY <1>1, BufferFacts
<1>5. header.kind = op[t].kind /\ header.lba = op[t].lba + done[t]
  BY DEF FilledIn
<1>6. op[t].kind = "write" => \A c \in 1 .. This(t) : bounce[c] = data[t][done[t] + c]
  BY DEF FilledIn
<1>7. Last(ch) = ch[Len(ch)]
  BY DEF Last
<1> HIDE DEF ch, bs
<1>8. Taken.status = StatusCell(t)
  <2>1. Len(ch) \in 1 .. Len(ch)
    BY <1>3, <1>4
  <2> QED BY <1>2, <1>3, <1>4, <1>7, <2>1
<1>9. Taken.moves = (IF op[t].kind = "flush" THEN 0 ELSE This(t)) /\ Taken.fills = (op[t].kind = "read")
  <2>1. CASE op[t].kind = "flush"
    BY <1>2, <1>3, <1>4, <2>1
  <2>2. CASE op[t].kind # "flush"
    <3>1. Len(ch) = 3 /\ 2 \in 1 .. Len(ch)
      BY <1>3, <1>4, <2>2
    <3> QED BY <1>2, <1>3, <1>4, <2>2, <3>1
  <2> QED BY <2>1, <2>2
<1> QED BY <1>2, <1>5, <1>6, <1>8, <1>9 DEF Fetched

\* The one thread a request in the ring is of.
LEMMA Awaited ==
    ASSUME BlkInv, timeouts = 0, NEW x \in Outstanding
    PROVE  \E t \in Threads : /\ Awaiting = {t} /\ pc[t] \in {"notify", "poll", "clock"}
                              /\ \A u \in Threads \ {t} : pc[u] \in {"idle", "check", "copy"} /\ done[u] = 0
<1>1. PICK t \in Awaiting : Awaiting = {t} /\ t \in Threads
  BY OneAtATime
<1>2. pc[t] \in {"notify", "poll", "clock"}
  BY DEF Awaiting
<1>3. ThreadInv
  BY BlkInvParts
<1> QED BY <1>1, <1>2, <1>3, Holder

LEMMA FetchInStep ==
    ASSUME BlkInv, InStep, timeouts = 0, DevFetch
    PROVE  InStep'
<1>1. ThreadInv /\ DeviceInv /\ RingInv(q, seen, Busy)
  BY BlkInvParts DEF RequestsInv
<1>2. /\ HasAvail(q, seen) /\ inDev' = inDev \cup {Taken} /\ seen' = Plus(seen, 1)
      /\ UNCHANGED <<q, header, bounce, pc, op, data, done, disk, durable>>
  BY DEF DevFetch, Taken, drvVars
<1>3. /\ AvailHead(q, seen) = PublishedHead(q, seen) /\ AvailHead(q, seen) \in Outstanding
      /\ seen \in Published(q, seen) /\ Published(q, Plus(seen, 1)) = Published(q, seen) \ {seen}
  BY <1>1, <1>2, FetchRing DEF Outstanding
<1>4. PICK t \in Threads : /\ Awaiting = {t} /\ pc[t] \in {"notify", "poll", "clock"}
                           /\ \A u \in Threads \ {t} : pc[u] \in {"idle", "check", "copy"} /\ done[u] = 0
  BY <1>3, Awaited
<1>5. SoFar(t) /\ Underway(t)
  BY <1>4 DEF InStep, ThreadInStep
<1>6. Fetched(t, Taken)
  <2>1. FilledIn(t) /\ AsBuilt(t, Chain(q, AvailHead(q, seen)))
    BY <1>3, <1>5 DEF Underway
  <2> QED BY <1>2, <1>4, <2>1, TakenAsMeant
<1>7. Underway(t)'
  <2>1. Published(q, seen)' = Published(q, seen) \ {seen} /\ Answered(q)' = Answered(q) /\ q' = q
    BY <1>2, <1>3 DEF Published, Answered
  <2>2. ASSUME NEW i \in Published(q, seen) PROVE FilledIn(t)' /\ AsBuilt(t, Chain(q, PublishedHead(q, i)))'
    <3>1. FilledIn(t) /\ AsBuilt(t, Chain(q, PublishedHead(q, i)))
      BY <1>5 DEF Underway
    <3>2. FilledIn(t)'
      BY <1>2, <3>1, KeptFilledIn
    <3>3. Buffers(t)' = Buffers(t)
      BY <1>2, KeptBuffers
    <3>4. AsBuilt(t, Chain(q, PublishedHead(q, i)))'
      BY <1>2, <3>1, <3>3 DEF AsBuilt
    <3> QED BY <3>2, <3>4
  <2>3. ASSUME NEW r \in inDev \cup {Taken} PROVE Fetched(t, r)'
    <3>1. Fetched(t, r)
      BY <1>5, <1>6 DEF Underway
    <3> QED BY <1>2, <3>1, KeptFetched
  <2>4. Answered(q) # {} => Effected(t)'
    BY <1>2, <1>5, KeptEffected DEF Underway
  <2> QED BY <1>2, <2>1, <2>2, <2>3, <2>4 DEF Underway
<1>8. SoFar(t)'
  BY <1>2, <1>5, KeptSoFar
<1>9. ThreadInStep(t)'
  BY <1>2, <1>4, <1>7, <1>8 DEF ThreadInStep
<1>10. \A u \in Threads \ {t} : ThreadInStep(u)'
  <2>1. ASSUME NEW u \in Threads \ {t} PROVE ThreadInStep(u)
    BY DEF InStep
  <2> QED BY <1>2, <1>4, <2>1, Bystander
<1> QED BY <1>9, <1>10 DEF InStep

LEMMA FlagInStep ==
    ASSUME BlkInv, InStep, timeouts = 0, DevSleep \/ DevWake
    PROVE  InStep'
<1>1. RingInv(q, seen, Busy)
  BY BlkInvParts DEF RequestsInv
<1>2. /\ UNCHANGED <<header, bounce, pc, op, data, done, disk, durable, seen, inDev>>
      /\ \E f \in BOOLEAN : q' = [q EXCEPT !.noNotify = f]
  BY DEF DevSleep, DevWake
<1>3. PICK f \in BOOLEAN : q' = [q EXCEPT !.noNotify = f]
  BY <1>2
<1>4. /\ Published(q', seen) = Published(q, seen) /\ Answered(q') = Answered(q)
      /\ \A i : PublishedHead(q', i) = PublishedHead(q, i)
      /\ \A x \in Outstanding : Chain(q', x) = Chain(q, x)
      /\ q'.desc = q.desc
  BY <1>1, <1>3, FlagRing DEF Outstanding
<1>5. ASSUME NEW u \in Threads, Underway(u) PROVE Underway(u)'
  <2>1. Published(q, seen)' = Published(q, seen) /\ Answered(q)' = Answered(q)
    BY <1>2, <1>4 DEF Published, Answered
  <2>2. ASSUME NEW i \in Published(q, seen) PROVE FilledIn(u)' /\ AsBuilt(u, Chain(q, PublishedHead(q, i)))'
    <3>1. FilledIn(u) /\ AsBuilt(u, Chain(q, PublishedHead(q, i)))
      BY <1>5 DEF Underway
    <3>2. FilledIn(u)'
      BY <1>2, <3>1, KeptFilledIn
    <3>3. Buffers(u)' = Buffers(u)
      BY <1>2, KeptBuffers
    <3>4. Chain(q', PublishedHead(q', i)) = Chain(q, PublishedHead(q, i))
      BY <1>4, Placed
    <3>5. AsBuilt(u, Chain(q, PublishedHead(q, i)))'
      BY <1>4, <3>1, <3>3, <3>4 DEF AsBuilt
    <3> QED BY <3>2, <3>5
  <2>3. ASSUME NEW r \in inDev PROVE Fetched(u, r)'
    BY <1>2, <1>5, KeptFetched DEF Underway
  <2>4. Answered(q) # {} => Effected(u)'
    BY <1>2, <1>5, KeptEffected DEF Underway
  <2> QED BY <1>2, <2>1, <2>2, <2>3, <2>4 DEF Underway
<1>6. ASSUME NEW u \in Threads PROVE ThreadInStep(u)'
  <2>1. ThreadInStep(u)
    BY DEF InStep
  <2>2. pc'[u] \notin {"idle", "check"} => SoFar(u)'
    BY <1>2, <2>1, KeptSoFar DEF ThreadInStep
  <2>3. pc'[u] = "add" => FilledIn(u)'
    BY <1>2, <2>1, KeptFilledIn DEF ThreadInStep
  <2>4. u \in Awaiting' => u \in Awaiting
    BY <1>2 DEF Awaiting
  <2> QED BY <1>2, <1>5, <2>1, <2>2, <2>3, <2>4 DEF ThreadInStep
<1> QED BY <1>6 DEF InStep

\* What the device does to the sectors and the cells is what the operation asked for.
LEMMA AnsweredAsMeant ==
    ASSUME BlkInv, NEW t \in Threads, pc[t] \notin {"idle", "check"}, SoFar(t),
           NEW r \in inDev, Fetched(t, r), NEW s \in {S_OK, S_IOERR}, s = S_OK => Sensible(r), DevAnswer(r, s)
    PROVE  SoFar(t)' /\ Effected(t)'
<1>1. ThreadInv /\ DeviceInv
  BY BlkInvParts
<1>2. /\ UNCHANGED <<op, data, done>>
      /\ bounce' = [c \in Cells |->
                      IF c = r.status THEN s
                      ELSE IF s = S_OK /\ r.kind = "read" /\ c <= r.moves THEN disk[r.lba + c - 1]
                      ELSE bounce[c]]
      /\ disk' = IF s = S_OK /\ r.kind = "write"
                 THEN [x \in DOMAIN disk |->
                         IF x \in r.lba .. r.lba + r.moves - 1 THEN r.data[x - r.lba + 1] ELSE disk[x]]
                 ELSE disk
      /\ durable' = IF s = S_OK /\ r.kind = "flush" THEN disk ELSE durable
  BY DEF DevAnswer
<1>3. This(t)' = This(t) /\ StatusCell(t)' = StatusCell(t)
  BY <1>2, KeptBuffers
<1>4. /\ op[t].lba \in Nat /\ done[t] \in Nat /\ op[t].n \in Nat /\ MaxPerReq \in Nat /\ Capacity \in Nat
      /\ op[t].kind # "flush" => /\ This(t) \in 1 .. MaxPerReq /\ done[t] + This(t) <= op[t].n
                                 /\ op[t].lba + op[t].n <= Capacity
      /\ StatusCell(t) \in Cells /\ StatusCell(t) = (IF op[t].kind = "flush" THEN 1 ELSE 1 + This(t))
  BY <1>1, RequestFacts, OpFacts
<1>5. /\ r.kind = op[t].kind /\ r.lba = op[t].lba + done[t] /\ r.status = StatusCell(t)
      /\ r.moves = (IF op[t].kind = "flush" THEN 0 ELSE This(t))
      /\ op[t].kind = "write" => \A c \in 1 .. This(t) : r.data[c] = data[t][done[t] + c]
  BY DEF Fetched
<1>6. DOMAIN disk = 0 .. Capacity - 1
  BY <1>1 DEF DeviceInv
<1>7. bounce'[StatusCell(t)] = s
  BY <1>2, <1>4, <1>5
<1>8. CASE op[t].kind = "read"
  <2>1. disk' = disk
    BY <1>2, <1>5, <1>8
  <2>2. SoFar(t)'
    BY <1>2, <2>1, KeptSoFar
  <2>3. ASSUME s = S_OK, NEW c \in 1 .. This(t) PROVE bounce'[c] = disk[op[t].lba + done[t] + c - 1]
    <3>1. c \in Cells /\ c # r.status /\ c <= r.moves
      BY <1>4, <1>5, <1>8 DEF Cells
    <3>2. bounce'[c] = disk[r.lba + c - 1]
      BY <1>2, <1>5, <1>8, <2>3, <3>1
    <3> QED BY <1>5, <3>2
  <2> QED BY <1>2, <1>3, <1>7, <1>8, <2>1, <2>2, <2>3 DEF Effected
<1>9. CASE op[t].kind = "write"
  <2>1. CASE s = S_OK
    <3>1. disk' = [x \in 0 .. Capacity - 1 |->
                     IF x \in r.lba .. r.lba + r.moves - 1 THEN r.data[x - r.lba + 1] ELSE disk[x]]
      BY <1>2, <1>5, <1>6, <1>9, <2>1
    <3>2. r.lba = op[t].lba + done[t] /\ r.moves = This(t)
      BY <1>5, <1>9
    <3> DEFINE l == op[t].lba
               d == done[t]
               m == This(t)
    <3>3. l \in Nat /\ d \in Nat /\ m \in Nat /\ l + d + m <= Capacity /\ Capacity \in Nat
      BY <1>4, <1>9
    <3>4. disk' = [x \in 0 .. Capacity - 1 |->
                     IF x \in l + d .. l + d + m - 1 THEN r.data[x - (l + d) + 1] ELSE disk[x]]
      BY <3>1, <3>2
    <3> HIDE DEF l, d, m
    <3>5. ASSUME NEW i \in 1 .. d PROVE disk'[l + i - 1] = disk[l + i - 1]
      <4>1. l + i - 1 \in 0 .. Capacity - 1 /\ l + i - 1 \notin l + d .. l + d + m - 1
        BY <3>3
      <4> QED BY <3>4, <4>1
    <3>6. ASSUME NEW c \in 1 .. m PROVE disk'[l + d + c - 1] = r.data[c]
      <4>1. /\ l + d + c - 1 \in 0 .. Capacity - 1 /\ l + d + c - 1 \in l + d .. l + d + m - 1
            /\ (l + d + c - 1) - (l + d) + 1 = c
        BY <3>3
      <4> QED BY <3>4, <4>1
    <3>7. \A i \in 1 .. done[t] : disk'[op[t].lba + i - 1] = disk[op[t].lba + i - 1]
      BY <3>5 DEF l, d
    <3>8. \A c \in 1 .. This(t) : disk'[op[t].lba + done[t] + c - 1] = data[t][done[t] + c]
      BY <1>5, <1>9, <3>6 DEF l, d, m
    <3>9. SoFar(t)'
      BY <1>2, <1>9, <3>7 DEF SoFar
    <3> QED BY <1>2, <1>3, <1>9, <3>8, <3>9 DEF Effected
  <2>2. CASE s # S_OK
    <3>1. disk' = disk
      BY <1>2, <2>2
    <3>2. SoFar(t)'
      BY <1>2, <3>1, KeptSoFar
    <3> QED BY <1>3, <1>7, <2>2, <3>2 DEF Effected
  <2> QED BY <2>1, <2>2
<1>10. CASE op[t].kind \notin {"read", "write"}
  <2>1. SoFar(t)'
    BY <1>2, <1>10 DEF SoFar
  <2>2. op[t].kind = "flush"
    BY <1>1, <1>10, RequestFacts DEF Kinds
  <2>3. s = S_OK => durable' = disk /\ disk' = disk
    BY <1>2, <1>5, <2>2
  <2> QED BY <1>2, <1>3, <1>7, <1>10, <2>1, <2>3 DEF Effected
<1> QED BY <1>8, <1>9, <1>10

LEMMA AnswerInStep ==
    ASSUME BlkInv, InStep, timeouts = 0, NEW r \in inDev, NEW s \in {S_OK, S_IOERR},
           s = S_OK => Sensible(r), DevAnswer(r, s)
    PROVE  InStep'
<1>1. ThreadInv /\ RingInv(q, seen, Busy) /\ DeviceInv
  BY BlkInvParts DEF RequestsInv
<1>2. /\ q' = PushUsed(q, r.head, r.moves) /\ inDev' = inDev \ {r}
      /\ UNCHANGED <<header, pc, op, data, done, seen>>
  BY DEF DevAnswer
<1>3. r.head \in Outstanding
  BY Placed
<1>4. PICK t \in Threads : /\ Awaiting = {t} /\ pc[t] \in {"notify", "poll", "clock"}
                           /\ \A u \in Threads \ {t} : pc[u] \in {"idle", "check", "copy"} /\ done[u] = 0
  BY <1>3, Awaited
<1>5. SoFar(t) /\ Underway(t)
  BY <1>4 DEF InStep, ThreadInStep
<1>6. Published(q, seen) = {}
  BY <1>3, Placed, OneAtATime
<1>7. Published(q, seen)' = {}
  <2> DEFINE h == r.head
             m == r.moves
  <2>1. h \in Busy /\ m \in Nat
    BY <1>1, OpFacts DEF Busy, DeviceInv, Request
  <2>2. q' = PushUsed(q, h, m)
    BY <1>2
  <2> HIDE DEF h, m
  <2>3. Published(q', seen) = Published(q, seen)
    BY <1>1, <2>1, <2>2, AnswerRing
  <2> QED BY <1>2, <1>6, <2>3 DEF Published
<1>8. SoFar(t)' /\ Effected(t)'
  <2>1. Fetched(t, r)
    BY <1>5 DEF Underway
  <2> QED BY <1>4, <1>5, <2>1, AnsweredAsMeant
<1>9. \A x \in inDev' : Fetched(t, x)'
  BY <1>2, <1>5, KeptFetched DEF Underway
<1>10. ThreadInStep(t)'
  BY <1>2, <1>4, <1>7, <1>8, <1>9 DEF ThreadInStep, Underway
<1>11. \A u \in Threads \ {t} : ThreadInStep(u)'
  <2>1. ASSUME NEW u \in Threads \ {t} PROVE ThreadInStep(u)
    BY DEF InStep
  <2> QED BY <1>2, <1>4, <2>1, Bystander
<1> QED BY <1>10, <1>11 DEF InStep

LEMMA InitInStep == Init => InStep
<1> SUFFICES ASSUME Init PROVE InStep
  OBVIOUS
<1>1. \A t \in Threads : pc[t] = "idle"
  BY DEF Init
<1> QED BY <1>1 DEF InStep, ThreadInStep, Awaiting

LEMMA NextInStep == BlkInv /\ InStep /\ [Next]_vars => InStep'
<1> SUFFICES ASSUME BlkInv, InStep, [Next]_vars PROVE InStep'
  OBVIOUS
<1>1. timeouts \in Nat
  BY BlkInvParts
<1>2. CASE timeouts # 0
  <2>1. timeouts' # 0
    <3>1. timeouts' = timeouts \/ timeouts' = timeouts + 1
      BY DEF Next, Thread, Device, Enter, Check, CopyIn, Submit, Notify, Completed, PollEmpty, Spin, Expire,
             DevFetch, DevComplete, DevAnswer, DevSleep, DevWake, vars
    <3> QED BY <1>1, <1>2, <3>1
  <2> QED BY <2>1 DEF InStep
<1>3. CASE timeouts = 0
  <2>1. ASSUME timeouts' = 0, NEW t \in Threads, Thread(t) PROVE InStep'
    BY <1>3, <2>1, ThreadsInStep
  <2>2. CASE Device
    <3>1. CASE DevFetch
      BY <1>3, <3>1, FetchInStep
    <3>2. CASE DevComplete
      <4>1. PICK r \in inDev : \/ Sensible(r) /\ DevAnswer(r, S_OK)
                               \/ DevAnswer(r, S_IOERR)
        BY <3>2 DEF DevComplete
      <4>2. S_OK # S_IOERR
        BY DEF S_OK, S_IOERR
      <4> QED BY <1>3, <4>1, <4>2, AnswerInStep
    <3>3. CASE DevSleep \/ DevWake
      BY <1>3, <3>3, FlagInStep
    <3> QED BY <2>2, <3>1, <3>2, <3>3 DEF Device
  <2>3. CASE UNCHANGED vars
    <3>1. UNCHANGED <<pc, op, data, done, header, bounce, disk, durable, q, seen, inDev>>
      BY <2>3 DEF vars, drvVars, devVars
    <3>2. \A u \in Threads : ThreadInStep(u)
      BY <1>3 DEF InStep
    <3> QED BY <3>1, <3>2, OthersInStep DEF InStep
  <2> QED BY <2>1, <2>2, <2>3 DEF Next, InStep
<1> QED BY <1>2, <1>3

\* The request in the ring is that of the operation that holds the mutex, as its thread
\* meant it, and a completed one has done what its status says: until an operation
\* times out.
THEOREM DriverInStep == Spec => [](BlkInv /\ InStep)
<1>1. Init => BlkInv /\ InStep
  BY InitBlk, InitInStep
<1>2. (BlkInv /\ InStep) /\ [Next]_vars => (BlkInv /\ InStep)'
  BY NextBlk, NextInStep
<1> QED BY <1>1, <1>2, PTL DEF Spec

-----------------------------------------------------------------------------
(* The driver implements BlockDevice.  Serving is the thread that began to *)
(* use the bounce buffer; before a time-out every step of the driver and   *)
(* of the device is a step of BlockDevice or leaves its variables alone.   *)

\* The driver's step is one of BlockDevice, or changes nothing it can see.
Simulated == Abstract!AbsNext \/ UNCHANGED Abstract!absVars

\* The thread that is served is at the head of the mutex.
LEMMA ServingIs ==
    ASSUME ThreadInv, NEW t \in Threads, pc[t] \notin {"idle", "check", "copy"} \/ done[t] > 0
    PROVE  Serving = t /\ mutex # <<>> /\ Head(mutex) = t
<1>1. /\ \A u \in Threads : In(u, mutex) <=> pc[u] \notin {"idle", "check"}
      /\ \A u \in Threads : pc[u] \in {"idle", "check"} => done[u] = 0
      /\ \A u \in Threads : pc[u] \notin {"idle", "check", "copy"} \/ done[u] > 0 => u = Head(mutex)
  BY DEF ThreadInv, MutexOrder, OpsAccepted
<1>2. pc[t] \notin {"idle", "check"}
  <2>1. ~(0 > 0)
    OBVIOUS
  <2> QED BY <1>1, <2>1
<1>3. mutex # <<>>
  BY <1>1, <1>2 DEF In
<1>4. Head(mutex) = t
  BY <1>1
<1> QED BY <1>3, <1>4 DEF Serving

\* A thread that is not past the checks is not served.
LEMMA NotServed ==
    ASSUME ThreadInv
    PROVE  /\ \A t \in Threads : pc[t] \in {"idle", "check"} => Serving # t
           /\ mutex # <<>> => Head(mutex) \in Threads /\ pc[Head(mutex)] \notin {"idle", "check"}
           /\ Serving # NoThread => mutex # <<>> /\ Head(mutex) = Serving /\ Serving \in Threads
<1>1. /\ \A u \in Threads : In(u, mutex) <=> pc[u] \notin {"idle", "check"}
      /\ mutex \in Seq(Threads) /\ NoThread \notin Threads
  BY OpFacts DEF ThreadInv, MutexOrder
<1>2. mutex # <<>> => Head(mutex) \in Threads /\ In(Head(mutex), mutex)
  <2>1. mutex # <<>> => Len(mutex) \in Nat \ {0} /\ Head(mutex) = mutex[1] /\ mutex[1] \in Threads
    BY <1>1, EmptySeq
  <2> QED BY <2>1 DEF In
<1> QED BY <1>1, <1>2 DEF Serving

\* Who is served stays so while the threads past the checks stay where they are.
LEMMA ServingStays ==
    ASSUME ThreadInv, mutex' = mutex,
           \A u \in Threads : pc[u] \notin {"idle", "check"} => pc'[u] = pc[u] /\ done'[u] = done[u]
    PROVE  Serving' = Serving
BY NotServed DEF Serving

\* The holder goes on.
LEMMA ServingGoesOn ==
    ASSUME mutex' = mutex, NEW t \in Threads, mutex # <<>>, Head(mutex) = t,
           pc'[t] # "copy" \/ done'[t] > 0
    PROVE  Serving' = t
BY DEF Serving

\* An operation that returns after its request leaves nobody served.
LEMMA DoneServing ==
    ASSUME ThreadInv, NEW t \in Threads, NEW r, Done(t, r), pc[t] \notin {"idle", "check", "copy"}
    PROVE  Serving = t /\ Serving' = NoThread
<1>1. /\ mutex \in Seq(Threads) /\ Distinct(mutex) /\ pc \in [Threads -> Steps] /\ done \in [Threads -> Nat]
      /\ \A u \in Threads : In(u, mutex) <=> pc[u] \notin {"idle", "check"}
  BY DEF ThreadInv, MutexOrder
<1>2. Serving = t /\ mutex # <<>> /\ Head(mutex) = t
  BY ServingIs
<1>3. \A u \in Threads \ {t} : pc[u] \in {"idle", "check", "copy"} /\ done[u] = 0
  BY Holder
<1>4. /\ pc' = [pc EXCEPT ![t] = "idle"] /\ done' = [done EXCEPT ![t] = 0] /\ mutex' = Tail(mutex)
  BY <1>2 DEF Done
<1>5. ASSUME Tail(mutex) # <<>>
      PROVE  pc'[Head(mutex')] = "copy" /\ ~(done'[Head(mutex')] > 0)
  <2> DEFINE m == Tail(mutex)
             u == Head(m)
  <2>1. m \in Seq(Threads) /\ \A x : In(x, m) <=> In(x, mutex) /\ x # t
    BY <1>1, <1>2, TailHolds
  <2>2. m # <<>>
    BY <1>5
  <2> HIDE DEF m
  <2>3. Len(m) \in Nat \ {0} /\ u = m[1] /\ u \in Threads
    BY <2>1, <2>2, EmptySeq
  <2>4. In(u, m)
    BY <2>3 DEF In
  <2> HIDE DEF u
  <2>5. u \in Threads \ {t} /\ pc[u] \notin {"idle", "check"}
    BY <1>1, <2>1, <2>3, <2>4
  <2>6. pc'[u] = "copy" /\ done'[u] = 0
    BY <1>1, <1>3, <1>4, <2>5
  <2>7. Head(mutex') = u
    BY <1>4 DEF m, u
  <2> QED BY <2>6, <2>7
<1>6. Serving' = NoThread
  BY <1>4, <1>5 DEF Serving
<1> QED BY <1>2, <1>6

LEMMA InitSimulated == Init => Abstract!AbsInit
<1> SUFFICES ASSUME Init PROVE Abstract!AbsInit
  OBVIOUS
<1>1. /\ disk = [s \in 0 .. Capacity - 1 |-> S_OK] /\ durable = disk /\ mutex = <<>>
      /\ op = [t \in Threads |-> NoOp] /\ data = [t \in Threads |-> <<>>]
      /\ result = [t \in Threads |-> "none"] /\ timeouts = 0
  BY DEF Init
<1>2. disk \in [0 .. Capacity - 1 -> Sectors]
  BY <1>1, OpFacts
<1>3. Serving = NoThread
  BY <1>1 DEF Serving
<1>4. (timeouts > 0) = FALSE
  BY <1>1
<1> QED BY <1>1, <1>2, <1>3, <1>4 DEF Abstract!AbsInit

LEMMA EnterSimulated ==
    ASSUME ThreadInv, NEW t \in Threads, Enter(t)
    PROVE  Simulated
<1>1. /\ pc[t] = "idle" /\ pc' = [pc EXCEPT ![t] = "check"]
      /\ \E o \in Ops : op' = [op EXCEPT ![t] = o] /\ data' = [data EXCEPT ![t] = o.data]
      /\ UNCHANGED <<mutex, done, disk, durable, result, timeouts>>
  BY DEF Enter, devVars
<1>2. op[t] = NoOp /\ pc \in [Threads -> Steps]
  BY <1>1 DEF ThreadInv, OpsAccepted
<1>3. Serving' = Serving
  BY <1>1, <1>2, ServingStays
<1>4. Abstract!Call(t)
  BY <1>1, <1>2, <1>3 DEF Abstract!Call
<1> QED BY <1>4 DEF Simulated, Abstract!AbsNext

LEMMA CheckSimulated ==
    ASSUME ThreadInv, NEW t \in Threads, Check(t)
    PROVE  Simulated
<1>1. pc[t] = "check" /\ UNCHANGED <<data, disk, durable, timeouts>>
  BY DEF Check, devVars
<1>2. /\ pc \in [Threads -> Steps] /\ mutex \in Seq(Threads) /\ done \in [Threads -> Nat]
      /\ op[t] # NoOp /\ done[t] = 0
  BY <1>1 DEF ThreadInv, OpsAccepted
<1>3. Serving # t /\ (mutex # <<>> => Head(mutex) \in Threads \ {t})
  BY <1>1, NotServed
<1>4. CASE Refusal(op[t]) # "none" /\ Done(t, Refusal(op[t]))
  <2>1. /\ Refusal(op[t]) \in {"ok", "length", "range"}
        /\ Refusal(op[t]) = "ok" => op[t].kind = "flush"
    BY <1>4 DEF Refusal
  <2>2. /\ pc' = [pc EXCEPT ![t] = "idle"] /\ op' = [op EXCEPT ![t] = NoOp]
        /\ done' = [done EXCEPT ![t] = 0] /\ result' = [result EXCEPT ![t] = Refusal(op[t])]
        /\ mutex' = mutex
    BY <1>3, <1>4 DEF Done
  <2>3. Serving' = Serving
    BY <1>1, <1>2, <2>2, ServingStays
  <2>4. Abstract!Return(t)
    <3>1. CASE Refusal(op[t]) = "ok"
      <4>1. Abstract!Succeed(t)
        BY <1>3, <2>1, <2>2, <3>1 DEF Abstract!Succeed
      <4> QED BY <1>1, <1>2, <1>3, <2>2, <2>3, <4>1 DEF Abstract!Return
    <3>2. CASE Refusal(op[t]) # "ok"
      <4>1. \E e \in {"length", "range", "io"} : result' = [result EXCEPT ![t] = e]
        BY <2>1, <2>2, <3>2
      <4> QED BY <1>1, <1>2, <1>3, <2>2, <2>3, <4>1 DEF Abstract!Return
    <3> QED BY <3>1, <3>2
  <2> QED BY <2>4 DEF Simulated, Abstract!AbsNext
<1>5. CASE mutex' = Append(mutex, t) /\ pc' = [pc EXCEPT ![t] = "copy"] /\ UNCHANGED <<op, done, result>>
  <2>1. Serving' = Serving
    <3>1. CASE mutex = <<>>
      <4>1. mutex' # <<>> /\ Head(mutex') = t
        BY <1>5, <3>1
      <4>2. pc'[t] = "copy" /\ ~(done'[t] > 0)
        BY <1>2, <1>5
      <4> QED BY <3>1, <4>1, <4>2 DEF Serving
    <3>2. CASE mutex # <<>>
      <4>1. mutex' # <<>> /\ Head(mutex') = Head(mutex)
        BY <1>2, <1>5, <3>2
      <4>2. pc'[Head(mutex)] = pc[Head(mutex)] /\ done' = done
        BY <1>2, <1>3, <1>5, <3>2
      <4> QED BY <3>2, <4>1, <4>2 DEF Serving
    <3> QED BY <3>1, <3>2
  <2> QED BY <1>1, <1>5, <2>1 DEF Simulated, Abstract!absVars
<1> QED BY <1>4, <1>5 DEF Check

LEMMA CopyInSimulated ==
    ASSUME ThreadInv, NEW t \in Threads, CopyIn(t)
    PROVE  Simulated
<1>1. /\ pc[t] = "copy" /\ Head(mutex) = t /\ pc' = [pc EXCEPT ![t] = "add"]
      /\ UNCHANGED <<mutex, op, data, done, result, disk, durable, timeouts>>
  BY DEF CopyIn, devVars
<1>2. pc \in [Threads -> Steps] /\ done[t] \in Nat /\ op[t] # NoOp
  BY <1>1 DEF ThreadInv, OpsAccepted
<1>3. mutex # <<>>
  BY <1>1, Holder
<1>4. Serving' = t
  BY <1>1, <1>2, <1>3, ServingGoesOn
<1>5. CASE done[t] = 0
  <2>1. Serving = NoThread
    BY <1>1, <1>3, <1>5 DEF Serving
  <2>2. Abstract!Serve(t)
    BY <1>1, <1>2, <1>4, <2>1 DEF Abstract!Serve
  <2> QED BY <2>2 DEF Simulated, Abstract!AbsNext
<1>6. CASE done[t] # 0
  <2>1. Serving = t
    BY <1>2, <1>6, ServingIs
  <2> QED BY <1>1, <1>4, <2>1 DEF Simulated, Abstract!absVars
<1> QED BY <1>5, <1>6

LEMMA SubmitSimulated ==
    ASSUME ThreadInv, NEW t \in Threads, Submit(t)
    PROVE  Simulated
<1>1. pc[t] = "add" /\ UNCHANGED <<data, disk, durable, timeouts>>
  BY DEF Submit, devVars
<1>2. pc \in [Threads -> Steps] /\ op[t] # NoOp
  BY <1>1 DEF ThreadInv, OpsAccepted
<1>3. Serving = t /\ mutex # <<>> /\ Head(mutex) = t
  BY <1>1, ServingIs
<1>4. CASE Done(t, "io")
  <2>1. op' = [op EXCEPT ![t] = NoOp] /\ result' = [result EXCEPT ![t] = "io"]
    BY <1>4 DEF Done
  <2>2. Serving' = NoThread
    BY <1>1, <1>4, DoneServing
  <2>3. Abstract!Return(t)
    BY <1>1, <1>2, <1>3, <2>1, <2>2 DEF Abstract!Return
  <2> QED BY <2>3 DEF Simulated, Abstract!AbsNext
<1>5. CASE pc' = [pc EXCEPT ![t] = "notify"] /\ UNCHANGED <<mutex, op, done, result>>
  <2>1. Serving' = t
    BY <1>2, <1>3, <1>5, ServingGoesOn
  <2> QED BY <1>1, <1>3, <1>5, <2>1 DEF Simulated, Abstract!absVars
<1> QED BY <1>4, <1>5 DEF Submit

LEMMA WaitSimulated ==
    ASSUME ThreadInv, NEW t \in Threads, Notify(t) \/ PollEmpty(t) \/ Spin(t)
    PROVE  Simulated
<1>1. /\ pc[t] \in {"notify", "poll", "clock"} /\ \E s \in {"poll", "clock"} : pc' = [pc EXCEPT ![t] = s]
      /\ UNCHANGED <<mutex, op, data, done, result, disk, durable, timeouts>>
  BY DEF Notify, PollEmpty, Spin, devVars
<1>2. Serving = t /\ mutex # <<>> /\ Head(mutex) = t
  BY <1>1, ServingIs
<1>3. pc'[t] # "copy"
  BY <1>1 DEF ThreadInv
<1>4. Serving' = t
  BY <1>1, <1>2, <1>3, ServingGoesOn
<1> QED BY <1>1, <1>2, <1>4 DEF Simulated, Abstract!absVars

LEMMA ExpireSimulated ==
    ASSUME ThreadInv, timeouts \in Nat, NEW t \in Threads, Expire(t)
    PROVE  Simulated
<1>1. /\ pc[t] = "clock" /\ Done(t, "timeout") /\ timeouts' = timeouts + 1
      /\ UNCHANGED <<data, disk, durable>>
  BY DEF Expire, devVars
<1>2. op[t] # NoOp
  BY <1>1 DEF ThreadInv, OpsAccepted
<1>3. op' = [op EXCEPT ![t] = NoOp] /\ result' = [result EXCEPT ![t] = "timeout"]
  BY <1>1 DEF Done
<1>4. Serving = t /\ Serving' = NoThread
  BY <1>1, DoneServing
<1>5. (timeouts' > 0) = TRUE
  BY <1>1
<1>6. Abstract!Return(t)
  BY <1>1, <1>2, <1>3, <1>4, <1>5 DEF Abstract!Return
<1> QED BY <1>6 DEF Simulated, Abstract!AbsNext

\* A completion: the operation fails, succeeds, or goes on with its next request.
LEMMA CompletedSimulated ==
    ASSUME BlkInv, InStep, timeouts = 0, NEW t \in Threads, Completed(t)
    PROVE  Simulated
<1>1. pc[t] = "poll" /\ HasUsed(q) /\ UNCHANGED <<disk, durable, timeouts>>
  BY DEF Completed, devVars
<1>2. ThreadInv /\ DeviceInv
  BY BlkInvParts
<1>3. pc \in [Threads -> Steps] /\ done \in [Threads -> Nat] /\ op[t] # NoOp
  BY <1>1, <1>2 DEF ThreadInv, OpsAccepted
<1>4. Serving = t /\ mutex # <<>> /\ Head(mutex) = t
  BY <1>1, <1>2, ServingIs
<1>5. ASSUME NEW r, Done(t, r)
      PROVE  op' = [op EXCEPT ![t] = NoOp] /\ result' = [result EXCEPT ![t] = r] /\ Serving' = NoThread
  BY <1>1, <1>2, <1>5, DoneServing DEF Done
<1>6. CASE Done(t, "io") /\ UNCHANGED data
  <2>1. op' = [op EXCEPT ![t] = NoOp] /\ result' = [result EXCEPT ![t] = "io"] /\ Serving' = NoThread
    BY <1>5, <1>6
  <2>2. Abstract!Return(t)
    BY <1>1, <1>3, <1>4, <1>6, <2>1 DEF Abstract!Return
  <2> QED BY <2>2 DEF Simulated, Abstract!AbsNext
<1>7. /\ op[t].kind \in Kinds /\ op[t].lba \in Nat /\ op[t].n \in Nat /\ done[t] \in Nat
      /\ Len(data[t]) = op[t].n
      /\ op[t].kind # "flush" => /\ This(t) \in 1 .. MaxPerReq /\ done[t] + This(t) <= op[t].n
                                 /\ op[t].lba + op[t].n <= Capacity
      /\ op[t].kind = "flush" => done[t] + This(t) >= op[t].n
  BY <1>1, <1>2, RequestFacts
<1>8. /\ \A u \in Threads \ {t} : CopyOut(t)[u] = data[u]
      /\ op[t].kind = "read" =>
            \A i \in 1 .. Len(data[t]) :
                CopyOut(t)[t][i] = IF i \in done[t] + 1 .. done[t] + This(t) THEN bounce[i - done[t]]
                                   ELSE data[t][i]
      /\ op[t].kind # "read" => CopyOut(t) = data
  BY <1>1, <1>2, CopyOutFacts
<1>9. MaxPerReq \in Nat
  BY OpFacts
<1>10. CASE bounce[StatusCell(t)] = S_OK /\ data' = CopyOut(t) /\ done[t] + This(t) >= op[t].n /\ Done(t, "ok")
  <2>1. op' = [op EXCEPT ![t] = NoOp] /\ result' = [result EXCEPT ![t] = "ok"] /\ Serving' = NoThread
    BY <1>5, <1>10
  <2>2. Abstract!Succeed(t)
    <3>1. CASE op[t].kind \in {"read", "write"}
      <4>1. done[t] + This(t) = op[t].n /\ op[t].n > 0
        BY <1>7, <1>9, <1>10, <3>1
      <4>2. \A i \in 1 .. op[t].n : data'[t][i] = disk[op[t].lba + i - 1]
        <5>1. CASE op[t].kind = "read"
          BY <1>1, <1>10, <4>1, <5>1, DoneSoFar
        <5>2. CASE op[t].kind = "write"
          <6>1. \A i \in 1 .. done[t] + This(t) : disk[op[t].lba + i - 1] = data[t][i]
            BY <1>1, <1>10, <5>2, DoneSoFar
          <6>2. data' = data
            BY <1>8, <1>10, <5>2
          <6> QED BY <4>1, <6>1, <6>2
        <5> QED BY <3>1, <5>1, <5>2
      <4>3. Abstract!SameAsDisk(op[t], data'[t])
        BY <4>2 DEF Abstract!SameAsDisk
      <4>4. Abstract!InRange(op[t])
        BY <1>7, <3>1 DEF Abstract!InRange
      <4> QED BY <1>4, <2>1, <3>1, <4>1, <4>3, <4>4 DEF Abstract!Succeed
    <3>2. CASE op[t].kind = "flush"
      <4>1. durable = disk
        BY <1>1, <1>10, <3>2, DoneSoFar
      <4> QED BY <1>1, <2>1, <3>2, <4>1 DEF Abstract!Succeed
    <3> QED BY <1>7, <3>1, <3>2 DEF Kinds
  <2>3. Abstract!Return(t)
    BY <1>1, <1>3, <1>4, <1>8, <1>10, <2>1, <2>2 DEF Abstract!Return
  <2> QED BY <2>3 DEF Simulated, Abstract!AbsNext
<1>11. CASE /\ bounce[StatusCell(t)] = S_OK /\ data' = CopyOut(t) /\ ~(done[t] + This(t) >= op[t].n)
            /\ done' = [done EXCEPT ![t] = @ + This(t)] /\ UNCHANGED <<mutex, op, result>>
  <2>1. op[t].kind \in {"read", "write"}
    BY <1>7, <1>11 DEF Kinds
  <2>2. done'[t] > 0
    <3>1. done'[t] = done[t] + This(t)
      BY <1>3, <1>11
    <3> QED BY <1>7, <1>9, <2>1, <3>1
  <2>3. Serving' = t
    BY <1>4, <1>11, <2>2, ServingGoesOn
  <2>4. CASE op[t].kind = "read"
    <3>1. ASSUME NEW i \in 1 .. op[t].n, data'[t][i] # data[t][i] PROVE data'[t][i] = disk[op[t].lba + i - 1]
      <4>1. i \in done[t] + 1 .. done[t] + This(t)
        BY <1>7, <1>8, <1>11, <2>4, <3>1
      <4>2. i \in 1 .. done[t] + This(t)
        BY <1>7, <1>9, <2>4, <4>1
      <4> QED BY <1>1, <1>11, <2>4, <4>2, DoneSoFar
    <3>2. Abstract!Load(t)
      BY <1>1, <1>4, <1>8, <1>11, <2>3, <2>4, <3>1 DEF Abstract!Load
    <3> QED BY <3>2 DEF Simulated, Abstract!AbsNext
  <2>5. CASE op[t].kind = "write"
    <3>1. data' = data
      BY <1>8, <1>11, <2>5
    <3> QED BY <1>1, <1>4, <1>11, <2>3, <3>1 DEF Simulated, Abstract!absVars
  <2> QED BY <2>1, <2>4, <2>5
<1> QED BY <1>6, <1>10, <1>11 DEF Completed

\* The device's answer: it has stored what it was to write, or synced.
LEMMA AnswerSimulated ==
    ASSUME BlkInv, InStep, timeouts = 0, NEW r \in inDev, NEW s \in {S_OK, S_IOERR}, DevAnswer(r, s)
    PROVE  Simulated
<1>1. /\ UNCHANGED <<mutex, pc, op, data, done, result, timeouts>>
      /\ disk' = IF s = S_OK /\ r.kind = "write"
                 THEN [x \in DOMAIN disk |->
                         IF x \in r.lba .. r.lba + r.moves - 1 THEN r.data[x - r.lba + 1] ELSE disk[x]]
                 ELSE disk
      /\ durable' = IF s = S_OK /\ r.kind = "flush" THEN disk ELSE durable
  BY DEF DevAnswer
<1>2. ThreadInv /\ DeviceInv
  BY BlkInvParts
<1>3. PICK t \in Threads : Awaiting = {t} /\ pc[t] \in {"notify", "poll", "clock"}
  BY Placed, Awaited
<1>4. SoFar(t) /\ Fetched(t, r)
  BY <1>3 DEF InStep, ThreadInStep, Underway
<1>5. Serving = t
  BY <1>2, <1>3, ServingIs
<1>6. Serving' = Serving
  BY <1>1, <1>2, ServingStays
<1>7. /\ r.kind = op[t].kind /\ r.lba = op[t].lba + done[t]
      /\ r.moves = (IF op[t].kind = "flush" THEN 0 ELSE This(t))
      /\ op[t].kind = "write" => \A c \in 1 .. This(t) : r.data[c] = data[t][done[t] + c]
  BY <1>4 DEF Fetched
<1>8. CASE s = S_OK /\ r.kind = "write"
  <2> DEFINE l == op[t].lba
             d == done[t]
             m == This(t)
             N == op[t].n
  <2>1. l \in Nat /\ d \in Nat /\ m \in Nat /\ N \in Nat /\ d + m <= N
    <3>1. /\ op[t].lba \in Nat /\ done[t] \in Nat /\ op[t].n \in Nat
          /\ This(t) \in 1 .. MaxPerReq /\ done[t] + This(t) <= op[t].n
      BY <1>2, <1>3, <1>7, <1>8, RequestFacts
    <3>2. MaxPerReq \in Nat
      BY OpFacts
    <3> QED BY <3>1, <3>2
  <2>2. r.lba = l + d /\ r.moves = m /\ data[t] = op[t].data
        /\ \A c \in 1 .. m : r.data[c] = data[t][d + c]
    BY <1>4, <1>7, <1>8 DEF SoFar
  <2>3. DOMAIN disk = 0 .. Capacity - 1 /\ Capacity \in Nat
    BY <1>2, OpFacts DEF DeviceInv
  <2> HIDE DEF l, d, m, N
  <2>4. ASSUME NEW x \in 0 .. Capacity - 1, disk'[x] # disk[x]
        PROVE  x - l \in 0 .. N - 1 /\ disk'[x] = op[t].data[x - l + 1]
    <3>1. disk'[x] = IF x \in l + d .. l + d + m - 1 THEN r.data[x - (l + d) + 1] ELSE disk[x]
      BY <1>1, <1>8, <2>2, <2>3
    <3>2. x \in l + d .. l + d + m - 1 /\ disk'[x] = r.data[x - (l + d) + 1]
      BY <2>4, <3>1
    <3>3. /\ x - l \in 0 .. N - 1 /\ x - (l + d) + 1 \in 1 .. m
          /\ d + (x - (l + d) + 1) = x - l + 1
      BY <2>1, <2>3, <3>2
    <3> QED BY <2>2, <3>2, <3>3
  <2>5. \A x \in DOMAIN disk :
           disk'[x] # disk[x] => /\ x - op[t].lba \in 0 .. op[t].n - 1
                                 /\ disk'[x] = op[t].data[x - op[t].lba + 1]
    BY <2>3, <2>4 DEF l, N
  <2>6. Abstract!Store(t)
    BY <1>1, <1>5, <1>6, <1>7, <1>8, <2>5 DEF Abstract!Store
  <2> QED BY <2>6 DEF Simulated, Abstract!AbsNext
<1>9. CASE s = S_OK /\ r.kind = "flush"
  <2>1. Abstract!Sync(t)
    BY <1>1, <1>5, <1>6, <1>7, <1>9 DEF Abstract!Sync
  <2> QED BY <2>1 DEF Simulated, Abstract!AbsNext
<1>10. CASE ~(s = S_OK /\ r.kind \in {"write", "flush"})
  BY <1>1, <1>6, <1>10 DEF Simulated, Abstract!absVars
<1> QED BY <1>8, <1>9, <1>10

LEMMA NextSimulated ==
    ASSUME BlkInv, InStep, [Next]_vars
    PROVE  Simulated
<1>1. ThreadInv /\ timeouts \in Nat
  BY BlkInvParts
<1>2. CASE timeouts > 0
  <2>1. timeouts' = timeouts \/ timeouts' = timeouts + 1
    BY DEF Next, Thread, Device, Enter, Check, CopyIn, Submit, Notify, Completed, PollEmpty, Spin, Expire,
           DevFetch, DevComplete, DevAnswer, DevSleep, DevWake, vars
  <2>2. (timeouts > 0) /\ (timeouts' > 0)
    BY <1>1, <1>2, <2>1
  <2>3. Abstract!Late
    BY <2>2 DEF Abstract!Late
  <2> QED BY <2>3 DEF Simulated, Abstract!AbsNext
<1>3. CASE timeouts = 0
  <2>1. ASSUME NEW t \in Threads, Thread(t) PROVE Simulated
    BY <1>1, <1>3, <2>1, EnterSimulated, CheckSimulated, CopyInSimulated, SubmitSimulated, WaitSimulated,
       CompletedSimulated, ExpireSimulated DEF Thread
  <2>2. CASE DevFetch \/ DevSleep \/ DevWake \/ UNCHANGED vars
    <3>1. UNCHANGED <<mutex, pc, done, op, data, result, disk, durable, timeouts>>
      BY <2>2 DEF DevFetch, DevSleep, DevWake, vars, drvVars, devVars
    <3>2. Serving' = Serving
      BY <1>1, <3>1, ServingStays
    <3> QED BY <3>1, <3>2 DEF Simulated, Abstract!absVars
  <2>3. CASE DevComplete
    <3>1. PICK r \in inDev : DevAnswer(r, S_OK) \/ DevAnswer(r, S_IOERR)
      BY <2>3 DEF DevComplete
    <3> QED BY <1>3, <3>1, AnswerSimulated
  <2> QED BY <2>1, <2>2, <2>3 DEF Next, Device
<1> QED BY <1>1, <1>2, <1>3

\* The driver, the virtqueue, its mutex and the device implement BlockDevice: until an
\* operation times out, a read returns what the device holds, a successful write is
\* there in full, a successful flush has made everything durable, for any number of
\* threads, any queue size and requests of any length.
THEOREM DriverImplementsBlockDevice == Spec => ImplementsBlockDevice
<1>1. Init => Abstract!AbsInit
  BY InitSimulated
<1>2. (BlkInv /\ InStep) /\ [Next]_vars => [Abstract!AbsNext]_(Abstract!absVars)
  BY NextSimulated DEF Simulated
<1> QED BY <1>1, <1>2, DriverInStep, PTL DEF Spec, ImplementsBlockDevice, Abstract!AbsSpec
=============================================================================
