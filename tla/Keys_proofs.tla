---------------------------- MODULE Keys_proofs ----------------------------
(***************************************************************************)
(* A prefix scan finds the keys with the prefix, no more and no less, for  *)
(* every prefix over every range of bytes; and the prefix of a basin's     *)
(* streams is the prefix of no other key of the metadata database.         *)
(* Numbers are read back from their bytes, so that a key of either         *)
(* database stands for one thing; and each value reads back as written.    *)
(***************************************************************************)
EXTENDS Values, TLAPS, WellFoundedInduction, SequenceTheorems

-----------------------------------------------------------------------------
(* Least and greatest elements. *)

Below == {ss \in Nat \X Nat : ss[1] < ss[2]}

\* Every nonempty set of numbers has a least element.
LEMMA LeastExists ==
  ASSUME NEW T \in SUBSET Nat, T # {}
  PROVE  \E x \in T : \A y \in T : x <= y
<1>1. IsWellFoundedOn(Below, Nat)
  BY NatLessThanWellFounded DEF OpToRel, Below
<1>2. PICK x \in T : \A y \in T : ~ (<<y, x>> \in Below)
  BY <1>1, WFMin
<1>3. ASSUME NEW y \in T, y < x PROVE <<y, x>> \in Below
  <2> DEFINE pair == <<y, x>>
  <2>1. /\ pair[1] = y /\ pair[2] = x
        /\ pair \in Nat \X Nat
    OBVIOUS
  <2>2. pair[1] < pair[2]
    BY <1>3, <2>1
  <2> HIDE DEF pair
  <2>3. pair \in Below
    BY <2>1, <2>2 DEF Below
  <2> QED BY <2>3 DEF pair
<1>4. \A y \in T : ~ (y < x)
  BY <1>2, <1>3
<1> QED BY <1>4

\* Induction over a set of numbers: what every proof below that goes from one
\* length to the next rests on.
LEMMA InductionBySet ==
  ASSUME NEW T \in SUBSET Nat, 0 \in T, \A n \in T : n + 1 \in T
  PROVE  T = Nat
<1>1. SUFFICES ASSUME Nat \ T # {} PROVE FALSE
  OBVIOUS
<1>2. PICK x \in Nat \ T : \A y \in Nat \ T : x <= y
  BY <1>1, LeastExists
<1>3. x # 0 /\ x - 1 \in Nat /\ (x - 1) + 1 = x /\ ~(x <= x - 1)
  BY <1>2
<1>4. x - 1 \in T
  BY <1>2, <1>3
<1> QED BY <1>2, <1>3, <1>4

\* f starts at a and goes on by step up to N.
Recurs(f, V, a, step, N) ==
  /\ f \in [0 .. N -> V]
  /\ f[0] = a /\ \A i \in 1 .. N : f[i] = step[<<i, f[i - 1]>>]

\* There is such a function: what a recursive definition needs to mean what it
\* says.
LEMMA RecursionExists ==
  ASSUME NEW V, NEW a \in V, NEW step \in [Nat \X V -> V], NEW N \in Nat
  PROVE  \E f : Recurs(f, V, a, step, N)
<1> DEFINE T == {n \in Nat : \E f : Recurs(f, V, a, step, n)}
<1>1. 0 \in T
  <2> DEFINE f == [i \in 0 .. 0 |-> a]
  <2>1. Recurs(f, V, a, step, 0)
    BY DEF Recurs
  <2> QED BY <2>1
<1>2. ASSUME NEW n \in T PROVE n + 1 \in T
  <2>1. PICK f : Recurs(f, V, a, step, n)
    OBVIOUS
  <2> USE DEF Recurs
  <2> DEFINE last == step[<<n + 1, f[n]>>]
             g == [i \in 0 .. n + 1 |-> IF i = n + 1 THEN last ELSE f[i]]
  <2>2. n \in Nat /\ last \in V
    BY <2>1
  <2> HIDE DEF last
  <2>3. g \in [0 .. n + 1 -> V] /\ g[0] = a /\ g[n + 1] = last
    BY <2>1, <2>2
  <2>4. \A i \in 0 .. n : g[i] = f[i]
    BY <2>2
  <2>5. ASSUME NEW i \in 1 .. n + 1 PROVE g[i] = step[<<i, g[i - 1]>>]
    <3>1. CASE i = n + 1
      <4>1. g[i] = last /\ g[i - 1] = f[n] /\ i - 1 = n
        BY <2>2, <2>3, <2>4, <3>1
      <4> QED BY <3>1, <4>1 DEF last
    <3>2. CASE i # n + 1
      <4>1. i \in 1 .. n /\ i \in 0 .. n /\ i - 1 \in 0 .. n
        BY <2>2, <3>2
      <4>2. g[i] = f[i] /\ g[i - 1] = f[i - 1]
        BY <2>4, <4>1
      <4> QED BY <2>1, <4>1, <4>2
    <3> QED BY <3>1, <3>2
  <2> HIDE DEF g
  <2>6. Recurs(g, V, a, step, n + 1)
    BY <2>3, <2>5
  <2> QED BY <2>2, <2>6
<1> HIDE DEF T
<1>3. T \in SUBSET Nat
  BY DEF T
<1>4. N \in T
  BY <1>1, <1>2, <1>3, InductionBySet
<1> QED BY <1>4 DEF T

\* If a prefix has a byte that can be incremented, it has a last one.
LEMMA LastBelowMaxExists ==
  ASSUME NEW p \in Key, NEW i \in 1 .. Len(p), p[i] # MaxByte
  PROVE  \E j \in 1 .. Len(p) : IsLastBelowMax(p, j)
<1> DEFINE T == {Len(p) - j : j \in {h \in 1 .. Len(p) : p[h] # MaxByte}}
<1>0. Len(p) \in Nat
  BY DEF Key
<1>1. T \in SUBSET Nat /\ T # {}
  <2>1. Len(p) - i \in T
    OBVIOUS
  <2>2. \A j \in 1 .. Len(p) : Len(p) - j \in Nat
    BY <1>0
  <2> QED BY <2>1, <2>2
<1>2. PICK x \in T : \A y \in T : x <= y
  BY <1>1, LeastExists
<1>3. PICK j \in 1 .. Len(p) : p[j] # MaxByte /\ x = Len(p) - j
  OBVIOUS
<1>4. ASSUME NEW h \in j + 1 .. Len(p), p[h] # MaxByte PROVE FALSE
  <2>1. h \in 1 .. Len(p) /\ h > j /\ j \in Nat
    BY <1>0
  <2>2. Len(p) - h \in T
    BY <1>4, <2>1
  <2>3. Len(p) - j <= Len(p) - h
    BY <1>2, <1>3, <2>2
  <2> QED BY <1>0, <2>1, <2>3
<1> QED BY <1>3, <1>4 DEF IsLastBelowMax

\* Keys that differ within both lengths differ at a first place.
LEMMA FirstDifferenceExists ==
  ASSUME NEW a \in Key, NEW b \in Key,
         NEW i \in 1 .. Len(b), i <= Len(a), a[i] # b[i]
  PROVE  \E d \in 1 .. Len(b) :
           /\ d <= Len(a) /\ a[d] # b[d]
           /\ \A j \in 1 .. d - 1 : a[j] = b[j]
<1> DEFINE T == {h \in 1 .. Len(b) : h <= Len(a) /\ a[h] # b[h]}
<1>0. Len(a) \in Nat /\ Len(b) \in Nat
  BY DEF Key
<1>1. T \in SUBSET Nat /\ T # {}
  OBVIOUS
<1>2. PICK d \in T : \A y \in T : d <= y
  BY <1>1, LeastExists
<1>3. ASSUME NEW j \in 1 .. d - 1, a[j] # b[j] PROVE FALSE
  <2>1. j \in T
    BY <1>0, <1>2, <1>3
  <2> QED BY <1>2, <2>1
<1> QED BY <1>2, <1>3

-----------------------------------------------------------------------------
(* The order of keys is strict and total. *)

LEMMA LessIrreflexive ==
  ASSUME NEW a \in Key
  PROVE  ~ Less(a, a)
<1>1. Len(a) \in Nat /\ \A i \in 1 .. Len(a) : a[i] \in Nat
  BY KeysAssumption DEF Key, Byte
<1> QED BY <1>1 DEF Less

LEMMA LessTotal ==
  ASSUME NEW a \in Key, NEW b \in Key, a # b
  PROVE  Less(a, b) \/ Less(b, a)
<1>0. /\ Len(a) \in Nat /\ Len(b) \in Nat
      /\ \A i \in 1 .. Len(a) : a[i] \in Nat
      /\ \A i \in 1 .. Len(b) : b[i] \in Nat
  BY KeysAssumption DEF Key, Byte
<1>1. CASE \E i \in 1 .. Len(b) : i <= Len(a) /\ a[i] # b[i]
  <2>1. PICK d \in 1 .. Len(b) : /\ d <= Len(a) /\ a[d] # b[d]
                                /\ \A j \in 1 .. d - 1 : a[j] = b[j]
    BY <1>1, FirstDifferenceExists
  <2>2. d \in 1 .. Len(a) /\ a[d] \in Nat /\ b[d] \in Nat
    BY <1>0, <2>1
  <2>3. a[d] < b[d] \/ b[d] < a[d]
    BY <2>1, <2>2
  <2> QED BY <1>0, <2>1, <2>2, <2>3 DEF Less
<1>2. CASE \A i \in 1 .. Len(b) : i <= Len(a) => a[i] = b[i]
  <2>1. CASE Len(a) = Len(b)
    <3>1. \A i \in 1 .. Len(a) : a[i] = b[i]
      BY <1>0, <1>2, <2>1
    <3>2. a = b
      BY <2>1, <3>1, SeqEqual DEF Key
    <3> QED BY <3>2
  <2>2. CASE Len(a) < Len(b)
    BY <1>0, <1>2, <2>2 DEF Less
  <2>3. CASE Len(b) < Len(a)
    BY <1>0, <1>2, <2>3 DEF Less
  <2> QED BY <1>0, <2>1, <2>2, <2>3
<1> QED BY <1>1, <1>2

\* Below, in terms of the first place where the keys differ, the end of the
\* shorter one included.
LEMMA LessAt ==
  ASSUME NEW a \in Key, NEW b \in Key
  PROVE  Less(a, b) <=> \E d \in 1 .. Len(a) + 1 :
                          /\ d <= Len(b) /\ (d <= Len(a) => a[d] < b[d])
                          /\ \A j \in 1 .. d - 1 : a[j] = b[j]
<1>0. Len(a) \in Nat /\ Len(b) \in Nat
  BY DEF Key
<1>1. ASSUME Less(a, b)
      PROVE  \E d \in 1 .. Len(a) + 1 :
               /\ d <= Len(b) /\ (d <= Len(a) => a[d] < b[d])
               /\ \A j \in 1 .. d - 1 : a[j] = b[j]
  <2>1. CASE Len(a) < Len(b) /\ \A j \in 1 .. Len(a) : a[j] = b[j]
    <3>1. /\ Len(a) + 1 \in 1 .. Len(a) + 1 /\ (Len(a) + 1) - 1 = Len(a)
          /\ Len(a) + 1 <= Len(b) /\ ~(Len(a) + 1 <= Len(a))
      BY <1>0, <2>1
    <3> QED BY <2>1, <3>1
  <2>2. CASE \E d \in 1 .. Len(a) : /\ d <= Len(b) /\ a[d] < b[d]
                                   /\ \A j \in 1 .. d - 1 : a[j] = b[j]
    <3>1. PICK d \in 1 .. Len(a) : /\ d <= Len(b) /\ a[d] < b[d]
                                  /\ \A j \in 1 .. d - 1 : a[j] = b[j]
      BY <2>2
    <3>2. d \in 1 .. Len(a) + 1
      BY <1>0
    <3> QED BY <3>1, <3>2
  <2> QED BY <1>1, <2>1, <2>2 DEF Less
<1>2. ASSUME NEW d \in 1 .. Len(a) + 1, d <= Len(b), d <= Len(a) => a[d] < b[d],
             \A j \in 1 .. d - 1 : a[j] = b[j]
      PROVE  Less(a, b)
  <2>1. CASE d <= Len(a)
    <3>1. d \in 1 .. Len(a)
      BY <1>0, <2>1
    <3> QED BY <1>2, <2>1, <3>1 DEF Less
  <2>2. CASE d = Len(a) + 1
    <3>1. d - 1 = Len(a) /\ Len(a) < Len(b)
      BY <1>0, <1>2, <2>2
    <3> QED BY <1>2, <3>1 DEF Less
  <2> QED BY <1>0, <2>1, <2>2
<1> QED BY <1>1, <1>2

LEMMA LessTransitive ==
  ASSUME NEW a \in Key, NEW b \in Key, NEW c \in Key, Less(a, b), Less(b, c)
  PROVE  Less(a, c)
<1>0. /\ Len(a) \in Nat /\ Len(b) \in Nat /\ Len(c) \in Nat
      /\ \A i \in 1 .. Len(a) : a[i] \in Nat
      /\ \A i \in 1 .. Len(b) : b[i] \in Nat
      /\ \A i \in 1 .. Len(c) : c[i] \in Nat
  BY KeysAssumption DEF Key, Byte
<1>1. PICK d \in 1 .. Len(a) + 1 : /\ d <= Len(b) /\ (d <= Len(a) => a[d] < b[d])
                                  /\ \A j \in 1 .. d - 1 : a[j] = b[j]
  BY LessAt
<1>2. PICK e \in 1 .. Len(b) + 1 : /\ e <= Len(c) /\ (e <= Len(b) => b[e] < c[e])
                                  /\ \A j \in 1 .. e - 1 : b[j] = c[j]
  BY LessAt
<1>3. CASE d < e
  <2>1. /\ d <= Len(c) /\ b[d] = c[d]
        /\ \A j \in 1 .. d - 1 : a[j] = c[j]
    BY <1>0, <1>1, <1>2, <1>3
  <2> QED BY <1>1, <2>1, LessAt
<1>4. CASE e <= d
  <2>1. e \in 1 .. Len(a) + 1 /\ e <= Len(b) /\ b[e] < c[e] /\ e <= Len(c)
    BY <1>0, <1>1, <1>2, <1>4
  <2>2. \A j \in 1 .. e - 1 : a[j] = c[j]
    BY <1>0, <1>1, <1>2, <1>4
  <2>3. ASSUME e <= Len(a) PROVE a[e] < c[e]
    <3>1. e \in 1 .. Len(a) /\ e \in 1 .. Len(b) /\ e \in 1 .. Len(c)
      BY <1>0, <2>1, <2>3
    <3>2. a[e] \in Nat /\ b[e] \in Nat /\ c[e] \in Nat
      BY <1>0, <3>1
    <3>3. a[e] <= b[e]
      <4>1. CASE e = d
        BY <1>1, <2>3, <3>2, <4>1
      <4>2. CASE e < d
        <5>1. e \in 1 .. d - 1
          BY <1>0, <4>2
        <5> QED BY <1>1, <3>2, <5>1
      <4> QED BY <1>0, <1>4, <4>1, <4>2
    <3> QED BY <2>1, <3>2, <3>3
  <2> QED BY <2>1, <2>2, <2>3, LessAt
<1> QED BY <1>0, <1>3, <1>4

-----------------------------------------------------------------------------
(* Prefix ranges. *)

\* next_prefix, when there is one: p up to its last byte below the maximum,
\* with that byte incremented.
LEMMA NextPrefixShape ==
  ASSUME NEW p \in Key, NextPrefix(p) # Unbounded
  PROVE  \E i \in 1 .. Len(p) :
           /\ IsLastBelowMax(p, i)
           /\ NextPrefix(p) \in Key
           /\ Len(NextPrefix(p)) = i
           /\ NextPrefix(p)[i] = p[i] + 1
           /\ \A j \in 1 .. i - 1 : NextPrefix(p)[j] = p[j]
<1>1. \E i \in 1 .. Len(p) : p[i] # MaxByte
  BY DEF NextPrefix
<1> DEFINE i == CHOOSE j \in 1 .. Len(p) : IsLastBelowMax(p, j)
<1>2. i \in 1 .. Len(p) /\ IsLastBelowMax(p, i)
  BY <1>1, LastBelowMaxExists
<1>3. NextPrefix(p) = IncrementedAt(p, i)
  BY <1>1 DEF NextPrefix
<1> HIDE DEF i
<1>4. Len(p) \in Nat /\ i \in Nat /\ \A j \in 1 .. i : p[j] \in Byte
  BY <1>2 DEF Key
<1>5. p[i] + 1 \in Byte
  BY <1>2, <1>4, KeysAssumption DEF Byte, IsLastBelowMax
<1>6. IncrementedAt(p, i) \in [1 .. i -> Byte]
  BY <1>4, <1>5 DEF IncrementedAt
<1>7. IncrementedAt(p, i) \in Key /\ Len(IncrementedAt(p, i)) = i
  BY <1>4, <1>6 DEF Key
<1>8. /\ IncrementedAt(p, i)[i] = p[i] + 1
      /\ \A j \in 1 .. i - 1 : IncrementedAt(p, i)[j] = p[j]
  BY <1>2, <1>4 DEF IncrementedAt
<1> QED BY <1>2, <1>3, <1>7, <1>8

\* A key with the prefix is not below the prefix.
LEMMA PrefixedIsNotBelow ==
  ASSUME NEW p \in Key, NEW k \in Key, HasPrefix(k, p)
  PROVE  ~ Less(k, p)
<1>1. Len(p) \in Nat /\ Len(k) \in Nat /\ Len(p) <= Len(k)
  BY DEF Key, HasPrefix
<1>2. ASSUME NEW i \in 1 .. Len(k), i <= Len(p), k[i] < p[i] PROVE FALSE
  <2>1. k[i] = p[i] /\ p[i] \in Nat
    BY <1>1, <1>2, KeysAssumption DEF HasPrefix, Key, Byte
  <2> QED BY <1>2, <2>1
<1> QED BY <1>1, <1>2 DEF Less

\* A key with the prefix is below the next prefix.
LEMMA PrefixedIsBelowNext ==
  ASSUME NEW p \in Key, NEW k \in Key, HasPrefix(k, p), NextPrefix(p) # Unbounded
  PROVE  Less(k, NextPrefix(p))
<1> DEFINE e == NextPrefix(p)
<1>1. PICK i \in 1 .. Len(p) : /\ Len(e) = i /\ e[i] = p[i] + 1
                              /\ \A j \in 1 .. i - 1 : e[j] = p[j]
  BY NextPrefixShape
<1>2. /\ Len(p) \in Nat /\ Len(k) \in Nat /\ Len(p) <= Len(k)
      /\ \A j \in 1 .. Len(p) : k[j] = p[j]
      /\ p[i] \in Nat
  BY KeysAssumption DEF Key, Byte, HasPrefix
<1> HIDE DEF e
<1>3. i \in 1 .. Len(k) /\ i <= Len(e) /\ k[i] < e[i] /\ \A j \in 1 .. i - 1 : k[j] = e[j]
  BY <1>1, <1>2
<1> QED BY <1>3 DEF Less, e

\* A key without the prefix is below the prefix or not below the next one.
LEMMA OtherIsOutside ==
  ASSUME NEW p \in Key, NEW k \in Key, ~ HasPrefix(k, p), ~ Less(k, p)
  PROVE  NextPrefix(p) # Unbounded /\ ~ Less(k, NextPrefix(p))
<1>0. /\ Len(p) \in Nat /\ Len(k) \in Nat
      /\ \A j \in 1 .. Len(p) : p[j] \in Nat /\ p[j] <= MaxByte
      /\ \A j \in 1 .. Len(k) : k[j] \in Nat /\ k[j] <= MaxByte
      /\ MaxByte \in Nat
  BY KeysAssumption DEF Key, Byte
<1>1. PICK h \in 1 .. Len(p) : h <= Len(k) /\ k[h] # p[h]
  <2>1. CASE Len(k) < Len(p)
    BY <1>0, <2>1 DEF Less
  <2>2. CASE Len(p) <= Len(k)
    BY <1>0, <2>2 DEF HasPrefix
  <2> QED BY <1>0, <2>1, <2>2
<1>2. PICK d \in 1 .. Len(p) : /\ d <= Len(k) /\ k[d] # p[d]
                              /\ \A j \in 1 .. d - 1 : k[j] = p[j]
  BY <1>1, FirstDifferenceExists
<1>3. d \in 1 .. Len(k) /\ k[d] > p[d]
  BY <1>0, <1>2 DEF Less
<1>4. p[d] # MaxByte
  BY <1>0, <1>3
<1>5. NextPrefix(p) # Unbounded
  <2>1. PICK i \in 1 .. Len(p) : IsLastBelowMax(p, i)
    BY <1>4, LastBelowMaxExists
  <2> DEFINE i0 == CHOOSE j \in 1 .. Len(p) : IsLastBelowMax(p, j)
  <2>2. i0 \in 1 .. Len(p) /\ IsLastBelowMax(p, i0)
    BY <2>1
  <2>3. NextPrefix(p) = IncrementedAt(p, i0)
    BY <1>4 DEF NextPrefix
  <2> HIDE DEF i0
  <2>4. IncrementedAt(p, i0) \in [1 .. i0 -> Byte]
    BY <1>0, <2>2 DEF IncrementedAt, IsLastBelowMax, Byte
  <2>5. IncrementedAt(p, i0) \in Key
    BY <1>0, <2>2, <2>4 DEF Key
  <2> QED BY <2>3, <2>5, KeysAssumption
<1> DEFINE e == NextPrefix(p)
<1>6. PICK i \in 1 .. Len(p) : /\ IsLastBelowMax(p, i)
                              /\ Len(e) = i /\ e[i] = p[i] + 1
                              /\ \A j \in 1 .. i - 1 : e[j] = p[j]
  BY <1>5, NextPrefixShape
<1> HIDE DEF e
<1>7. d <= i
  BY <1>0, <1>4, <1>6 DEF IsLastBelowMax
<1>8. /\ e[d] <= k[d] /\ e[d] \in Nat
      /\ \A j \in 1 .. d - 1 : k[j] = e[j]
  BY <1>0, <1>2, <1>3, <1>6, <1>7
<1>9. ASSUME Less(k, e) PROVE FALSE
  <2>1. CASE Len(k) < Len(e) /\ \A j \in 1 .. Len(k) : k[j] = e[j]
    <3>1. k[d] = e[d]
      BY <1>3, <2>1
    <3>2. k[d] # e[d] \/ d = i
      BY <1>0, <1>3, <1>6, <1>7
    <3> QED BY <1>0, <1>3, <1>6, <2>1, <3>1, <3>2
  <2>2. CASE \E j \in 1 .. Len(k) : /\ j <= Len(e) /\ k[j] < e[j]
                                   /\ \A g \in 1 .. j - 1 : k[g] = e[g]
    <3>1. PICK j \in 1 .. Len(k) : /\ j <= Len(e) /\ k[j] < e[j]
                                  /\ \A g \in 1 .. j - 1 : k[g] = e[g]
      BY <2>2
    <3>2. CASE j < d
      BY <1>0, <1>8, <3>1, <3>2
    <3>3. CASE j = d
      BY <1>0, <1>3, <1>8, <3>1, <3>3
    <3>4. CASE j > d
      <4>1. k[d] = e[d] /\ d < i
        BY <1>0, <1>6, <3>1, <3>4
      <4>2. e[d] = p[d]
        BY <1>6, <4>1
      <4> QED BY <1>2, <4>1, <4>2
    <3> QED BY <1>0, <3>2, <3>3, <3>4
  <2> QED BY <1>9, <2>1, <2>2 DEF Less
<1> QED BY <1>5, <1>9 DEF e

\* A prefix range holds exactly the keys that start with the prefix, whatever
\* bytes it ends in, the all-0xff prefixes without a successor included.
THEOREM PrefixRangeIsExact ==
  ASSUME NEW p \in Key, NEW k \in Key
  PROVE  InRange(PrefixRange(p), k) <=> HasPrefix(k, p)
<1>1. InRange(PrefixRange(p), k) <=>
        /\ ~ Less(k, p)
        /\ NextPrefix(p) = Unbounded \/ Less(k, NextPrefix(p))
  BY DEF InRange, PrefixRange
<1> QED
  BY <1>1, PrefixedIsNotBelow, PrefixedIsBelowNext, OtherIsOutside

-----------------------------------------------------------------------------
(* Numbers as bytes. *)

Base == MaxByte + 1

LEMMA BaseFacts ==
  /\ Base \in Nat /\ Base >= 4 /\ Base - 1 = MaxByte
  /\ \A n \in Nat : /\ n \div Base \in Nat /\ n % Base \in Byte
                    /\ n = (n \div Base) * Base + (n % Base)
<1>1. Base \in Nat /\ Base >= 4 /\ Base - 1 = MaxByte
  BY KeysAssumption DEF Base
<1>2. ASSUME NEW n \in Nat
      PROVE  /\ n \div Base \in Nat /\ n % Base \in 0 .. Base - 1
             /\ n = (n \div Base) * Base + (n % Base)
  BY <1>1
<1> QED BY <1>1, <1>2 DEF Byte

LEMMA QuotientsKeepOrder ==
  ASSUME NEW m \in Nat, NEW n \in Nat, m <= n
  PROVE  m \div Base <= n \div Base
<1>1. Base \in Nat /\ Base >= 4
  BY BaseFacts
<1> QED BY <1>1

\* Shifted is what it is defined as.
LEMMA ShiftedSteps ==
  ASSUME NEW n \in Nat
  PROVE  /\ Shifted(n) \in [0 .. SeqNumWidth -> Nat]
         /\ Shifted(n)[0] = n
         /\ \A i \in 1 .. SeqNumWidth : Shifted(n)[i] = Shifted(n)[i - 1] \div Base
<1> DEFINE step == [p \in Nat \X Nat |-> p[2] \div Base]
           Is(h) == h = [i \in 0 .. SeqNumWidth |-> IF i = 0 THEN n ELSE h[i - 1] \div Base]
           g == CHOOSE h : Is(h)
<1>0. SeqNumWidth \in Nat
  BY KeysAssumption
<1>1. step \in [Nat \X Nat -> Nat] /\ \A i, m \in Nat : step[<<i, m>>] = m \div Base
  BY BaseFacts
<1> HIDE DEF step
<1>2. PICK f : Recurs(f, Nat, n, step, SeqNumWidth)
  BY <1>0, <1>1, RecursionExists
<1>3. \A i \in 1 .. SeqNumWidth : i \in Nat /\ i - 1 \in 0 .. SeqNumWidth /\ f[i - 1] \in Nat
  BY <1>0, <1>2 DEF Recurs
<1>4. \A i \in 1 .. SeqNumWidth : f[i] = f[i - 1] \div Base
  BY <1>1, <1>2, <1>3 DEF Recurs
<1>5. Is(f)
  <2>1. ASSUME NEW i \in 0 .. SeqNumWidth
        PROVE  f[i] = IF i = 0 THEN n ELSE f[i - 1] \div Base
    BY <1>0, <1>2, <1>4 DEF Recurs
  <2> QED BY <1>2, <2>1 DEF Recurs
<1>6. Is(g)
  <2> HIDE DEF Is
  <2> QED BY <1>5, Zenon
<1>7. Shifted(n) = g
  BY DEF Shifted, Base
<1> HIDE DEF g
<1>8. /\ g[0] = n
      /\ \A i \in 1 .. SeqNumWidth : g[i] = g[i - 1] \div Base
  BY <1>0, <1>6
<1> DEFINE T == {i \in Nat : i <= SeqNumWidth => g[i] \in Nat}
<1>9. 0 \in T
  BY <1>8
<1>10. ASSUME NEW i \in T PROVE i + 1 \in T
  <2>1. CASE i + 1 <= SeqNumWidth
    <3>1. i + 1 \in 1 .. SeqNumWidth /\ (i + 1) - 1 = i /\ i <= SeqNumWidth
      BY <1>0, <2>1
    <3>2. g[i] \in Nat /\ g[i + 1] = g[i] \div Base
      BY <1>8, <3>1
    <3>3. g[i + 1] \in Nat
      BY <3>2, BaseFacts
    <3> QED BY <3>1, <3>3
  <2> QED BY <1>0, <2>1
<1> HIDE DEF T
<1>11. \A i \in Nat : i \in T
  <2>1. T \in SUBSET Nat
    BY DEF T
  <2> QED BY <1>9, <1>10, <2>1, InductionBySet
<1>12. \A i \in 0 .. SeqNumWidth : g[i] \in Nat
  BY <1>0, <1>11 DEF T
<1>13. g = [i \in 0 .. SeqNumWidth |-> g[i]]
  BY <1>6
<1> QED BY <1>7, <1>8, <1>12, <1>13

\* A number less than one of that width is of that width.
LEMMA SmallerFits ==
  ASSUME NEW m \in Nat, NEW n \in SeqNum, m <= n
  PROVE  m \in SeqNum
<1> DEFINE T == {i \in Nat : i <= SeqNumWidth => Shifted(m)[i] <= Shifted(n)[i]}
<1>1. n \in Nat /\ Shifted(n)[SeqNumWidth] = 0 /\ SeqNumWidth \in Nat
  BY KeysAssumption DEF SeqNum
<1>2. /\ Shifted(m) \in [0 .. SeqNumWidth -> Nat] /\ Shifted(n) \in [0 .. SeqNumWidth -> Nat]
      /\ Shifted(m)[0] = m /\ Shifted(n)[0] = n
      /\ \A i \in 1 .. SeqNumWidth :
           /\ Shifted(m)[i] = Shifted(m)[i - 1] \div Base
           /\ Shifted(n)[i] = Shifted(n)[i - 1] \div Base
  BY <1>1, ShiftedSteps
<1>3. 0 \in T
  BY <1>2
<1>4. ASSUME NEW i \in T, i + 1 <= SeqNumWidth PROVE Shifted(m)[i + 1] <= Shifted(n)[i + 1]
  <2>1. i + 1 \in 1 .. SeqNumWidth /\ (i + 1) - 1 = i /\ i \in 0 .. SeqNumWidth
    BY <1>1, <1>4
  <2>2. Shifted(m)[i] \in Nat /\ Shifted(n)[i] \in Nat /\ Shifted(m)[i] <= Shifted(n)[i]
    BY <1>2, <1>4, <2>1
  <2> QED BY <1>2, <2>1, <2>2, QuotientsKeepOrder
<1>5. \A i \in T : i + 1 \in T
  BY <1>4
<1> HIDE DEF T
<1>6. SeqNumWidth \in T
  <2>1. T \in SUBSET Nat
    BY DEF T
  <2> QED BY <1>1, <1>3, <1>5, <2>1, InductionBySet
<1>7. Shifted(m)[SeqNumWidth] = 0
  <2>1. Shifted(m)[SeqNumWidth] \in Nat /\ Shifted(m)[SeqNumWidth] <= 0
    BY <1>1, <1>2, <1>6 DEF T
  <2> QED BY <2>1
<1> QED BY <1>7 DEF SeqNum

LEMMA SeqNumBytesAreKeys ==
  ASSUME NEW n \in Nat
  PROVE  SeqNumBytes(n) \in Key /\ Len(SeqNumBytes(n)) = SeqNumWidth
<1>1. SeqNumWidth \in Nat
  BY KeysAssumption
<1>2. ASSUME NEW i \in 1 .. SeqNumWidth
      PROVE  Shifted(n)[SeqNumWidth - i] % (MaxByte + 1) \in Byte
  <2>1. SeqNumWidth - i \in 0 .. SeqNumWidth
    BY <1>1
  <2>2. Shifted(n)[SeqNumWidth - i] \in Nat
    BY <2>1, ShiftedSteps
  <2> QED BY <2>2, BaseFacts DEF Base
<1>3. SeqNumBytes(n) \in [1 .. SeqNumWidth -> Byte]
  BY <1>2 DEF SeqNumBytes
<1> QED BY <1>1, <1>3 DEF Key

\* The number of bytes is where any function ends that starts at 0 and goes on
\* as Number does.
LEMMA NumberIsLast ==
  ASSUME NEW bytes \in Key, NEW f \in [0 .. Len(bytes) -> Nat], f[0] = 0,
         \A i \in 1 .. Len(bytes) : f[i] = f[i - 1] * Base + bytes[i]
  PROVE  Number(bytes) = f[Len(bytes)]
<1> DEFINE Is(h) == h = [i \in 0 .. Len(bytes) |->
                           IF i = 0 THEN 0 ELSE h[i - 1] * Base + bytes[i]]
           g == CHOOSE h : Is(h)
<1>1. Len(bytes) \in Nat
  BY DEF Key
<1>2. Is(f)
  <2>1. ASSUME NEW i \in 0 .. Len(bytes)
        PROVE  f[i] = IF i = 0 THEN 0 ELSE f[i - 1] * Base + bytes[i]
    BY <1>1
  <2> QED BY <2>1
<1>3. Is(g)
  <2> HIDE DEF Is
  <2> QED BY <1>2, Zenon
<1>4. Number(bytes) = g[Len(bytes)]
  BY DEF Number, Base
<1> HIDE DEF g
<1>5. /\ g[0] = 0
      /\ \A i \in 1 .. Len(bytes) : g[i] = g[i - 1] * Base + bytes[i]
  BY <1>1, <1>3
<1> DEFINE T == {i \in Nat : i <= Len(bytes) => g[i] = f[i]}
<1>6. 0 \in T
  BY <1>5
<1>7. ASSUME NEW i \in T, i + 1 <= Len(bytes) PROVE g[i + 1] = f[i + 1]
  <2>1. i + 1 \in 1 .. Len(bytes) /\ (i + 1) - 1 = i /\ i <= Len(bytes) /\ i \in Nat
    BY <1>1, <1>7
  <2>2. /\ g[i + 1] = g[(i + 1) - 1] * Base + bytes[i + 1]
        /\ f[i + 1] = f[(i + 1) - 1] * Base + bytes[i + 1]
        /\ g[i] = f[i]
    BY <1>5, <2>1
  <2> QED BY <2>1, <2>2
<1>8. \A i \in T : i + 1 \in T
  BY <1>7
<1> HIDE DEF T
<1>9. Len(bytes) \in T
  <2>1. T \in SUBSET Nat
    BY DEF T
  <2> QED BY <1>1, <1>6, <1>8, <2>1, InductionBySet
<1> QED BY <1>1, <1>4, <1>9 DEF T

\* put_u64 and from_be_bytes undo each other, whatever the width.
THEOREM NumbersReadBack ==
  ASSUME NEW n \in SeqNum
  PROVE  Number(SeqNumBytes(n)) = n
<1> DEFINE W == SeqNumWidth
           bytes == SeqNumBytes(n)
           f == [i \in 0 .. W |-> Shifted(n)[W - i]]
<1>1. n \in Nat /\ Shifted(n)[W] = 0 /\ W \in Nat
  BY KeysAssumption DEF SeqNum
<1>2. bytes \in Key /\ Len(bytes) = W
  BY <1>1, SeqNumBytesAreKeys
<1>3. \A i \in 0 .. W : W - i \in 0 .. W /\ Shifted(n)[W - i] \in Nat
  <2>1. \A i \in 0 .. W : W - i \in 0 .. W
    BY <1>1
  <2> QED BY <1>1, <2>1, ShiftedSteps
<1>4. f \in [0 .. W -> Nat] /\ f[0] = 0 /\ f[W] = n
  <2>1. W - 0 = W /\ W - W = 0 /\ 0 \in 0 .. W /\ W \in 0 .. W
    BY <1>1
  <2> QED BY <1>1, <1>3, <2>1, ShiftedSteps
<1>5. ASSUME NEW i \in 1 .. W PROVE f[i] = f[i - 1] * Base + bytes[i]
  <2> DEFINE q == Shifted(n)[W - i]
  <2>1. /\ i \in 0 .. W /\ i - 1 \in 0 .. W /\ W - (i - 1) \in 1 .. W
        /\ (W - (i - 1)) - 1 = W - i
    BY <1>1
  <2>2. f[i] = q /\ f[i - 1] = Shifted(n)[W - (i - 1)] /\ q \in Nat
    BY <1>3, <2>1
  <2>3. Shifted(n)[W - (i - 1)] = q \div Base
    BY <1>1, <2>1, ShiftedSteps
  <2>4. bytes[i] = q % Base
    BY DEF SeqNumBytes, Base
  <2>5. q = (q \div Base) * Base + (q % Base)
    <3> HIDE DEF q
    <3> QED BY <2>2, BaseFacts
  <2> QED BY <2>2, <2>3, <2>4, <2>5
<1> HIDE DEF W, bytes, f
<1>6. Number(bytes) = f[W]
  BY <1>2, <1>4, <1>5, NumberIsLast
<1> QED BY <1>4, <1>6 DEF bytes

\* So the bytes of a number are those of no other.
LEMMA BytesTellNumbers ==
  ASSUME NEW n \in SeqNum, NEW m \in SeqNum, SeqNumBytes(n) = SeqNumBytes(m)
  PROVE  n = m
BY NumbersReadBack

-----------------------------------------------------------------------------
(* Keys. *)

\* The bytes of two keys, one after the other.
LEMMA JoinedBytes ==
  ASSUME NEW a \in Key, NEW x \in Key
  PROVE  /\ a \o x \in Key /\ Len(a \o x) = Len(a) + Len(x)
         /\ Len(a) \in Nat /\ Len(x) \in Nat
         /\ \A i \in 1 .. Len(a) : (a \o x)[i] = a[i]
         /\ \A i \in 1 .. Len(x) : (a \o x)[Len(a) + i] = x[i]
<1>1. Len(a) \in Nat /\ Len(x) \in Nat
  BY DEF Key
<1>2. a \o x \in Key /\ Len(a \o x) = Len(a) + Len(x)
  BY ConcatProperties DEF Key
<1>3. /\ \A i \in 1 .. Len(a) : (a \o x)[i] = a[i]
      /\ \A i \in 1 .. Len(x) : (a \o x)[Len(a) + i] = x[i]
  BY <1>1 DEF Key
<1> QED BY <1>1, <1>2, <1>3

\* So they can be cut apart again.
LEMMA CutsApart ==
  ASSUME NEW a \in Key, NEW x \in Key
  PROVE  /\ a \o x \in Key /\ Len(a \o x) = Len(a) + Len(x)
         /\ Len(a) \in Nat /\ Len(x) \in Nat
         /\ SubSeq(a \o x, 1, Len(a)) = a
         /\ SubSeq(a \o x, Len(a) + 1, Len(a \o x)) = x
         /\ Len(a) >= 1 => (a \o x)[1] = a[1]
<1>1. Len(a) \in Nat /\ Len(x) \in Nat
  BY JoinedBytes
<1>2. a \o x \in Key /\ Len(a \o x) = Len(a) + Len(x)
  BY JoinedBytes
<1>3. /\ \A i \in 1 .. Len(a) : (a \o x)[i] = a[i]
      /\ \A i \in 1 .. Len(x) : (a \o x)[Len(a) + i] = x[i]
  BY JoinedBytes
<1>4. /\ \A i \in 1 .. Len(a) : (a \o x)[i] \in Byte
      /\ \A i \in Len(a) + 1 .. Len(a) + Len(x) : (a \o x)[i] \in Byte
  BY <1>1, <1>2 DEF Key
<1>5. SubSeq(a \o x, 1, Len(a)) = a
  <2> DEFINE cut == SubSeq(a \o x, 1, Len(a))
  <2>1. /\ cut \in Seq(Byte) /\ Len(cut) = Len(a)
        /\ \A i \in 1 .. Len(a) : cut[i] = (a \o x)[i]
    BY <1>1, <1>4, SubSeqProperties
  <2> HIDE DEF cut
  <2>2. cut = a
    BY <1>3, <2>1, SeqEqual DEF Key
  <2> QED BY <2>2 DEF cut
<1>6. SubSeq(a \o x, Len(a) + 1, Len(a) + Len(x)) = x
  <2> DEFINE cut == SubSeq(a \o x, Len(a) + 1, Len(a) + Len(x))
  <2>1. /\ cut \in Seq(Byte) /\ Len(cut) = Len(x)
        /\ \A i \in 1 .. Len(x) : cut[i] = (a \o x)[Len(a) + i]
    <3>1. Len(a) + 1 \in Int /\ Len(a) + Len(x) \in Int
      BY <1>1
    <3>2. /\ cut \in Seq(Byte)
          /\ Len(cut) = IF Len(a) + 1 <= Len(a) + Len(x)
                        THEN Len(a) + Len(x) - (Len(a) + 1) + 1 ELSE 0
          /\ \A i \in 1 .. Len(a) + Len(x) - (Len(a) + 1) + 1 :
               cut[i] = (a \o x)[Len(a) + 1 + i - 1]
      BY <1>4, <3>1, SubSeqProperties
    <3> HIDE DEF cut
    <3>3. Len(a) + Len(x) - (Len(a) + 1) + 1 = Len(x)
      BY <1>1
    <3>4. \A i \in 1 .. Len(x) : Len(a) + 1 + i - 1 = Len(a) + i
      BY <1>1
    <3> QED BY <1>1, <3>2, <3>3, <3>4
  <2> HIDE DEF cut
  <2>2. cut = x
    BY <1>3, <2>1, SeqEqual DEF Key
  <2> QED BY <2>2 DEF cut
<1>7. Len(a) >= 1 => (a \o x)[1] = a[1]
  BY <1>1, <1>3
<1> QED BY <1>1, <1>2, <1>5, <1>6, <1>7

\* What follows a common prefix decides.
LEMMA OrderAfterPrefix ==
  ASSUME NEW p \in Key, NEW x \in Key, NEW y \in Key, Less(p \o x, p \o y)
  PROVE  Less(x, y)
<1> DEFINE px == p \o x
           py == p \o y
<1>1. /\ Len(p) \in Nat /\ Len(x) \in Nat /\ Len(y) \in Nat
      /\ \A i \in 1 .. Len(p) : p[i] \in Nat
  BY KeysAssumption DEF Key, Byte
<1>2. /\ px \in Key /\ Len(px) = Len(p) + Len(x)
      /\ \A i \in 1 .. Len(p) : px[i] = p[i]
      /\ \A i \in 1 .. Len(x) : px[Len(p) + i] = x[i]
  BY JoinedBytes
<1>3. /\ py \in Key /\ Len(py) = Len(p) + Len(y)
      /\ \A i \in 1 .. Len(p) : py[i] = p[i]
      /\ \A i \in 1 .. Len(y) : py[Len(p) + i] = y[i]
  BY JoinedBytes
<1>4. Less(px, py)
  OBVIOUS
<1> HIDE DEF px, py
<1>5. PICK d \in 1 .. Len(px) + 1 : /\ d <= Len(py) /\ (d <= Len(px) => px[d] < py[d])
                                   /\ \A j \in 1 .. d - 1 : px[j] = py[j]
  BY <1>2, <1>3, <1>4, LessAt
<1>6. d > Len(p)
  <2>1. ASSUME d <= Len(p) PROVE FALSE
    <3>1. d \in 1 .. Len(p) /\ d <= Len(px)
      BY <1>1, <1>2, <2>1
    <3>2. px[d] = p[d] /\ py[d] = p[d] /\ p[d] \in Nat
      BY <1>1, <1>2, <1>3, <3>1
    <3> QED BY <1>5, <3>1, <3>2
  <2> QED BY <1>1, <2>1
<1> DEFINE e == d - Len(p)
<1>7. /\ e \in 1 .. Len(x) + 1 /\ e <= Len(y) /\ d = Len(p) + e
      /\ (e <= Len(x) => d <= Len(px))
  BY <1>1, <1>2, <1>3, <1>5, <1>6
<1> HIDE DEF e
<1>8. e <= Len(x) => x[e] < y[e]
  <2> SUFFICES ASSUME e <= Len(x) PROVE x[e] < y[e]
    OBVIOUS
  <2>1. e \in 1 .. Len(x) /\ e \in 1 .. Len(y)
    BY <1>1, <1>7
  <2>2. px[d] = x[e] /\ py[d] = y[e]
    BY <1>2, <1>3, <1>7, <2>1
  <2> QED BY <1>5, <1>7, <2>2
<1>9. \A j \in 1 .. e - 1 : x[j] = y[j]
  <2> SUFFICES ASSUME NEW j \in 1 .. e - 1 PROVE x[j] = y[j]
    OBVIOUS
  <2>1. j \in 1 .. Len(x) /\ j \in 1 .. Len(y) /\ Len(p) + j \in 1 .. d - 1
    BY <1>1, <1>7
  <2> QED BY <1>2, <1>3, <1>5, <2>1
<1> QED BY <1>7, <1>8, <1>9, LessAt

\* An id is a key of IdWidth bytes.
LEMMA IdIsKey ==
  ASSUME NEW b \in Id
  PROVE  b \in Key /\ Len(b) = IdWidth
BY KeysAssumption DEF Id, Key

\* Ids with the same bytes are the same.
LEMMA SameBytesSameId ==
  ASSUME NEW b \in Id, NEW c \in Id, \A i \in 1 .. IdWidth : b[i] = c[i]
  PROVE  b = c
<1>1. b = [i \in 1 .. IdWidth |-> b[i]] /\ c = [i \in 1 .. IdWidth |-> c[i]]
  BY DEF Id
<1>2. [i \in 1 .. IdWidth |-> b[i]] = [i \in 1 .. IdWidth |-> c[i]]
  OBVIOUS
<1> QED BY <1>1, <1>2

\* The key of a stream starts with the prefix of its own basin only, and no
\* basin's key starts with it: what a basin lists are its own streams.
THEOREM StreamsListUnderTheirBasin ==
  ASSUME NEW b \in Id, NEW c \in Id, NEW name \in Key
  PROVE  /\ HasPrefix(StreamKey(c, name), StreamPrefix(b)) <=> b = c
         /\ ~ HasPrefix(BasinKey(name), StreamPrefix(b))
<1>1. /\ b \in Key /\ Len(b) = IdWidth
      /\ c \in Key /\ Len(c) = IdWidth
      /\ IdWidth \in Nat \ {0} /\ Len(name) \in Nat
  BY IdIsKey, KeysAssumption DEF Key
<1>2. /\ Len(StreamPrefix(b)) = IdWidth + 1
      /\ StreamPrefix(b)[1] = 1
      /\ \A i \in 1 .. IdWidth : StreamPrefix(b)[i + 1] = b[i]
  BY <1>1 DEF StreamPrefix, Key
<1>3. /\ Len(StreamKey(c, name)) = IdWidth + 1 + Len(name)
      /\ StreamKey(c, name)[1] = 1
      /\ \A i \in 1 .. IdWidth : StreamKey(c, name)[i + 1] = c[i]
  <2> DEFINE p == StreamPrefix(c)
  <2>1. /\ p \in Key /\ Len(p) = IdWidth + 1 /\ p[1] = 1
        /\ \A i \in 1 .. IdWidth : p[i + 1] = c[i]
    <3>1. 1 \in Byte
      BY KeysAssumption DEF Byte
    <3> QED BY <1>1, <3>1 DEF StreamPrefix, Key
  <2>2. StreamKey(c, name) = p \o name
    BY DEF StreamKey
  <2> HIDE DEF p
  <2>3. /\ Len(p \o name) = Len(p) + Len(name)
        /\ \A i \in 1 .. Len(p) : (p \o name)[i] = p[i]
    BY <2>1, JoinedBytes
  <2>4. \A i \in 1 .. IdWidth + 1 : i \in 1 .. Len(p)
    BY <2>1
  <2>5. 1 \in 1 .. IdWidth + 1 /\ \A i \in 1 .. IdWidth : i + 1 \in 1 .. IdWidth + 1
    BY <1>1
  <2> QED BY <2>1, <2>2, <2>3, <2>4, <2>5
<1>4. ASSUME b = c PROVE HasPrefix(StreamKey(c, name), StreamPrefix(b))
  <2>1. \A i \in 1 .. IdWidth + 1 : i = 1 \/ i - 1 \in 1 .. IdWidth
    BY <1>1
  <2>2. \A i \in 1 .. IdWidth + 1 : StreamKey(c, name)[i] = StreamPrefix(b)[i]
    <3> SUFFICES ASSUME NEW i \in 1 .. IdWidth + 1
                 PROVE  StreamKey(c, name)[i] = StreamPrefix(b)[i]
      OBVIOUS
    <3>1. CASE i = 1
      BY <1>2, <1>3, <3>1
    <3>2. CASE i # 1
      <4>1. i - 1 \in 1 .. IdWidth /\ (i - 1) + 1 = i
        BY <1>1, <3>2
      <4> QED BY <1>2, <1>3, <1>4, <4>1
    <3> QED BY <3>1, <3>2
  <2> QED BY <1>1, <1>2, <1>3, <2>2 DEF HasPrefix
<1>5. ASSUME HasPrefix(StreamKey(c, name), StreamPrefix(b)) PROVE b = c
  <2>1. \A i \in 1 .. IdWidth : b[i] = c[i]
    BY <1>1, <1>2, <1>3, <1>5 DEF HasPrefix
  <2> QED BY <2>1, SameBytesSameId
<1>6. ~ HasPrefix(BasinKey(name), StreamPrefix(b))
  <2>1. BasinKey(name)[1] = 2
    BY <1>1 DEF BasinKey, BasinPrefix, Key
  <2> QED BY <1>1, <1>2, <2>1 DEF HasPrefix
<1> QED BY <1>4, <1>5, <1>6

\* What starts with the tag of basins are the keys of basins.
LEMMA BasinsListUnderTheirTag ==
  ASSUME NEW b \in Id, NEW name \in Key
  PROVE  /\ HasPrefix(BasinKey(name), BasinPrefix)
         /\ ~ HasPrefix(StreamKey(b, name), BasinPrefix)
<1>1. b \in Key /\ Len(b) \in Nat /\ Len(name) \in Nat
  BY IdIsKey DEF Key
<1>2. Len(BasinPrefix) = 1 /\ BasinPrefix[1] = 2
  BY DEF BasinPrefix
<1>3. Len(BasinKey(name)) = 1 + Len(name) /\ BasinKey(name)[1] = 2
  BY <1>1 DEF BasinKey, BasinPrefix, Key
<1>4. StreamKey(b, name)[1] = 1
  BY <1>1 DEF StreamKey, StreamPrefix, Key
<1> QED BY <1>1, <1>2, <1>3, <1>4 DEF HasPrefix

\* What two equal keys start with, at one length, is equal, and so is the rest.
LEMMA SplitUnique ==
  ASSUME NEW a \in Key, NEW x \in Key, NEW d \in Key, NEW y \in Key,
         a \o x = d \o y, Len(a) = Len(d)
  PROVE  a = d /\ x = y
<1>1. /\ SubSeq(a \o x, 1, Len(a)) = a
      /\ SubSeq(a \o x, Len(a) + 1, Len(a \o x)) = x
  BY CutsApart
<1>2. /\ SubSeq(d \o y, 1, Len(d)) = d
      /\ SubSeq(d \o y, Len(d) + 1, Len(d \o y)) = y
  BY CutsApart
<1> QED BY <1>1, <1>2

LEMMA TagsAreKeys ==
  /\ <<1>> \in Key /\ <<2>> \in Key /\ <<3>> \in Key /\ <<1, 2>> \in Key
  /\ Len(<<1>>) = 1 /\ Len(<<2>>) = 1 /\ Len(<<3>>) = 1 /\ Len(<<1, 2>>) = 2
<1>1. 1 \in Byte /\ 2 \in Byte /\ 3 \in Byte
  BY KeysAssumption DEF Byte
<1> QED BY <1>1 DEF Key

\* The keys of meta_storage, and what they start with.
LEMMA MetaKeys ==
  ASSUME NEW b \in Id, NEW name \in Key
  PROVE  /\ BasinPrefix \in Key /\ StreamPrefix(b) \in Key
         /\ BasinKey(name) \in Key /\ BasinKey(name)[1] = 2
         /\ StreamKey(b, name) \in Key /\ StreamKey(b, name)[1] = 1
         /\ SubSeq(BasinKey(name), Len(BasinPrefix) + 1, Len(BasinKey(name))) = name
         /\ SubSeq(StreamKey(b, name), Len(StreamPrefix(b)) + 1, Len(StreamKey(b, name))) = name
<1>1. b \in Key
  BY IdIsKey
<1>2. /\ BasinPrefix \in Key /\ BasinPrefix[1] = 2 /\ Len(BasinPrefix) = 1
  BY TagsAreKeys DEF BasinPrefix
<1>3. /\ StreamPrefix(b) \in Key /\ StreamPrefix(b)[1] = 1
      /\ Len(StreamPrefix(b)) \in Nat /\ Len(StreamPrefix(b)) >= 1
  <2> DEFINE tag == <<1>>
  <2>1. tag \in Key /\ Len(tag) = 1 /\ tag[1] = 1
    BY TagsAreKeys
  <2> HIDE DEF tag
  <2>2. /\ tag \o b \in Key /\ Len(tag \o b) = Len(tag) + Len(b)
        /\ Len(b) \in Nat /\ (Len(tag) >= 1 => (tag \o b)[1] = tag[1])
    BY <1>1, <2>1, CutsApart
  <2>3. StreamPrefix(b) = tag \o b
    BY DEF StreamPrefix, tag
  <2> QED BY <2>1, <2>2, <2>3
<1>4. /\ BasinKey(name) \in Key /\ BasinKey(name)[1] = 2
      /\ SubSeq(BasinKey(name), Len(BasinPrefix) + 1, Len(BasinKey(name))) = name
  <2> DEFINE both == BasinPrefix \o name
  <2>1. /\ both \in Key /\ (Len(BasinPrefix) >= 1 => both[1] = BasinPrefix[1])
        /\ SubSeq(both, Len(BasinPrefix) + 1, Len(both)) = name
    BY <1>2, CutsApart
  <2>2. BasinKey(name) = both
    BY DEF BasinKey
  <2> HIDE DEF both
  <2> QED BY <1>2, <2>1, <2>2
<1>5. /\ StreamKey(b, name) \in Key /\ StreamKey(b, name)[1] = 1
      /\ SubSeq(StreamKey(b, name), Len(StreamPrefix(b)) + 1, Len(StreamKey(b, name))) = name
  BY <1>3, CutsApart DEF StreamKey
<1> QED BY <1>2, <1>3, <1>4, <1>5

\* A key of meta_storage stands for one basin or one stream.
THEOREM MetaKeysAreUnique ==
  ASSUME NEW b \in Id, NEW c \in Id, NEW name \in Key, NEW other \in Key
  PROVE  /\ BasinKey(name) = BasinKey(other) => name = other
         /\ StreamKey(b, name) = StreamKey(c, other) => b = c /\ name = other
         /\ BasinKey(name) # StreamKey(b, other)
<1>1. ASSUME StreamKey(b, name) = StreamKey(c, other) PROVE b = c /\ name = other
  <2>1. HasPrefix(StreamKey(b, name), StreamPrefix(b))
    BY StreamsListUnderTheirBasin
  <2>2. HasPrefix(StreamKey(c, other), StreamPrefix(b))
    BY <1>1, <2>1
  <2>3. b = c
    BY <2>2, StreamsListUnderTheirBasin
  <2> DEFINE NameIn(k) == SubSeq(k, Len(StreamPrefix(b)) + 1, Len(k))
  <2>4. NameIn(StreamKey(b, name)) = name /\ NameIn(StreamKey(b, other)) = other
    BY MetaKeys
  <2> HIDE DEF NameIn
  <2>5. name = other
    BY <1>1, <2>3, <2>4
  <2> QED BY <2>3, <2>5
<1>2. BasinKey(name) = BasinKey(other) => name = other
  BY MetaKeys
<1>3. BasinKey(name) # StreamKey(b, other)
  <2>1. BasinKey(name)[1] = 2 /\ StreamKey(b, other)[1] = 1
    BY MetaKeys
  <2> QED BY <2>1
<1> QED BY <1>1, <1>2, <1>3

\* A key of record_storage is the block's of one stream or stands for one
\* number of one stream, whatever the ids and the number end in.
THEOREM RecordKeysAreUnique ==
  ASSUME NEW b \in Id, NEW s \in Id, NEW n \in SeqNum,
         NEW c \in Id, NEW t \in Id, NEW m \in SeqNum
  PROVE  /\ RecordKey(b, s, n) \in Key /\ BlockKey(b, s) \in Key
         /\ BlockKey(b, s) = BlockKey(c, t) => b = c /\ s = t
         /\ RecordKey(b, s, n) = RecordKey(c, t, m) => b = c /\ s = t /\ n = m
         /\ BlockKey(b, s) # RecordKey(c, t, m)
<1> DEFINE k == SeqNumBytes(n)
           l == SeqNumBytes(m)
<1>1. /\ b \in Key /\ c \in Key /\ s \in Key /\ t \in Key
      /\ Len(b) = Len(c) /\ Len(s) = Len(t)
  BY IdIsKey
<1>2. k \in Key /\ l \in Key
  BY SeqNumBytesAreKeys DEF SeqNum
<1> HIDE DEF k, l
<1>3. ASSUME NEW h \in Key, h \in {<< 3 >>, <<1, 2>>}
      PROVE  /\ h \o b \in Key /\ h \o c \in Key /\ Len(h \o b) = Len(h \o c)
             /\ h \o b \o s \in Key /\ h \o c \o t \in Key
             /\ Len(h \o b \o s) = Len(h \o c \o t)
             /\ (h \o b \o s)[1] = h[1] /\ (h \o c \o t)[1] = h[1]
             /\ Len(h \o b \o s) \in Nat /\ Len(h \o b \o s) >= 1
             /\ h \o b \o s = h \o c \o t => b = c /\ s = t
  <2>0. Len(h) \in Nat /\ Len(h) >= 1
    BY <1>3, TagsAreKeys
  <2>1. /\ h \o b \in Key /\ h \o c \in Key /\ Len(h \o b) = Len(h \o c)
        /\ (h \o b)[1] = h[1] /\ (h \o c)[1] = h[1]
        /\ Len(h \o b) \in Nat /\ Len(h \o b) >= 1
    <3>1. /\ h \o b \in Key /\ Len(h \o b) = Len(h) + Len(b) /\ Len(b) \in Nat
          /\ (Len(h) >= 1 => (h \o b)[1] = h[1])
      BY <1>1, CutsApart
    <3>2. /\ h \o c \in Key /\ Len(h \o c) = Len(h) + Len(c)
          /\ (Len(h) >= 1 => (h \o c)[1] = h[1])
      BY <1>1, CutsApart
    <3> QED BY <1>1, <2>0, <3>1, <3>2
  <2>2. /\ h \o b \o s \in Key /\ h \o c \o t \in Key
        /\ Len(h \o b \o s) = Len(h \o c \o t)
        /\ (h \o b \o s)[1] = h[1] /\ (h \o c \o t)[1] = h[1]
        /\ Len(h \o b \o s) \in Nat /\ Len(h \o b \o s) >= 1
    <3> DEFINE hb == h \o b
               hc == h \o c
    <3>0. /\ hb \in Key /\ hc \in Key /\ Len(hb) = Len(hc)
          /\ hb[1] = h[1] /\ hc[1] = h[1] /\ Len(hb) \in Nat /\ Len(hb) >= 1
      BY <2>1
    <3> HIDE DEF hb, hc
    <3>1. /\ hb \o s \in Key /\ Len(hb \o s) = Len(hb) + Len(s) /\ Len(s) \in Nat
          /\ (Len(hb) >= 1 => (hb \o s)[1] = hb[1])
      BY <1>1, <3>0, CutsApart
    <3>2. /\ hc \o t \in Key /\ Len(hc \o t) = Len(hc) + Len(t)
          /\ (Len(hc) >= 1 => (hc \o t)[1] = hc[1])
      BY <1>1, <3>0, CutsApart
    <3>3. /\ hb \o s \in Key /\ hc \o t \in Key /\ Len(hb \o s) = Len(hc \o t)
          /\ (hb \o s)[1] = h[1] /\ (hc \o t)[1] = h[1]
          /\ Len(hb \o s) \in Nat /\ Len(hb \o s) >= 1
      BY <1>1, <3>0, <3>1, <3>2
    <3> QED BY <3>3 DEF hb, hc
  <2>3. ASSUME h \o b \o s = h \o c \o t PROVE b = c /\ s = t
    <3> DEFINE hb == h \o b
               hc == h \o c
    <3>0. /\ hb \in Key /\ hc \in Key /\ Len(hb) = Len(hc) /\ hb \o s = hc \o t
          /\ s \in Key /\ t \in Key
      BY <1>1, <2>1, <2>3
    <3> HIDE DEF hb, hc
    <3>1. hb = hc /\ s = t
      BY <3>0, SplitUnique
    <3>2. h \o b = h \o c /\ b \in Key /\ c \in Key /\ Len(h) = Len(h)
      BY <1>1, <3>1 DEF hb, hc
    <3>3. b = c
      BY <3>2, SplitUnique
    <3> QED BY <3>1, <3>3
  <2> QED BY <2>1, <2>2, <2>3
<1>4. <<3>> \in Key /\ <<1, 2>> \in Key
  BY TagsAreKeys
<1>5. /\ BlockKey(b, s) \in Key /\ BlockKey(b, s)[1] = 1
      /\ BlockKey(b, s) = BlockKey(c, t) => b = c /\ s = t
  <2>1. <<1, 2>>[1] = 1
    OBVIOUS
  <2> QED BY <1>3, <1>4, <2>1 DEF BlockKey
<1>6. /\ RecordKey(b, s, n) = (<<3>> \o b \o s) \o k
      /\ RecordKey(c, t, m) = (<<3>> \o c \o t) \o l
  BY DEF RecordKey, k, l
<1> DEFINE left == <<3>> \o b \o s
           right == <<3>> \o c \o t
<1>7. /\ left \in Key /\ right \in Key /\ Len(left) = Len(right)
      /\ left[1] = 3 /\ right[1] = 3 /\ Len(left) \in Nat /\ Len(left) >= 1
      /\ left = right => b = c /\ s = t
  <2>1. <<3>>[1] = 3
    OBVIOUS
  <2> QED BY <1>3, <1>4, <2>1
<1>8. /\ RecordKey(b, s, n) = left \o k /\ RecordKey(c, t, m) = right \o l
  BY <1>6
<1> HIDE DEF left, right
<1>9. RecordKey(b, s, n) \in Key /\ RecordKey(c, t, m)[1] = 3
  BY <1>2, <1>7, <1>8, CutsApart
<1>10. ASSUME RecordKey(b, s, n) = RecordKey(c, t, m) PROVE b = c /\ s = t /\ n = m
  <2>1. left = right /\ k = l
    BY <1>2, <1>7, <1>8, <1>10, SplitUnique
  <2> QED BY <1>7, <2>1, BytesTellNumbers DEF k, l
<1>11. BlockKey(b, s) # RecordKey(c, t, m)
  BY <1>5, <1>9
<1> QED BY <1>5, <1>9, <1>10, <1>11

-----------------------------------------------------------------------------
(* Values: what is written is what is read. *)

LEMMA IdReadsBack ==
  ASSUME NEW b \in Id
  PROVE  DeserialiseId(b) = b
<1>1. b \in Key /\ Len(b) = IdWidth /\ IdWidth \in Nat
  BY IdIsKey, KeysAssumption
<1> DEFINE cut == SubSeq(b, 1, IdWidth)
<1>2. \A i \in 1 .. IdWidth : b[i] \in Byte
  BY DEF Id
<1>3. /\ cut \in Seq(Byte) /\ Len(cut) = IdWidth
      /\ \A i \in 1 .. IdWidth : cut[i] = b[i]
  BY <1>1, <1>2, SubSeqProperties
<1> HIDE DEF cut
<1>4. cut = b
  BY <1>1, <1>3, SeqEqual DEF Key
<1> QED BY <1>1, <1>4 DEF DeserialiseId, First, cut

LEMMA MetadataReadsBack ==
  ASSUME NEW b \in Id, NEW s \in Id
  PROVE  LET md == [basin_id |-> b, stream_id |-> s]
         IN  SerialiseMetadata(md) \in Key /\ DeserialiseMetadata(SerialiseMetadata(md)) = md
<1> DEFINE bytes == b \o s
<1>1. /\ b \in Key /\ Len(b) = IdWidth /\ s \in Key /\ Len(s) = IdWidth
      /\ IdWidth \in Nat
  BY IdIsKey, KeysAssumption
<1>2. /\ bytes \in Key /\ Len(bytes) = Len(b) + Len(s)
      /\ SubSeq(bytes, 1, Len(b)) = b
      /\ SubSeq(bytes, Len(b) + 1, Len(bytes)) = s
  BY <1>1, CutsApart
<1>3. SerialiseMetadata([basin_id |-> b, stream_id |-> s]) = bytes
  BY DEF SerialiseMetadata
<1> HIDE DEF bytes
<1>4. Len(bytes) = 2 * IdWidth
  BY <1>1, <1>2
<1>5. /\ SubSeq(bytes, 1, IdWidth) = b
      /\ SubSeq(bytes, IdWidth + 1, 2 * IdWidth) = s
  BY <1>1, <1>2, <1>4
<1>6. ~(Len(bytes) < 2 * IdWidth)
  BY <1>1, <1>4
<1>7. DeserialiseMetadata(bytes) = [basin_id |-> b, stream_id |-> s]
  BY <1>5, <1>6 DEF DeserialiseMetadata, First
<1> QED BY <1>2, <1>3, <1>7

LEMMA BlockReadsBack ==
  ASSUME NEW n \in SeqNum, NEW m \in SeqNum
  PROVE  LET block == [start |-> n, block_size |-> m]
         IN  SerialiseBlock(block) \in Key /\ DeserialiseBlock(SerialiseBlock(block)) = block
<1> DEFINE k == SeqNumBytes(n)
           l == SeqNumBytes(m)
           bytes == k \o l
<1>1. /\ k \in Key /\ Len(k) = SeqNumWidth /\ l \in Key /\ Len(l) = SeqNumWidth
      /\ SeqNumWidth \in Nat
  BY SeqNumBytesAreKeys, KeysAssumption DEF SeqNum
<1>2. Number(k) = n /\ Number(l) = m
  BY NumbersReadBack
<1>3. SerialiseBlock([start |-> n, block_size |-> m]) = bytes
  BY DEF SerialiseBlock
<1> HIDE DEF k, l
<1>4. /\ bytes \in Key /\ Len(bytes) = Len(k) + Len(l)
      /\ SubSeq(bytes, 1, Len(k)) = k
      /\ SubSeq(bytes, Len(k) + 1, Len(bytes)) = l
  BY <1>1, CutsApart
<1> HIDE DEF bytes
<1>5. Len(bytes) = 2 * SeqNumWidth
  BY <1>1, <1>4
<1>6. /\ SubSeq(bytes, 1, SeqNumWidth) = k
      /\ SubSeq(bytes, SeqNumWidth + 1, 2 * SeqNumWidth) = l
  BY <1>1, <1>4, <1>5
<1>7. ~(Len(bytes) < 2 * SeqNumWidth)
  BY <1>1, <1>5
<1>8. DeserialiseBlock(bytes) = [start |-> n, block_size |-> m]
  BY <1>2, <1>6, <1>7 DEF DeserialiseBlock, First
<1> QED BY <1>3, <1>4, <1>8

LEMMA RecordReadsBack ==
  ASSUME NEW n \in SeqNum, NEW d \in Key
  PROVE  LET record == [seq_num |-> n, data |-> d]
         IN  SerialiseRecord(record) \in Key /\ DeserialiseRecord(SerialiseRecord(record)) = record
<1> DEFINE k == SeqNumBytes(n)
           bytes == k \o d
<1>1. k \in Key /\ Len(k) = SeqNumWidth /\ SeqNumWidth \in Nat
  BY SeqNumBytesAreKeys, KeysAssumption DEF SeqNum
<1>2. Number(k) = n
  BY NumbersReadBack
<1>3. SerialiseRecord([seq_num |-> n, data |-> d]) = bytes
  BY DEF SerialiseRecord
<1> HIDE DEF k
<1>4. /\ bytes \in Key /\ Len(bytes) = Len(k) + Len(d) /\ Len(d) \in Nat
      /\ SubSeq(bytes, 1, Len(k)) = k
      /\ SubSeq(bytes, Len(k) + 1, Len(bytes)) = d
  BY <1>1, CutsApart
<1> HIDE DEF bytes
<1>5. /\ SubSeq(bytes, 1, SeqNumWidth) = k
      /\ SubSeq(bytes, SeqNumWidth + 1, Len(bytes)) = d
  BY <1>1, <1>4
<1>6. ~(Len(bytes) < SeqNumWidth)
  BY <1>1, <1>4
<1>7. DeserialiseRecord(bytes) = [seq_num |-> n, data |-> d]
  BY <1>2, <1>5, <1>6 DEF DeserialiseRecord, First, From
<1> QED BY <1>3, <1>4, <1>7
=============================================================================
