-------------------------- MODULE KeySpace_proofs --------------------------
(***************************************************************************)
(* What is put is what is read and what is listed, for every set of ids,   *)
(* names, numbers and payloads, and for every width of the bytes.          *)
(*                                                                         *)
(* The invariant says that the keys of each database are exactly the keys  *)
(* of what was put, each with its value serialised.  Get and Scan then     *)
(* follow from the keys being unique, from what each value reads back as,  *)
(* and from prefix ranges being exact (Keys_proofs).                       *)
(***************************************************************************)
EXTENDS KeySpace, Keys_proofs, FunctionTheorems, FiniteSetTheorems

-----------------------------------------------------------------------------
(* Every finite set of keys can be listed in order, in one way. *)

\* A finite set of keys that is not empty has a last one.
LEMMA LastKeyExists ==
  ASSUME NEW S \in SUBSET Key, IsFiniteSet(S), S # {}
  PROVE  \E m \in S : \A k \in S \ {m} : Less(k, m)
<1> DEFINE T == {n \in Nat : \A R \in SUBSET Key :
                   IsFiniteSet(R) /\ Cardinality(R) = n + 1 =>
                     \E m \in R : \A k \in R \ {m} : Less(k, m)}
<1>1. 0 \in T
  <2> SUFFICES ASSUME NEW R \in SUBSET Key, IsFiniteSet(R), Cardinality(R) = 0 + 1
               PROVE  \E m \in R : \A k \in R \ {m} : Less(k, m)
    OBVIOUS
  <2>1. PICK m : R = {m}
    BY FS_Singleton
  <2> QED BY <2>1
<1>2. ASSUME NEW n \in T PROVE n + 1 \in T
  <2> SUFFICES ASSUME NEW R \in SUBSET Key, IsFiniteSet(R), Cardinality(R) = (n + 1) + 1
               PROVE  \E m \in R : \A k \in R \ {m} : Less(k, m)
    OBVIOUS
  <2>1. PICK x \in R : TRUE
    <3>1. R # {}
      BY FS_EmptySet
    <3> QED BY <3>1
  <2>2. IsFiniteSet(R \ {x}) /\ Cardinality(R \ {x}) = n + 1 /\ R \ {x} \in SUBSET Key
    BY <2>1, FS_RemoveElement
  <2>3. PICK m \in R \ {x} : \A k \in (R \ {x}) \ {m} : Less(k, m)
    BY <2>2
  <2>4. x \in Key /\ m \in Key /\ x # m
    OBVIOUS
  <2>5. CASE Less(m, x)
    <3>1. ASSUME NEW k \in R \ {x} PROVE Less(k, x)
      BY <2>3, <2>4, <2>5, LessTransitive
    <3> QED BY <2>1, <3>1
  <2>6. CASE Less(x, m)
    BY <2>3, <2>6
  <2> QED BY <2>4, <2>5, <2>6, LessTotal
<1> HIDE DEF T
<1>3. T = Nat
  <2>1. T \in SUBSET Nat
    BY DEF T
  <2> QED BY <1>1, <1>2, <2>1, InductionBySet
<1>4. Cardinality(S) - 1 \in Nat /\ (Cardinality(S) - 1) + 1 = Cardinality(S)
  BY FS_EmptySet, FS_CardinalityType
<1> QED BY <1>3, <1>4 DEF T

\* So it can be listed in order.
LEMMA OrderedListExists ==
  ASSUME NEW S \in SUBSET Key, IsFiniteSet(S)
  PROVE  \E f \in [1 .. Cardinality(S) -> S] : InOrder(f)
<1> DEFINE T == {n \in Nat : \A R \in SUBSET Key :
                   IsFiniteSet(R) /\ Cardinality(R) = n =>
                     \E f \in [1 .. n -> R] : InOrder(f)}
<1>1. 0 \in T
  <2> SUFFICES ASSUME NEW R \in SUBSET Key
               PROVE  \E f \in [1 .. 0 -> R] : InOrder(f)
    OBVIOUS
  <2> DEFINE f == [i \in 1 .. 0 |-> CHOOSE k \in R : TRUE]
  <2>1. f \in [1 .. 0 -> R] /\ InOrder(f)
    BY DEF InOrder
  <2> QED BY <2>1
<1>2. ASSUME NEW n \in T PROVE n + 1 \in T
  <2> SUFFICES ASSUME NEW R \in SUBSET Key, IsFiniteSet(R), Cardinality(R) = n + 1
               PROVE  \E f \in [1 .. n + 1 -> R] : InOrder(f)
    OBVIOUS
  <2>0. n \in Nat
    OBVIOUS
  <2>1. R # {}
    BY <2>0, FS_EmptySet
  <2>2. PICK m \in R : \A k \in R \ {m} : Less(k, m)
    BY <2>1, LastKeyExists
  <2>3. IsFiniteSet(R \ {m}) /\ Cardinality(R \ {m}) = n /\ R \ {m} \in SUBSET Key
    BY <2>0, FS_RemoveElement
  <2>4. PICK g \in [1 .. n -> R \ {m}] : InOrder(g)
    BY <2>3
  <2> HIDE DEF T
  <2> DEFINE f == [i \in 1 .. n + 1 |-> IF i = n + 1 THEN m ELSE g[i]]
  <2>5. f \in [1 .. n + 1 -> R]
    <3>1. ASSUME NEW i \in 1 .. n + 1, i # n + 1 PROVE g[i] \in R
      <4>1. i \in 1 .. n
        BY <2>0, <3>1
      <4> QED BY <4>1
    <3> QED BY <3>1
  <2>6. ASSUME NEW i \in 1 .. n + 1, NEW j \in 1 .. n + 1, i < j PROVE Less(f[i], f[j])
    <3>1. i \in 1 .. n /\ i # n + 1
      BY <2>0, <2>6
    <3>2. f[i] = g[i] /\ g[i] \in R \ {m}
      BY <3>1
    <3>3. CASE j = n + 1
      BY <2>2, <3>2, <3>3
    <3>4. CASE j # n + 1
      <4>1. j \in 1 .. n /\ f[j] = g[j]
        BY <2>0, <3>4
      <4>2. Less(g[i], g[j])
        BY <2>4, <2>6, <3>1, <4>1 DEF InOrder
      <4> QED BY <3>2, <4>1, <4>2
    <3> QED BY <3>3, <3>4
  <2>7. InOrder(f)
    BY <2>6 DEF InOrder
  <2> QED BY <2>5, <2>7
<1> HIDE DEF T
<1>3. T = Nat
  <2>1. T \in SUBSET Nat
    BY DEF T
  <2> QED BY <1>1, <1>2, <2>1, InductionBySet
<1>4. Cardinality(S) \in Nat
  BY FS_CardinalityType
<1> QED BY <1>3, <1>4 DEF T

\* A list of the set in order has every key of the set.
LEMMA OrderedListIsComplete ==
  ASSUME NEW S \in SUBSET Key, IsFiniteSet(S),
         NEW f \in [1 .. Cardinality(S) -> S], InOrder(f)
  PROVE  ToSet(f) = S
<1> DEFINE n == Cardinality(S)
<1>1. n \in Nat
  BY FS_CardinalityType
<1> HIDE DEF n
<1>2. f \in [1 .. n -> S]
  BY DEF n
<1>3. ASSUME NEW i \in 1 .. n, NEW j \in 1 .. n, f[i] = f[j] PROVE i = j
  <2>1. f[i] \in Key /\ ~ Less(f[i], f[i])
    BY <1>2, LessIrreflexive
  <2>2. ~ (i < j) /\ ~ (j < i)
    BY <1>2, <1>3, <2>1 DEF InOrder
  <2> QED BY <1>1, <2>2
<1>4. f \in Injection(1 .. n, S)
  BY <1>2, <1>3, Fun_IsInj
<1>5. Cardinality(1 .. n) = n
  BY <1>1, FS_Interval
<1>6. f \in Surjection(1 .. n, S)
  BY <1>4, <1>5, FS_Injection DEF n
<1>7. \A k \in S : \E i \in 1 .. n : f[i] = k
  BY <1>6 DEF Surjection
<1> QED BY <1>2, <1>7 DEF ToSet

\* A scan of a database returns the keys with the prefix, all of them and in
\* order.
THEOREM ScanIsExact ==
  ASSUME NEW db, DOMAIN db \in SUBSET Key, IsFiniteSet(DOMAIN db), NEW p \in Key
  PROVE  LET keys == Scan(db, PrefixRange(p))
         IN  /\ keys \in Seq(Key) /\ InOrder(keys)
             /\ ToSet(keys) = {k \in DOMAIN db : HasPrefix(k, p)}
<1> DEFINE found == {k \in DOMAIN db : InRange(PrefixRange(p), k)}
           keys == Scan(db, PrefixRange(p))
<1>1. found = {k \in DOMAIN db : HasPrefix(k, p)}
  BY PrefixRangeIsExact
<1>2. found \in SUBSET Key /\ IsFiniteSet(found) /\ Cardinality(found) \in Nat
  BY FS_Subset, FS_CardinalityType
<1>3. keys = CHOOSE f \in [1 .. Cardinality(found) -> found] : InOrder(f)
  BY DEF Scan
<1> HIDE DEF found, keys
<1>4. keys \in [1 .. Cardinality(found) -> found] /\ InOrder(keys)
  BY <1>2, <1>3, OrderedListExists
<1>5. ToSet(keys) = found
  BY <1>2, <1>4, OrderedListIsComplete
<1>6. keys \in Seq(Key)
  BY <1>2, <1>4
<1> QED BY <1>1, <1>4, <1>5, <1>6 DEF keys

-----------------------------------------------------------------------------
(* The inductive invariant. *)

\* What was put is put by the ids, names and numbers of the requests.
HistoryTyped ==
  /\ DOMAIN basins \subseteq Names /\ basins \in [DOMAIN basins -> BasinIds]
  /\ DOMAIN streams \subseteq BasinIds \X Names
  /\ streams \in [DOMAIN streams -> StreamIds]
  /\ DOMAIN blocks \subseteq BasinIds \X StreamIds
  /\ blocks \in [DOMAIN blocks -> [start : Nat, block_size : {BlockSize}]]
  /\ DOMAIN records \subseteq BasinIds \X StreamIds \X SeqNums
  /\ records \in [DOMAIN records -> [seq_num : SeqNums, data : Payloads]]

HistoryFinite ==
  /\ IsFiniteSet(DOMAIN basins) /\ IsFiniteSet(DOMAIN streams)
  /\ IsFiniteSet(DOMAIN blocks) /\ IsFiniteSet(DOMAIN records)

\* A record goes under its own number.
RecordsKeyed == \A k \in DOMAIN records : records[k].seq_num = k[3]

\* A stream has a block, which moves up once for a record at most.
BlocksFollow ==
  /\ \A k \in DOMAIN streams : <<k[1], streams[k]>> \in DOMAIN blocks
  /\ Cardinality(DOMAIN records) <= MaxPuts
  /\ \A k \in DOMAIN blocks : blocks[k].start <= BlockSize * Cardinality(DOMAIN records)

\* The keys of what was put.
StreamKeyOf(k) == StreamKey(k[1], k[2])
BlockKeyOf(k) == BlockKey(k[1], k[2])
RecordKeyOf(k) == RecordKey(k[1], k[2], k[3])

BasinKeys == {BasinKey(name) : name \in DOMAIN basins}
StreamKeys == {StreamKeyOf(k) : k \in DOMAIN streams}
BlockKeys == {BlockKeyOf(k) : k \in DOMAIN blocks}
RecordKeys == {RecordKeyOf(k) : k \in DOMAIN records}

\* The metadata of stream k.
MetadataOf(k) == [basin_id |-> k[1], stream_id |-> streams[k]]

\* Each database has those keys, with their values, and no others.
MetaHolds ==
  /\ DOMAIN meta = BasinKeys \cup StreamKeys
  /\ \A name \in DOMAIN basins : meta[BasinKey(name)] = basins[name]
  /\ \A k \in DOMAIN streams : meta[StreamKeyOf(k)] = SerialiseMetadata(MetadataOf(k))

StoreHolds ==
  /\ DOMAIN store = BlockKeys \cup RecordKeys
  /\ \A k \in DOMAIN blocks : store[BlockKeyOf(k)] = SerialiseBlock(blocks[k])
  /\ \A k \in DOMAIN records : store[RecordKeyOf(k)] = SerialiseRecord(records[k])

KeySpaceInv ==
  /\ HistoryTyped /\ HistoryFinite /\ RecordsKeyed /\ BlocksFollow
  /\ MetaHolds /\ StoreHolds

-----------------------------------------------------------------------------
(* What the constants and the operators give. *)

LEMMA ConstantsAreKeys ==
  /\ BasinIds \subseteq Id /\ StreamIds \subseteq Id
  /\ \A b \in Id : b \in Key
  /\ Names \subseteq Key /\ Payloads \subseteq Key /\ SeqNums \subseteq SeqNum
  /\ SeqNum \subseteq Nat /\ BlockSize \in Nat /\ MaxPuts \in Nat
  /\ Unbounded \notin Key
BY KeySpaceAssumption, KeysAssumption, IdIsKey DEF SeqNum

\* No two things that are put have the same key.
LEMMA KeysApart ==
  /\ \A name, other \in Names : BasinKey(name) = BasinKey(other) => name = other
  /\ \A j, k \in BasinIds \X Names : StreamKeyOf(j) = StreamKeyOf(k) => j = k
  /\ \A name \in Names, k \in BasinIds \X Names : BasinKey(name) # StreamKeyOf(k)
  /\ \A j, k \in BasinIds \X StreamIds : BlockKeyOf(j) = BlockKeyOf(k) => j = k
  /\ \A j, k \in BasinIds \X StreamIds \X SeqNums : RecordKeyOf(j) = RecordKeyOf(k) => j = k
  /\ \A j \in BasinIds \X StreamIds, k \in BasinIds \X StreamIds \X SeqNums :
       BlockKeyOf(j) # RecordKeyOf(k)
<1>0. /\ BasinIds \subseteq Id /\ StreamIds \subseteq Id /\ Names \subseteq Key
      /\ SeqNums \subseteq SeqNum
  BY ConstantsAreKeys
<1>1. ASSUME NEW name \in Names, NEW other \in Names, BasinKey(name) = BasinKey(other)
      PROVE  name = other
  <2>1. [i \in 1 .. IdWidth |-> 0] \in Id
    BY KeysAssumption DEF Id, Byte
  <2> QED BY <1>0, <1>1, <2>1, MetaKeysAreUnique
<1>2. ASSUME NEW j \in BasinIds \X Names, NEW k \in BasinIds \X Names,
             StreamKeyOf(j) = StreamKeyOf(k)
      PROVE  j = k
  <2>1. /\ j = <<j[1], j[2]>> /\ j[1] \in Id /\ j[2] \in Key
        /\ k = <<k[1], k[2]>> /\ k[1] \in Id /\ k[2] \in Key
    BY <1>0
  <2>2. j[1] = k[1] /\ j[2] = k[2]
    BY <1>2, <2>1, MetaKeysAreUnique DEF StreamKeyOf
  <2> QED BY <2>1, <2>2
<1>3. ASSUME NEW name \in Names, NEW k \in BasinIds \X Names
      PROVE  BasinKey(name) # StreamKeyOf(k)
  <2>1. k[1] \in Id /\ k[2] \in Key /\ name \in Key
    BY <1>0
  <2> QED BY <2>1, MetaKeysAreUnique DEF StreamKeyOf
<1>4. ASSUME NEW j \in BasinIds \X StreamIds, NEW k \in BasinIds \X StreamIds,
             BlockKeyOf(j) = BlockKeyOf(k)
      PROVE  j = k
  <2>1. /\ j = <<j[1], j[2]>> /\ j[1] \in Id /\ j[2] \in Id
        /\ k = <<k[1], k[2]>> /\ k[1] \in Id /\ k[2] \in Id
    BY <1>0
  <2>2. BlockSize * (MaxPuts + 1) \in SeqNum
    BY KeySpaceAssumption
  <2>3. j[1] = k[1] /\ j[2] = k[2]
    BY <1>4, <2>1, <2>2, RecordKeysAreUnique DEF BlockKeyOf
  <2> QED BY <2>1, <2>3
<1>5. ASSUME NEW j \in BasinIds \X StreamIds \X SeqNums,
             NEW k \in BasinIds \X StreamIds \X SeqNums, RecordKeyOf(j) = RecordKeyOf(k)
      PROVE  j = k
  <2>1. /\ j = <<j[1], j[2], j[3]>> /\ j[1] \in Id /\ j[2] \in Id /\ j[3] \in SeqNum
        /\ k = <<k[1], k[2], k[3]>> /\ k[1] \in Id /\ k[2] \in Id /\ k[3] \in SeqNum
    BY <1>0
  <2>2. j[1] = k[1] /\ j[2] = k[2] /\ j[3] = k[3]
    BY <1>5, <2>1, RecordKeysAreUnique DEF RecordKeyOf
  <2> QED BY <2>1, <2>2
<1>6. ASSUME NEW j \in BasinIds \X StreamIds, NEW k \in BasinIds \X StreamIds \X SeqNums
      PROVE  BlockKeyOf(j) # RecordKeyOf(k)
  <2>1. /\ j[1] \in Id /\ j[2] \in Id
        /\ k[1] \in Id /\ k[2] \in Id /\ k[3] \in SeqNum
    BY <1>0
  <2> QED BY <2>1, RecordKeysAreUnique DEF BlockKeyOf, RecordKeyOf
<1> QED BY <1>1, <1>2, <1>3, <1>4, <1>5, <1>6

\* All of them are keys.
LEMMA KeysOfThings ==
  /\ \A name \in Names : BasinKey(name) \in Key
  /\ \A k \in BasinIds \X Names : StreamKeyOf(k) \in Key
  /\ \A k \in BasinIds \X StreamIds : BlockKeyOf(k) \in Key
  /\ \A k \in BasinIds \X StreamIds \X SeqNums : RecordKeyOf(k) \in Key
<1>0. /\ BasinIds \subseteq Id /\ StreamIds \subseteq Id /\ Names \subseteq Key
      /\ SeqNums \subseteq SeqNum
  BY ConstantsAreKeys
<1>1. ASSUME NEW name \in Names PROVE BasinKey(name) \in Key
  <2>1. [i \in 1 .. IdWidth |-> 0] \in Id
    BY KeysAssumption DEF Id, Byte
  <2> QED BY <1>0, <2>1, MetaKeys
<1>2. ASSUME NEW k \in BasinIds \X Names PROVE StreamKeyOf(k) \in Key
  <2>1. k[1] \in Id /\ k[2] \in Key
    BY <1>0
  <2> QED BY <2>1, MetaKeys DEF StreamKeyOf
<1>3. ASSUME NEW k \in BasinIds \X StreamIds PROVE BlockKeyOf(k) \in Key
  <2>1. k[1] \in Id /\ k[2] \in Id
    BY <1>0
  <2>2. BlockSize * (MaxPuts + 1) \in SeqNum
    BY KeySpaceAssumption
  <2> QED BY <2>1, <2>2, RecordKeysAreUnique DEF BlockKeyOf
<1>4. ASSUME NEW k \in BasinIds \X StreamIds \X SeqNums PROVE RecordKeyOf(k) \in Key
  <2>1. k[1] \in Id /\ k[2] \in Id /\ k[3] \in SeqNum
    BY <1>0
  <2> QED BY <2>1, RecordKeysAreUnique DEF RecordKeyOf
<1> QED BY <1>1, <1>2, <1>3, <1>4

\* A history that is put to keeps its type.
LEMMA PutKeepsType ==
  ASSUME NEW h, NEW V, h \in [DOMAIN h -> V], NEW key, NEW value \in V
  PROVE  Put(h, key, value) \in [DOMAIN Put(h, key, value) -> V]
BY DEF Put

-----------------------------------------------------------------------------
(* Reading by key. *)

\* The metadata a load finds is that of the stream of that name.
LEMMA MetadataIsFound ==
  ASSUME KeySpaceInv, NEW b \in BasinIds, NEW name \in Names
  PROVE  LoadMetadata(b, name) =
           IF <<b, name>> \in DOMAIN streams
           THEN [basin_id |-> b, stream_id |-> streams[<<b, name>>]] ELSE Unbounded
<1> DEFINE k == <<b, name>>
           key == StreamKey(b, name)
<1>1. k \in BasinIds \X Names /\ key = StreamKeyOf(k) /\ k[1] = b
  BY DEF StreamKeyOf
<1>2. /\ DOMAIN meta = BasinKeys \cup StreamKeys
      /\ \A j \in DOMAIN streams : meta[StreamKeyOf(j)] = SerialiseMetadata(MetadataOf(j))
      /\ DOMAIN streams \subseteq BasinIds \X Names /\ DOMAIN basins \subseteq Names
      /\ \A j \in DOMAIN streams : streams[j] \in StreamIds
  BY DEF KeySpaceInv, MetaHolds, HistoryTyped
<1> HIDE DEF k, key
<1>3. key \in DOMAIN meta <=> k \in DOMAIN streams
  BY <1>1, <1>2, KeysApart DEF BasinKeys, StreamKeys
<1>4. CASE k \in DOMAIN streams
  <2>1. b \in Id /\ streams[k] \in Id
    BY <1>2, <1>4, ConstantsAreKeys
  <2>2. MetadataOf(k) = [basin_id |-> b, stream_id |-> streams[k]]
    BY <1>1 DEF MetadataOf
  <2>3. /\ meta[key] \in Key
        /\ DeserialiseMetadata(meta[key]) = [basin_id |-> b, stream_id |-> streams[k]]
    BY <1>1, <1>2, <1>4, <2>1, <2>2, MetadataReadsBack
  <2>4. meta[key] # Unbounded
    BY <2>3, ConstantsAreKeys
  <2> QED BY <1>3, <1>4, <2>3, <2>4 DEF LoadMetadata, Get, k, key
<1>5. CASE k \notin DOMAIN streams
  BY <1>3, <1>5 DEF LoadMetadata, Get, k, key
<1> QED BY <1>4, <1>5

LEMMA BasinIsFound ==
  ASSUME KeySpaceInv, NEW name \in Names
  PROVE  LoadBasin(name) = IF name \in DOMAIN basins THEN basins[name] ELSE Unbounded
<1> DEFINE key == BasinKey(name)
<1>1. /\ DOMAIN meta = BasinKeys \cup StreamKeys
      /\ \A n \in DOMAIN basins : meta[BasinKey(n)] = basins[n]
      /\ DOMAIN streams \subseteq BasinIds \X Names /\ DOMAIN basins \subseteq Names
      /\ \A n \in DOMAIN basins : basins[n] \in BasinIds
  BY DEF KeySpaceInv, MetaHolds, HistoryTyped
<1>2. key \in DOMAIN meta <=> name \in DOMAIN basins
  BY <1>1, KeysApart DEF BasinKeys, StreamKeys
<1>3. CASE name \in DOMAIN basins
  <2>1. basins[name] \in Id /\ meta[key] = basins[name]
    BY <1>1, <1>3, ConstantsAreKeys
  <2>2. meta[key] # Unbounded /\ DeserialiseId(meta[key]) = basins[name]
    BY <2>1, ConstantsAreKeys, IdReadsBack
  <2> QED BY <1>2, <1>3, <2>2 DEF LoadBasin, Get
<1>4. CASE name \notin DOMAIN basins
  BY <1>2, <1>4 DEF LoadBasin, Get
<1> QED BY <1>3, <1>4

\* The numbers of a block have the width of a sequence number.
LEMMA BlocksFit ==
  ASSUME KeySpaceInv, NEW k \in DOMAIN blocks
  PROVE  blocks[k].start \in SeqNum /\ BlockSize \in SeqNum
<1> DEFINE c == Cardinality(DOMAIN records)
           top == BlockSize * (MaxPuts + 1)
<1>1. /\ c \in Nat /\ c <= MaxPuts /\ MaxPuts \in Nat /\ BlockSize \in Nat
      /\ blocks[k].start \in Nat /\ blocks[k].start <= BlockSize * c
      /\ top \in SeqNum /\ SeqNum \subseteq Nat
  BY ConstantsAreKeys, KeySpaceAssumption, FS_CardinalityType
     DEF KeySpaceInv, HistoryTyped, HistoryFinite, BlocksFollow
<1> DEFINE rest == MaxPuts - c
<1>2. rest \in Nat /\ MaxPuts + 1 = c + rest + 1
  BY <1>1
<1> HIDE DEF c, rest
<1>3. top = BlockSize * c + BlockSize * rest + BlockSize
  BY <1>1, <1>2
<1>4. BlockSize * c \in Nat /\ BlockSize * rest \in Nat
  BY <1>1, <1>2
<1> HIDE DEF top
<1>5. blocks[k].start <= top /\ BlockSize <= top
  BY <1>1, <1>3, <1>4
<1> QED BY <1>1, <1>5, SmallerFits

LEMMA BlockIsFound ==
  ASSUME KeySpaceInv, NEW b \in BasinIds, NEW s \in StreamIds
  PROVE  LoadBlock(b, s) = IF <<b, s>> \in DOMAIN blocks THEN blocks[<<b, s>>] ELSE Unbounded
<1> DEFINE k == <<b, s>>
           key == BlockKey(b, s)
<1>1. k \in BasinIds \X StreamIds /\ key = BlockKeyOf(k)
  BY DEF BlockKeyOf
<1>2. /\ DOMAIN store = BlockKeys \cup RecordKeys
      /\ \A j \in DOMAIN blocks : store[BlockKeyOf(j)] = SerialiseBlock(blocks[j])
      /\ DOMAIN blocks \subseteq BasinIds \X StreamIds
      /\ DOMAIN records \subseteq BasinIds \X StreamIds \X SeqNums
      /\ \A j \in DOMAIN blocks : blocks[j] \in [start : Nat, block_size : {BlockSize}]
  BY DEF KeySpaceInv, StoreHolds, HistoryTyped
<1> HIDE DEF k, key
<1>3. key \in DOMAIN store <=> k \in DOMAIN blocks
  BY <1>1, <1>2, KeysApart DEF BlockKeys, RecordKeys
<1>4. CASE k \in DOMAIN blocks
  <2>1. blocks[k].start \in SeqNum /\ BlockSize \in SeqNum
    BY <1>4, BlocksFit
  <2>2. blocks[k] = [start |-> blocks[k].start, block_size |-> BlockSize]
    BY <1>2, <1>4
  <2>3. SerialiseBlock(blocks[k]) \in Key /\ DeserialiseBlock(SerialiseBlock(blocks[k])) = blocks[k]
    BY <2>1, <2>2, BlockReadsBack
  <2>4. store[key] = SerialiseBlock(blocks[k]) /\ store[key] # Unbounded
    BY <1>1, <1>2, <1>4, <2>3, ConstantsAreKeys
  <2> QED BY <1>3, <1>4, <2>3, <2>4 DEF LoadBlock, Get, k, key
<1>5. CASE k \notin DOMAIN blocks
  BY <1>3, <1>5 DEF LoadBlock, Get, k, key
<1> QED BY <1>4, <1>5

LEMMA RecordIsFound ==
  ASSUME KeySpaceInv, NEW b \in BasinIds, NEW s \in StreamIds, NEW n \in SeqNums
  PROVE  Read(b, s, n) = IF <<b, s, n>> \in DOMAIN records
                         THEN records[<<b, s, n>>] ELSE Unbounded
<1> DEFINE k == <<b, s, n>>
           key == RecordKey(b, s, n)
<1>1. k \in BasinIds \X StreamIds \X SeqNums /\ key = RecordKeyOf(k) /\ k[3] = n
  BY DEF RecordKeyOf
<1>2. /\ DOMAIN store = BlockKeys \cup RecordKeys
      /\ \A j \in DOMAIN records : store[RecordKeyOf(j)] = SerialiseRecord(records[j])
      /\ DOMAIN blocks \subseteq BasinIds \X StreamIds
      /\ DOMAIN records \subseteq BasinIds \X StreamIds \X SeqNums
      /\ \A j \in DOMAIN records : /\ records[j] \in [seq_num : SeqNums, data : Payloads]
                                   /\ records[j].seq_num = j[3]
  BY DEF KeySpaceInv, StoreHolds, HistoryTyped, RecordsKeyed
<1> HIDE DEF k, key
<1>3. key \in DOMAIN store <=> k \in DOMAIN records
  BY <1>1, <1>2, KeysApart DEF BlockKeys, RecordKeys
<1>4. CASE k \in DOMAIN records
  <2>1. n \in SeqNum /\ records[k].data \in Key
    BY <1>2, <1>4, ConstantsAreKeys
  <2>2. records[k] = [seq_num |-> n, data |-> records[k].data]
    BY <1>1, <1>2, <1>4
  <2>3. SerialiseRecord(records[k]) \in Key /\ DeserialiseRecord(SerialiseRecord(records[k])) = records[k]
    BY <2>1, <2>2, RecordReadsBack
  <2>4. store[key] = SerialiseRecord(records[k]) /\ store[key] # Unbounded
    BY <1>1, <1>2, <1>4, <2>3, ConstantsAreKeys
  <2> QED BY <1>3, <1>4, <2>3, <2>4 DEF Read, Get, k, key
<1>5. CASE k \notin DOMAIN records
  BY <1>3, <1>5 DEF Read, Get, k, key
<1> QED BY <1>4, <1>5

LEMMA GetsFollow == KeySpaceInv => GetsAreExact
BY BasinIsFound, MetadataIsFound, BlockIsFound, RecordIsFound DEF GetsAreExact

-----------------------------------------------------------------------------
(* The invariant holds. *)

LEMMA InitSatisfiesInv == Init => KeySpaceInv
<1> SUFFICES ASSUME Init PROVE KeySpaceInv
  OBVIOUS
<1>1. /\ DOMAIN meta = {} /\ DOMAIN store = {}
      /\ basins = << >> /\ streams = << >> /\ blocks = << >> /\ records = << >>
      /\ DOMAIN basins = {} /\ DOMAIN streams = {}
      /\ DOMAIN blocks = {} /\ DOMAIN records = {}
  BY DEF Init
<1>2. HistoryTyped
  BY <1>1 DEF HistoryTyped
<1>3. HistoryFinite /\ RecordsKeyed
  BY <1>1, FS_EmptySet DEF HistoryFinite, RecordsKeyed
<1>4. BlocksFollow
  BY <1>1, FS_EmptySet, ConstantsAreKeys DEF BlocksFollow
<1>5. MetaHolds /\ StoreHolds
  BY <1>1 DEF MetaHolds, StoreHolds, BasinKeys, StreamKeys, BlockKeys, RecordKeys
<1> QED BY <1>2, <1>3, <1>4, <1>5 DEF KeySpaceInv

LEMMA NewBasinKeepsInv ==
  ASSUME KeySpaceInv, NEW name \in Names, NEW b \in BasinIds, NewBasin(name, b)
  PROVE  KeySpaceInv'
<1>1. /\ basins' = Put(basins, name, b) /\ meta' = Put(meta, BasinKey(name), b)
      /\ UNCHANGED <<store, streams, blocks, records>>
  BY DEF NewBasin
<1>2. /\ DOMAIN basins' = DOMAIN basins \cup {name} /\ basins'[name] = b
      /\ \A n \in DOMAIN basins : n # name => basins'[n] = basins[n]
  BY <1>1 DEF Put
<1>3. HistoryTyped'
  <2>1. basins' \in [DOMAIN basins' -> BasinIds]
    BY <1>1, PutKeepsType DEF KeySpaceInv, HistoryTyped
  <2> QED BY <1>1, <1>2, <2>1 DEF KeySpaceInv, HistoryTyped
<1>4. HistoryFinite'
  BY <1>1, <1>2, FS_AddElement DEF KeySpaceInv, HistoryFinite
<1>5. RecordsKeyed' /\ BlocksFollow' /\ StoreHolds'
  BY <1>1 DEF KeySpaceInv, RecordsKeyed, BlocksFollow, StoreHolds, BlockKeys, RecordKeys
<1>6. MetaHolds'
  <2>1. /\ DOMAIN meta' = DOMAIN meta \cup {BasinKey(name)} /\ meta'[BasinKey(name)] = b
        /\ \A k \in DOMAIN meta : k # BasinKey(name) => meta'[k] = meta[k]
    BY <1>1 DEF Put
  <2>2. DOMAIN meta' = BasinKeys' \cup StreamKeys'
    BY <1>1, <1>2, <2>1 DEF KeySpaceInv, MetaHolds, BasinKeys, StreamKeys
  <2>3. ASSUME NEW n \in DOMAIN basins' PROVE meta'[BasinKey(n)] = basins'[n]
    <3>1. CASE n = name
      BY <1>2, <2>1, <3>1
    <3>2. CASE n # name
      <4>1. n \in DOMAIN basins /\ n \in Names /\ BasinKey(n) \in DOMAIN meta
        BY <1>2, <3>2 DEF KeySpaceInv, MetaHolds, BasinKeys, HistoryTyped
      <4>2. BasinKey(n) # BasinKey(name)
        BY <3>2, <4>1, KeysApart
      <4> QED BY <1>2, <2>1, <3>2, <4>1, <4>2 DEF KeySpaceInv, MetaHolds
    <3> QED BY <3>1, <3>2
  <2>4. ASSUME NEW k \in DOMAIN streams'
        PROVE  meta'[StreamKeyOf(k)] = SerialiseMetadata(MetadataOf(k)')
    <3>1. /\ k \in DOMAIN streams /\ k \in BasinIds \X Names
          /\ StreamKeyOf(k) \in DOMAIN meta /\ MetadataOf(k)' = MetadataOf(k)
      BY <1>1 DEF KeySpaceInv, MetaHolds, StreamKeys, HistoryTyped, MetadataOf
    <3>2. StreamKeyOf(k) # BasinKey(name)
      BY <3>1, KeysApart
    <3> QED BY <2>1, <3>1, <3>2 DEF KeySpaceInv, MetaHolds
  <2> QED BY <2>2, <2>3, <2>4 DEF MetaHolds
<1> QED BY <1>3, <1>4, <1>5, <1>6 DEF KeySpaceInv

LEMMA NewStreamKeepsInv ==
  ASSUME KeySpaceInv, NEW b \in BasinIds, NEW name \in Names, NEW s \in StreamIds,
         NewStream(b, name, s)
  PROVE  KeySpaceInv'
<1> DEFINE at == <<b, name>>
           ids == <<b, s>>
           fresh == [start |-> 0, block_size |-> BlockSize]
<1>0. /\ at \in BasinIds \X Names /\ at[1] = b
      /\ ids \in BasinIds \X StreamIds
      /\ fresh \in [start : Nat, block_size : {BlockSize}] /\ fresh.start = 0
      /\ StreamKey(b, name) = StreamKeyOf(at) /\ BlockKey(b, s) = BlockKeyOf(ids)
  BY DEF StreamKeyOf, BlockKeyOf
<1>1. /\ streams' = Put(streams, at, s) /\ blocks' = Put(blocks, ids, fresh)
      /\ meta' = Put(meta, StreamKey(b, name),
                     SerialiseMetadata([basin_id |-> b, stream_id |-> s]))
      /\ store' = Put(store, BlockKey(b, s), SerialiseBlock(blocks'[ids]))
      /\ UNCHANGED <<basins, records>>
  BY DEF NewStream
<1> HIDE DEF at, ids, fresh
<1>2. /\ DOMAIN streams' = DOMAIN streams \cup {at} /\ streams'[at] = s
      /\ \A k \in DOMAIN streams : k # at => streams'[k] = streams[k]
  BY <1>1 DEF Put
<1>3. /\ DOMAIN blocks' = DOMAIN blocks \cup {ids} /\ blocks'[ids] = fresh
      /\ \A k \in DOMAIN blocks : k # ids => blocks'[k] = blocks[k]
  BY <1>1 DEF Put
<1>4. HistoryTyped'
  <2>1. streams' \in [DOMAIN streams' -> StreamIds]
    BY <1>1, PutKeepsType DEF KeySpaceInv, HistoryTyped
  <2>2. blocks' \in [DOMAIN blocks' -> [start : Nat, block_size : {BlockSize}]]
    BY <1>0, <1>1, PutKeepsType DEF KeySpaceInv, HistoryTyped
  <2> QED BY <1>0, <1>1, <1>2, <1>3, <2>1, <2>2 DEF KeySpaceInv, HistoryTyped
<1>5. HistoryFinite'
  BY <1>1, <1>2, <1>3, FS_AddElement DEF KeySpaceInv, HistoryFinite
<1>6. RecordsKeyed'
  BY <1>1 DEF KeySpaceInv, RecordsKeyed
<1>7. BlocksFollow'
  <2>1. ASSUME NEW k \in DOMAIN streams' PROVE <<k[1], streams'[k]>> \in DOMAIN blocks'
    <3>1. CASE k = at
      BY <1>0, <1>2, <1>3, <3>1 DEF ids
    <3>2. CASE k # at
      BY <1>2, <1>3, <3>2 DEF KeySpaceInv, BlocksFollow
    <3> QED BY <3>1, <3>2
  <2>2. BlockSize * Cardinality(DOMAIN records) \in Nat
    BY ConstantsAreKeys, FS_CardinalityType DEF KeySpaceInv, HistoryFinite
  <2>3. ASSUME NEW k \in DOMAIN blocks'
        PROVE  blocks'[k].start <= BlockSize * Cardinality(DOMAIN records)
    <3>1. CASE k = ids
      BY <1>0, <1>3, <2>2, <3>1
    <3>2. CASE k # ids
      BY <1>3, <3>2 DEF KeySpaceInv, BlocksFollow
    <3> QED BY <3>1, <3>2
  <2> QED BY <1>1, <2>1, <2>3 DEF KeySpaceInv, BlocksFollow
<1>8. MetaHolds'
  <2> DEFINE key == StreamKeyOf(at)
  <2>1. /\ DOMAIN meta' = DOMAIN meta \cup {key}
        /\ meta'[key] = SerialiseMetadata([basin_id |-> b, stream_id |-> s])
        /\ \A k \in DOMAIN meta : k # key => meta'[k] = meta[k]
    BY <1>0, <1>1 DEF Put
  <2>2. DOMAIN meta' = BasinKeys' \cup StreamKeys'
    BY <1>1, <1>2, <2>1 DEF KeySpaceInv, MetaHolds, BasinKeys, StreamKeys
  <2> HIDE DEF key
  <2>3. ASSUME NEW n \in DOMAIN basins' PROVE meta'[BasinKey(n)] = basins'[n]
    <3>1. n \in DOMAIN basins /\ n \in Names /\ BasinKey(n) \in DOMAIN meta
      BY <1>1 DEF KeySpaceInv, MetaHolds, BasinKeys, HistoryTyped
    <3>2. BasinKey(n) # key
      BY <1>0, <3>1, KeysApart DEF key
    <3> QED BY <1>1, <2>1, <3>1, <3>2 DEF KeySpaceInv, MetaHolds
  <2>4. ASSUME NEW k \in DOMAIN streams'
        PROVE  meta'[StreamKeyOf(k)] = SerialiseMetadata(MetadataOf(k)')
    <3>1. CASE k = at
      <4>1. MetadataOf(k)' = [basin_id |-> b, stream_id |-> s]
        BY <1>0, <1>2, <3>1 DEF MetadataOf
      <4> QED BY <2>1, <3>1, <4>1 DEF key
    <3>2. CASE k # at
      <4>1. /\ k \in DOMAIN streams /\ k \in BasinIds \X Names
            /\ StreamKeyOf(k) \in DOMAIN meta /\ MetadataOf(k)' = MetadataOf(k)
        BY <1>2, <3>2 DEF KeySpaceInv, MetaHolds, StreamKeys, HistoryTyped, MetadataOf
      <4>2. StreamKeyOf(k) # key
        BY <1>0, <3>2, <4>1, KeysApart DEF key
      <4> QED BY <2>1, <4>1, <4>2 DEF KeySpaceInv, MetaHolds
    <3> QED BY <3>1, <3>2
  <2> QED BY <2>2, <2>3, <2>4 DEF MetaHolds
<1>9. StoreHolds'
  <2> DEFINE key == BlockKeyOf(ids)
  <2>1. /\ DOMAIN store' = DOMAIN store \cup {key}
        /\ store'[key] = SerialiseBlock(blocks'[ids])
        /\ \A k \in DOMAIN store : k # key => store'[k] = store[k]
    BY <1>0, <1>1 DEF Put
  <2>2. DOMAIN store' = BlockKeys' \cup RecordKeys'
    BY <1>1, <1>3, <2>1 DEF KeySpaceInv, StoreHolds, BlockKeys, RecordKeys
  <2> HIDE DEF key
  <2>3. ASSUME NEW k \in DOMAIN blocks' PROVE store'[BlockKeyOf(k)] = SerialiseBlock(blocks'[k])
    <3>1. CASE k = ids
      BY <2>1, <3>1 DEF key
    <3>2. CASE k # ids
      <4>1. /\ k \in DOMAIN blocks /\ k \in BasinIds \X StreamIds
            /\ BlockKeyOf(k) \in DOMAIN store /\ blocks'[k] = blocks[k]
        BY <1>3, <3>2 DEF KeySpaceInv, StoreHolds, BlockKeys, HistoryTyped
      <4>2. BlockKeyOf(k) # key
        BY <1>0, <3>2, <4>1, KeysApart DEF key
      <4> QED BY <2>1, <4>1, <4>2 DEF KeySpaceInv, StoreHolds
    <3> QED BY <3>1, <3>2
  <2>4. ASSUME NEW k \in DOMAIN records' PROVE store'[RecordKeyOf(k)] = SerialiseRecord(records'[k])
    <3>1. /\ k \in DOMAIN records /\ k \in BasinIds \X StreamIds \X SeqNums
          /\ RecordKeyOf(k) \in DOMAIN store
      BY <1>1 DEF KeySpaceInv, StoreHolds, RecordKeys, HistoryTyped
    <3>2. RecordKeyOf(k) # key
      BY <1>0, <3>1, KeysApart DEF key
    <3> QED BY <1>1, <2>1, <3>1, <3>2 DEF KeySpaceInv, StoreHolds
  <2> QED BY <2>2, <2>3, <2>4 DEF StoreHolds
<1> QED BY <1>4, <1>5, <1>6, <1>7, <1>8, <1>9 DEF KeySpaceInv

LEMMA PutRecordKeepsInv ==
  ASSUME KeySpaceInv, NEW k \in DOMAIN streams, NEW n \in SeqNums,
         NEW data \in Payloads, NEW rolls \in BOOLEAN, PutRecord(k, n, data, rolls)
  PROVE  KeySpaceInv'
<1> DEFINE b == k[1]
           s == streams[k]
           ids == <<b, s>>
           at == <<b, s, n>>
           record == [seq_num |-> n, data |-> data]
           withRecord == Put(store, RecordKeyOf(at), SerialiseRecord(record))
           moved == [blocks EXCEPT ![ids].start = @ + BlockSize]
           count == Cardinality(DOMAIN records)
\* The keys are those of the stream the record is for.
<1>1. /\ k \in BasinIds \X Names /\ b \in BasinIds /\ s \in StreamIds
      /\ ids \in DOMAIN blocks /\ ids \in BasinIds \X StreamIds
      /\ at \in BasinIds \X StreamIds \X SeqNums /\ at[3] = n
      /\ record \in [seq_num : SeqNums, data : Payloads] /\ record.seq_num = n
  BY DEF KeySpaceInv, HistoryTyped, BlocksFollow
<1>2. LoadMetadata(k[1], k[2]) = [basin_id |-> b, stream_id |-> s]
  <2>1. k = <<k[1], k[2]>> /\ k[1] \in BasinIds /\ k[2] \in Names
    BY <1>1
  <2> QED BY <2>1, MetadataIsFound
<1>3. RecordKey(b, s, n) = RecordKeyOf(at) /\ BlockKey(b, s) = BlockKeyOf(ids)
  BY DEF RecordKeyOf, BlockKeyOf
<1>4. /\ Cardinality(DOMAIN records) < MaxPuts
      /\ at \notin DOMAIN records
      /\ records' = Put(records, at, record)
      /\ \/ /\ blocks' = moved
            /\ store' = Put(withRecord, BlockKeyOf(ids), SerialiseBlock(blocks'[ids]))
         \/ store' = withRecord /\ blocks' = blocks
      /\ UNCHANGED <<meta, basins, streams>>
  <2> HIDE DEF withRecord, moved
  <2>1. LoadMetadata(k[1], k[2]).basin_id = b /\ LoadMetadata(k[1], k[2]).stream_id = s
    BY <1>2
  <2> QED BY <1>3, <2>1 DEF PutRecord, withRecord, moved
<1> HIDE DEF at, record
<1>5. /\ DOMAIN records' = DOMAIN records \cup {at} /\ records'[at] = record
      /\ \A j \in DOMAIN records : j # at => records'[j] = records[j]
  BY <1>4 DEF Put
<1>6. /\ count \in Nat /\ count + 1 <= MaxPuts /\ Cardinality(DOMAIN records') = count + 1
      /\ BlockSize \in Nat /\ MaxPuts \in Nat
      /\ BlockSize * (count + 1) = BlockSize * count + BlockSize
      /\ BlockSize * count \in Nat
  <2>1. count \in Nat /\ Cardinality(DOMAIN records') = count + 1
    BY <1>4, <1>5, FS_AddElement, FS_CardinalityType DEF KeySpaceInv, HistoryFinite
  <2>2. BlockSize \in Nat /\ MaxPuts \in Nat
    BY ConstantsAreKeys
  <2> HIDE DEF count
  <2>3. BlockSize * (count + 1) = BlockSize * count + BlockSize /\ BlockSize * count \in Nat
    BY <2>1, <2>2
  <2> QED BY <1>4, <2>1, <2>2, <2>3 DEF count
<1> HIDE DEF count
\* A block moves by one size, or stays.
<1>7. /\ DOMAIN blocks' = DOMAIN blocks
      /\ blocks' \in [DOMAIN blocks -> [start : Nat, block_size : {BlockSize}]]
      /\ \A j \in DOMAIN blocks : /\ blocks'[j].start <= blocks[j].start + BlockSize
                                  /\ j # ids => blocks'[j] = blocks[j]
  <2>0. blocks \in [DOMAIN blocks -> [start : Nat, block_size : {BlockSize}]]
    BY DEF KeySpaceInv, HistoryTyped
  <2>1. CASE blocks' = blocks
    BY <1>6, <2>0, <2>1
  <2>2. CASE blocks' = moved
    <3>1. DOMAIN blocks' = DOMAIN blocks
      BY <2>2
    <3>2. ASSUME NEW j \in DOMAIN blocks
          PROVE  /\ blocks'[j] \in [start : Nat, block_size : {BlockSize}]
                 /\ blocks'[j].start <= blocks[j].start + BlockSize
                 /\ j # ids => blocks'[j] = blocks[j]
      <4>1. blocks[j] \in [start : Nat, block_size : {BlockSize}]
        BY <2>0
      <4>2. CASE j = ids
        <5>1. blocks'[j] = [blocks[j] EXCEPT !.start = @ + BlockSize]
          BY <2>2, <4>2
        <5> QED BY <1>6, <4>1, <4>2, <5>1
      <4>3. CASE j # ids
        <5>1. blocks'[j] = blocks[j]
          BY <2>2, <4>3
        <5> QED BY <1>6, <4>1, <5>1
      <4> QED BY <4>2, <4>3
    <3>3. blocks' \in [DOMAIN blocks -> [start : Nat, block_size : {BlockSize}]]
      <4>1. blocks' = [j \in DOMAIN blocks |-> blocks'[j]]
        BY <2>2
      <4> QED BY <3>2, <4>1
    <3> QED BY <3>1, <3>2, <3>3
  <2> QED BY <1>4, <2>1, <2>2
<1>8. HistoryTyped'
  <2>1. records' \in [DOMAIN records' -> [seq_num : SeqNums, data : Payloads]]
    BY <1>1, <1>4, PutKeepsType DEF KeySpaceInv, HistoryTyped
  <2> QED BY <1>1, <1>4, <1>5, <1>7, <2>1 DEF KeySpaceInv, HistoryTyped
<1>9. HistoryFinite'
  BY <1>4, <1>5, <1>7, FS_AddElement DEF KeySpaceInv, HistoryFinite
<1>10. RecordsKeyed'
  BY <1>1, <1>5 DEF KeySpaceInv, RecordsKeyed
<1>11. BlocksFollow'
  <2>1. ASSUME NEW j \in DOMAIN blocks'
        PROVE  blocks'[j].start <= BlockSize * Cardinality(DOMAIN records')
    <3>1. /\ j \in DOMAIN blocks /\ blocks[j].start \in Nat /\ blocks'[j].start \in Nat
          /\ blocks[j].start <= BlockSize * count
          /\ blocks'[j].start <= blocks[j].start + BlockSize
      BY <1>7 DEF KeySpaceInv, BlocksFollow, HistoryTyped, count
    <3> QED BY <1>6, <3>1
  <2> QED BY <1>4, <1>6, <1>7, <2>1 DEF KeySpaceInv, BlocksFollow
<1>12. MetaHolds'
  BY <1>4 DEF KeySpaceInv, MetaHolds, BasinKeys, StreamKeys, MetadataOf
<1>13. StoreHolds'
  <2> DEFINE bk == BlockKeyOf(ids)
             rk == RecordKeyOf(at)
  <2>0. bk # rk /\ bk \in DOMAIN store
    BY <1>1, KeysApart DEF KeySpaceInv, StoreHolds, BlockKeys
  <2> HIDE DEF ids, moved
  \* Either way the record is stored, the block as it now is, and the rest kept.
  <2>1. /\ DOMAIN store' = DOMAIN store \cup {rk}
        /\ store'[rk] = SerialiseRecord(record)
        /\ store'[bk] = SerialiseBlock(blocks'[ids])
        /\ \A key \in DOMAIN store : key # rk /\ key # bk => store'[key] = store[key]
    <3> HIDE DEF bk, rk
    <3>1. /\ DOMAIN withRecord = DOMAIN store \cup {rk}
          /\ withRecord[rk] = SerialiseRecord(record)
          /\ \A key \in DOMAIN store : key # rk => withRecord[key] = store[key]
      BY DEF Put, rk
    <3> HIDE DEF withRecord
    <3>2. CASE store' = Put(withRecord, BlockKeyOf(ids), SerialiseBlock(blocks'[ids]))
      <4>1. store' = Put(withRecord, bk, SerialiseBlock(blocks'[ids]))
        BY <3>2 DEF bk
      <4>2. /\ DOMAIN store' = DOMAIN withRecord \cup {bk}
            /\ store'[bk] = SerialiseBlock(blocks'[ids])
            /\ \A key \in DOMAIN withRecord : key # bk => store'[key] = withRecord[key]
        BY <4>1 DEF Put
      <4> QED BY <2>0, <3>1, <4>2
    <3>3. CASE store' = withRecord /\ blocks' = blocks
      <4>1. store[bk] = SerialiseBlock(blocks'[ids])
        BY <1>1, <3>3 DEF KeySpaceInv, StoreHolds, bk
      <4> QED BY <2>0, <3>1, <3>3, <4>1
    <3> QED BY <1>4, <3>2, <3>3
  <2>2. DOMAIN store' = BlockKeys' \cup RecordKeys'
    BY <1>5, <1>7, <2>1 DEF KeySpaceInv, StoreHolds, BlockKeys, RecordKeys
  <2>3. ASSUME NEW j \in DOMAIN blocks' PROVE store'[BlockKeyOf(j)] = SerialiseBlock(blocks'[j])
    <3>1. CASE j = ids
      BY <2>1, <3>1
    <3>2. CASE j # ids
      <4>1. /\ j \in DOMAIN blocks /\ j \in BasinIds \X StreamIds
            /\ BlockKeyOf(j) \in DOMAIN store /\ blocks'[j] = blocks[j]
        BY <1>7, <3>2 DEF KeySpaceInv, StoreHolds, BlockKeys, HistoryTyped
      <4>2. BlockKeyOf(j) # bk /\ BlockKeyOf(j) # rk
        BY <1>1, <3>2, <4>1, KeysApart
      <4> QED BY <2>1, <4>1, <4>2 DEF KeySpaceInv, StoreHolds
    <3> QED BY <3>1, <3>2
  <2>4. ASSUME NEW j \in DOMAIN records' PROVE store'[RecordKeyOf(j)] = SerialiseRecord(records'[j])
    <3>1. CASE j = at
      BY <1>5, <2>1, <3>1
    <3>2. CASE j # at
      <4>1. /\ j \in DOMAIN records /\ j \in BasinIds \X StreamIds \X SeqNums
            /\ RecordKeyOf(j) \in DOMAIN store /\ records'[j] = records[j]
        BY <1>5, <3>2 DEF KeySpaceInv, StoreHolds, RecordKeys, HistoryTyped
      <4>2. RecordKeyOf(j) # rk /\ RecordKeyOf(j) # bk
        BY <1>1, <3>2, <4>1, KeysApart
      <4> QED BY <2>1, <4>1, <4>2 DEF KeySpaceInv, StoreHolds
    <3> QED BY <3>1, <3>2
  <2> QED BY <2>2, <2>3, <2>4 DEF StoreHolds
<1> QED BY <1>8, <1>9, <1>10, <1>11, <1>12, <1>13 DEF KeySpaceInv

LEMMA NextKeepsInv == KeySpaceInv /\ [Next]_vars => KeySpaceInv'
<1> SUFFICES ASSUME KeySpaceInv, [Next]_vars PROVE KeySpaceInv'
  OBVIOUS
<1>1. CASE \E name \in Names, b \in BasinIds : NewBasin(name, b)
  BY <1>1, NewBasinKeepsInv
<1>2. CASE \E b \in BasinIds, name \in Names, s \in StreamIds : NewStream(b, name, s)
  BY <1>2, NewStreamKeepsInv
<1>3. CASE \E k \in DOMAIN streams, n \in SeqNums, data \in Payloads, rolls \in BOOLEAN :
             PutRecord(k, n, data, rolls)
  BY <1>3, PutRecordKeepsInv
<1>4. CASE UNCHANGED vars
  BY <1>4 DEF vars, KeySpaceInv, HistoryTyped, HistoryFinite, RecordsKeyed, BlocksFollow,
              MetaHolds, StoreHolds, BasinKeys, StreamKeys, BlockKeys, RecordKeys, MetadataOf
<1> QED BY <1>1, <1>2, <1>3, <1>4 DEF Next

\* The databases hold what was put, under its keys, and nothing else.
THEOREM KeySpaceInvHolds == Spec => []KeySpaceInv
BY InitSatisfiesInv, NextKeepsInv, PTL DEF Spec

-----------------------------------------------------------------------------
(* Counting and listing the keys. *)

\* Things with a key each, and no two with the same: as many as there are keys.
LEMMA AsManyKeys ==
  ASSUME NEW S, IsFiniteSet(S), NEW T, NEW keyOf \in [S -> T],
         \A x, y \in S : keyOf[x] = keyOf[y] => x = y,
         \A k \in T : \E x \in S : keyOf[x] = k
  PROVE  IsFiniteSet(T) /\ Cardinality(T) = Cardinality(S)
<1>1. keyOf \in Injection(S, T) /\ keyOf \in Surjection(S, T)
  BY Fun_IsInj, Fun_IsSurj
<1> QED BY <1>1, FS_Surjection

\* A key for each thing, and none for nothing.
LEMMA KeysAreCounted ==
  ASSUME KeySpaceInv
  PROVE  /\ IsFiniteSet(BasinKeys) /\ Cardinality(BasinKeys) = Cardinality(DOMAIN basins)
         /\ IsFiniteSet(StreamKeys) /\ Cardinality(StreamKeys) = Cardinality(DOMAIN streams)
         /\ IsFiniteSet(BlockKeys) /\ Cardinality(BlockKeys) = Cardinality(DOMAIN blocks)
         /\ IsFiniteSet(RecordKeys) /\ Cardinality(RecordKeys) = Cardinality(DOMAIN records)
         /\ BasinKeys \cap StreamKeys = {} /\ BlockKeys \cap RecordKeys = {}
<1>0. /\ DOMAIN basins \subseteq Names /\ DOMAIN streams \subseteq BasinIds \X Names
      /\ DOMAIN blocks \subseteq BasinIds \X StreamIds
      /\ DOMAIN records \subseteq BasinIds \X StreamIds \X SeqNums
      /\ IsFiniteSet(DOMAIN basins) /\ IsFiniteSet(DOMAIN streams)
      /\ IsFiniteSet(DOMAIN blocks) /\ IsFiniteSet(DOMAIN records)
  BY DEF KeySpaceInv, HistoryTyped, HistoryFinite
<1>1. IsFiniteSet(BasinKeys) /\ Cardinality(BasinKeys) = Cardinality(DOMAIN basins)
  <2> DEFINE f == [name \in DOMAIN basins |-> BasinKey(name)]
  <2>1. f \in [DOMAIN basins -> BasinKeys] /\ \A k \in BasinKeys : \E x \in DOMAIN basins : f[x] = k
    BY DEF BasinKeys
  <2>2. \A x, y \in DOMAIN basins : f[x] = f[y] => x = y
    BY <1>0, KeysApart
  <2> HIDE DEF f
  <2> QED BY <1>0, <2>1, <2>2, AsManyKeys
<1>2. IsFiniteSet(StreamKeys) /\ Cardinality(StreamKeys) = Cardinality(DOMAIN streams)
  <2> DEFINE f == [k \in DOMAIN streams |-> StreamKeyOf(k)]
  <2>1. f \in [DOMAIN streams -> StreamKeys] /\ \A k \in StreamKeys : \E x \in DOMAIN streams : f[x] = k
    BY DEF StreamKeys
  <2>2. \A x, y \in DOMAIN streams : f[x] = f[y] => x = y
    BY <1>0, KeysApart
  <2> HIDE DEF f
  <2> QED BY <1>0, <2>1, <2>2, AsManyKeys
<1>3. IsFiniteSet(BlockKeys) /\ Cardinality(BlockKeys) = Cardinality(DOMAIN blocks)
  <2> DEFINE f == [k \in DOMAIN blocks |-> BlockKeyOf(k)]
  <2>1. f \in [DOMAIN blocks -> BlockKeys] /\ \A k \in BlockKeys : \E x \in DOMAIN blocks : f[x] = k
    BY DEF BlockKeys
  <2>2. \A x, y \in DOMAIN blocks : f[x] = f[y] => x = y
    BY <1>0, KeysApart
  <2> HIDE DEF f
  <2> QED BY <1>0, <2>1, <2>2, AsManyKeys
<1>4. IsFiniteSet(RecordKeys) /\ Cardinality(RecordKeys) = Cardinality(DOMAIN records)
  <2> DEFINE f == [k \in DOMAIN records |-> RecordKeyOf(k)]
  <2>1. f \in [DOMAIN records -> RecordKeys] /\ \A k \in RecordKeys : \E x \in DOMAIN records : f[x] = k
    BY DEF RecordKeys
  <2>2. \A x, y \in DOMAIN records : f[x] = f[y] => x = y
    BY <1>0, KeysApart
  <2> HIDE DEF f
  <2> QED BY <1>0, <2>1, <2>2, AsManyKeys
<1>5. BasinKeys \cap StreamKeys = {} /\ BlockKeys \cap RecordKeys = {}
  BY <1>0, KeysApart DEF BasinKeys, StreamKeys, BlockKeys, RecordKeys
<1> QED BY <1>1, <1>2, <1>3, <1>4, <1>5

LEMMA MetaIsFinite ==
  ASSUME KeySpaceInv
  PROVE  DOMAIN meta \in SUBSET Key /\ IsFiniteSet(DOMAIN meta)
<1>1. DOMAIN meta = BasinKeys \cup StreamKeys
  BY DEF KeySpaceInv, MetaHolds
<1>2. BasinKeys \subseteq Key /\ StreamKeys \subseteq Key
  BY KeysOfThings DEF KeySpaceInv, HistoryTyped, BasinKeys, StreamKeys
<1> QED BY <1>1, <1>2, KeysAreCounted, FS_Union

LEMMA TypeFollows == KeySpaceInv => TypeOK
<1> SUFFICES ASSUME KeySpaceInv PROVE TypeOK
  OBVIOUS
<1>1. DOMAIN meta = BasinKeys \cup StreamKeys /\ DOMAIN store = BlockKeys \cup RecordKeys
  BY DEF KeySpaceInv, MetaHolds, StoreHolds
<1>2. BlockKeys \subseteq Key /\ RecordKeys \subseteq Key
  BY KeysOfThings DEF KeySpaceInv, HistoryTyped, BlockKeys, RecordKeys
<1>3. Cardinality(DOMAIN meta) = Cardinality(DOMAIN basins) + Cardinality(DOMAIN streams)
  <2>1. /\ Cardinality(BasinKeys \cap StreamKeys) = 0
        /\ Cardinality(BasinKeys) \in Nat /\ Cardinality(StreamKeys) \in Nat
    BY KeysAreCounted, FS_EmptySet, FS_CardinalityType
  <2>2. Cardinality(BasinKeys \cup StreamKeys) =
          Cardinality(BasinKeys) + Cardinality(StreamKeys) - Cardinality(BasinKeys \cap StreamKeys)
    BY KeysAreCounted, FS_Union
  <2> QED BY <1>1, <2>1, <2>2, KeysAreCounted
<1>4. Cardinality(DOMAIN store) = Cardinality(DOMAIN blocks) + Cardinality(DOMAIN records)
  <2>1. /\ Cardinality(BlockKeys \cap RecordKeys) = 0
        /\ Cardinality(BlockKeys) \in Nat /\ Cardinality(RecordKeys) \in Nat
    BY KeysAreCounted, FS_EmptySet, FS_CardinalityType
  <2>2. Cardinality(BlockKeys \cup RecordKeys) =
          Cardinality(BlockKeys) + Cardinality(RecordKeys) - Cardinality(BlockKeys \cap RecordKeys)
    BY KeysAreCounted, FS_Union
  <2> QED BY <1>1, <2>1, <2>2, KeysAreCounted
<1> QED BY <1>1, <1>2, <1>3, <1>4, MetaIsFinite DEF TypeOK

\* The names under a prefix, when the keys with the prefix are those of names:
\* the names, in order.
LEMMA NamesUnderPrefix ==
  ASSUME KeySpaceInv, NEW p \in Key, NEW N \in SUBSET Key,
         {k \in DOMAIN meta : HasPrefix(k, p)} = {p \o name : name \in N}
  PROVE  /\ NamesUnder(p) \in Seq(Key) /\ InOrder(NamesUnder(p))
         /\ ToSet(NamesUnder(p)) = N
         /\ ToSet(Scan(meta, PrefixRange(p))) = {p \o name : name \in N}
<1> DEFINE found == Scan(meta, PrefixRange(p))
           names == NamesUnder(p)
<1>1. /\ found \in Seq(Key) /\ InOrder(found)
      /\ ToSet(found) = {p \o name : name \in N}
  BY MetaIsFinite, ScanIsExact
<1>2. names = [i \in DOMAIN found |-> From(Len(p) + 1, found[i])]
  BY DEF NamesUnder
<1>3. ASSUME NEW name \in Key PROVE From(Len(p) + 1, p \o name) = name
  BY <1>3, CutsApart DEF From
<1> HIDE DEF found, names
<1>4. ASSUME NEW i \in DOMAIN found
      PROVE  names[i] \in N /\ found[i] = p \o names[i]
  <2>1. PICK name \in N : found[i] = p \o name
    BY <1>1 DEF ToSet
  <2> QED BY <1>2, <1>3, <2>1
<1>5. names \in Seq(Key)
  <2>1. Len(found) \in Nat /\ DOMAIN found = 1 .. Len(found)
    BY <1>1
  <2>2. names \in [1 .. Len(found) -> Key]
    BY <1>2, <1>4, <2>1
  <2> QED BY <2>1, <2>2
<1>6. InOrder(names)
  <2> SUFFICES ASSUME NEW i \in DOMAIN found, NEW j \in DOMAIN found, i < j
               PROVE  Less(names[i], names[j])
    BY <1>2 DEF InOrder
  <2>1. Less(found[i], found[j])
    BY <1>1 DEF InOrder
  <2>2. /\ names[i] \in Key /\ names[j] \in Key
        /\ Less(p \o names[i], p \o names[j])
    BY <1>4, <2>1
  <2> QED BY <2>2, OrderAfterPrefix
<1>7. ToSet(names) = N
  <2>1. ASSUME NEW name \in N PROVE name \in ToSet(names)
    <3>1. PICK i \in DOMAIN found : found[i] = p \o name
      BY <1>1 DEF ToSet
    <3>2. i \in DOMAIN names /\ names[i] = name
      BY <1>2, <1>3, <3>1
    <3> QED BY <3>2 DEF ToSet
  <2>2. ASSUME NEW i \in DOMAIN names PROVE names[i] \in N
    BY <1>2, <1>4
  <2> QED BY <2>1, <2>2 DEF ToSet
<1> QED BY <1>1, <1>5, <1>6, <1>7 DEF found, names

\* The list of basins: their names.
LEMMA BasinsAreListed ==
  ASSUME KeySpaceInv
  PROVE  /\ ListBasins # Malformed /\ InOrder(ListBasins)
         /\ ToSet(ListBasins) = DOMAIN basins
<1> DEFINE p == BasinPrefix
<1>0. /\ DOMAIN basins \subseteq Names /\ Names \subseteq Key
      /\ DOMAIN streams \subseteq BasinIds \X Names /\ BasinIds \subseteq Id
      /\ DOMAIN meta = BasinKeys \cup StreamKeys
      /\ \A name \in DOMAIN basins : /\ basins[name] \in BasinIds
                                     /\ meta[BasinKey(name)] = basins[name]
  BY ConstantsAreKeys DEF KeySpaceInv, HistoryTyped, MetaHolds
<1>1. p \in Key
  BY TagsAreKeys DEF BasinPrefix
<1>2. {k \in DOMAIN meta : HasPrefix(k, p)} = {p \o name : name \in DOMAIN basins}
  <2>1. ASSUME NEW name \in DOMAIN basins
        PROVE  /\ p \o name = BasinKey(name)
               /\ BasinKey(name) \in DOMAIN meta /\ HasPrefix(BasinKey(name), p)
    <3>1. [i \in 1 .. IdWidth |-> 0] \in Id /\ name \in Key
      BY <1>0, KeysAssumption DEF Id, Byte
    <3> QED BY <1>0, <3>1, BasinsListUnderTheirTag DEF BasinKeys, BasinKey
  <2>2. ASSUME NEW k \in DOMAIN streams PROVE ~ HasPrefix(StreamKeyOf(k), p)
    <3>1. k[1] \in Id /\ k[2] \in Key
      BY <1>0
    <3> QED BY <3>1, BasinsListUnderTheirTag DEF StreamKeyOf
  <2>3. ASSUME NEW k \in DOMAIN meta, HasPrefix(k, p)
        PROVE  \E name \in DOMAIN basins : k = p \o name
    BY <1>0, <2>2, <2>3 DEF BasinKeys, StreamKeys, BasinKey
  <2> QED BY <2>1, <2>3
<1>3. DOMAIN basins \in SUBSET Key
  BY <1>0
<1>4. /\ NamesUnder(p) \in Seq(Key) /\ InOrder(NamesUnder(p))
      /\ ToSet(NamesUnder(p)) = DOMAIN basins
      /\ ToSet(Scan(meta, PrefixRange(p))) = {p \o name : name \in DOMAIN basins}
  BY <1>1, <1>2, <1>3, NamesUnderPrefix
<1>5. ~ \E k \in ToSet(Scan(meta, PrefixRange(p))) : DeserialiseId(meta[k]) = Malformed
  <2> SUFFICES ASSUME NEW name \in DOMAIN basins
               PROVE  DeserialiseId(meta[p \o name]) # Malformed
    BY <1>4
  <2>1. meta[p \o name] = basins[name] /\ basins[name] \in Id
    BY <1>0 DEF BasinKey
  <2>2. DeserialiseId(basins[name]) = basins[name] /\ basins[name] \in Key
    BY <2>1, IdReadsBack, ConstantsAreKeys
  <2> QED BY <2>1, <2>2, ValuesAssumption
<1>6. ListBasins = NamesUnder(p)
  BY <1>5 DEF ListBasins
<1> QED BY <1>4, <1>6, ValuesAssumption

\* The list of a basin's streams: the names of its own.
LEMMA StreamsAreListed ==
  ASSUME KeySpaceInv, NEW b \in BasinIds
  PROVE  /\ ListStreams(b) # Malformed /\ InOrder(ListStreams(b))
         /\ ToSet(ListStreams(b)) = {name \in Names : <<b, name>> \in DOMAIN streams}
<1> DEFINE p == StreamPrefix(b)
           N == {name \in Names : <<b, name>> \in DOMAIN streams}
<1>0. /\ DOMAIN basins \subseteq Names /\ Names \subseteq Key /\ N \in SUBSET Key
      /\ DOMAIN streams \subseteq BasinIds \X Names
      /\ BasinIds \subseteq Id /\ StreamIds \subseteq Id
      /\ DOMAIN meta = BasinKeys \cup StreamKeys
      /\ \A k \in DOMAIN streams :
           /\ streams[k] \in StreamIds
           /\ meta[StreamKeyOf(k)] = SerialiseMetadata(MetadataOf(k))
  BY ConstantsAreKeys DEF KeySpaceInv, HistoryTyped, MetaHolds
<1>1. b \in Id /\ p \in Key
  <2>1. b \in Id /\ << >> \in Key
    BY <1>0 DEF Key
  <2> QED BY <2>1, MetaKeys
<1>2. ASSUME NEW name \in N
      PROVE  /\ <<b, name>> \in DOMAIN streams /\ name \in Key
             /\ p \o name = StreamKeyOf(<<b, name>>)
  BY <1>0 DEF StreamKeyOf, StreamKey
<1>3. {k \in DOMAIN meta : HasPrefix(k, p)} = {p \o name : name \in N}
  <2>1. ASSUME NEW name \in N
        PROVE  p \o name \in DOMAIN meta /\ HasPrefix(p \o name, p)
    <3>1. HasPrefix(StreamKey(b, name), p)
      BY <1>1, <1>2, StreamsListUnderTheirBasin
    <3>2. p \o name = StreamKey(b, name)
      BY DEF StreamKey
    <3>3. p \o name \in StreamKeys
      BY <1>2 DEF StreamKeys
    <3> QED BY <1>0, <3>1, <3>2, <3>3
  <2>2. ASSUME NEW k \in DOMAIN streams, HasPrefix(StreamKeyOf(k), p)
        PROVE  \E name \in N : StreamKeyOf(k) = p \o name
    <3>1. k[1] \in Id /\ k[2] \in Names /\ k[2] \in Key /\ k = <<k[1], k[2]>>
      BY <1>0
    <3>2. k[1] = b
      BY <1>1, <2>2, <3>1, StreamsListUnderTheirBasin DEF StreamKeyOf
    <3>3. k[2] \in N /\ StreamKeyOf(k) = p \o k[2]
      BY <3>1, <3>2 DEF StreamKeyOf, StreamKey
    <3> QED BY <3>3
  <2>3. ASSUME NEW name \in DOMAIN basins PROVE ~ HasPrefix(BasinKey(name), p)
    <3>1. name \in Key
      BY <1>0
    <3> QED BY <1>1, <3>1, StreamsListUnderTheirBasin
  <2> HIDE DEF p, N
  <2>4. ASSUME NEW k \in DOMAIN meta, HasPrefix(k, p)
        PROVE  \E name \in N : k = p \o name
    BY <1>0, <2>2, <2>3, <2>4 DEF BasinKeys, StreamKeys
  <2> QED BY <2>1, <2>4
<1>4. /\ NamesUnder(p) \in Seq(Key) /\ InOrder(NamesUnder(p))
      /\ ToSet(NamesUnder(p)) = N
      /\ ToSet(Scan(meta, PrefixRange(p))) = {p \o name : name \in N}
  <2> HIDE DEF p, N
  <2> QED BY <1>0, <1>1, <1>3, NamesUnderPrefix
<1>5. ~ \E k \in ToSet(Scan(meta, PrefixRange(p))) : DeserialiseMetadata(meta[k]) = Malformed
  <2> SUFFICES ASSUME NEW name \in N
               PROVE  DeserialiseMetadata(meta[p \o name]) # Malformed
    BY <1>4
  <2> DEFINE k == <<b, name>>
  <2>1. /\ k \in DOMAIN streams /\ k[1] = b /\ streams[k] \in Id
        /\ meta[p \o name] = SerialiseMetadata(MetadataOf(k))
    BY <1>0, <1>2
  <2>2. MetadataOf(k) = [basin_id |-> b, stream_id |-> streams[k]]
    BY <2>1 DEF MetadataOf
  <2> HIDE DEF k
  <2>3. DeserialiseMetadata(meta[p \o name]) = [basin_id |-> b, stream_id |-> streams[k]]
    BY <1>1, <2>1, <2>2, MetadataReadsBack
  <2>4. /\ [basin_id |-> b, stream_id |-> streams[k]] \in [basin_id : Key, stream_id : Key]
    BY <1>1, <2>1, ConstantsAreKeys
  <2> QED BY <2>3, <2>4, ValuesAssumption
<1>6. ListStreams(b) = NamesUnder(p)
  BY <1>5 DEF ListStreams
<1> QED BY <1>4, <1>6, ValuesAssumption

LEMMA ListsFollow == KeySpaceInv => ListsAreExact
BY BasinsAreListed, StreamsAreListed DEF ListsAreExact

-----------------------------------------------------------------------------
(* The properties. *)

\* The databases hold byte strings, one for each thing that was put.
THEOREM KeySpaceTypeCorrect == Spec => []TypeOK
BY KeySpaceInvHolds, TypeFollows, PTL

\* Basins, streams, blocks and records are found as they were put.
THEOREM KeySpaceGetsAreExact == Spec => []GetsAreExact
BY KeySpaceInvHolds, GetsFollow, PTL

\* A list of basins or of streams is the names that were made, each once and in
\* order, whatever bytes the ids and the names end in.
THEOREM KeySpaceListsAreExact == Spec => []ListsAreExact
BY KeySpaceInvHolds, ListsFollow, PTL
=============================================================================
