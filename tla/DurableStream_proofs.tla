------------------------ MODULE DurableStream_proofs ------------------------
(***************************************************************************)
(* The stream's properties, for every block size, every set of payloads    *)
(* and every bound, and first what the allocator does for every count that *)
(* the code's assertion lets through.                                      *)
(*                                                                         *)
(* The invariant comes in two parts.  StoreInv holds whatever fails: it    *)
(* types the variables and says where blocks come from.  OrderInv needs    *)
(* SafeFaults: the allocator is above every record stored, so no write     *)
(* finds its key taken; across restarts that rests on the block being in   *)
(* storage before the first number of the next block is issued.            *)
(***************************************************************************)
EXTENDS DurableStream, TLAPS

-----------------------------------------------------------------------------
(* The allocator: what allocate(count) returns and keeps. *)

\* An allocator whose next number has not run past its block.
InBlock(a) == a \in Allocator /\ a.next <= NextBase(a.block)

\* Both ways to make an allocator give one that is within its block: the
\* default of a new stream, and the restart that skips a stored block.
THEOREM FreshAllocators ==
  /\ InBlock(DefaultAllocator)
  /\ \A b \in SeqBlock : InBlock(FromBlock(b))
BY BlockSizeAssumption
   DEF InBlock, DefaultAllocator, FromBlock, Allocator, SeqBlock, NextBase

\* allocate(count) hands out exactly count consecutive numbers, within the
\* block it leaves behind, whether it rolled over or not.
THEOREM AllocateTakesCount ==
  ASSUME NEW a, InBlock(a),
         NEW count \in Nat, count <= a.block.block_size
  PROVE  /\ InBlock(Allocate(a, count))
         /\ Allocate(a, count).next = a.next + count
         /\ Allocate(a, count).block.block_size = a.block.block_size
<1> DEFINE left == Remaining(a)
<1>1. /\ a.next \in Nat
      /\ a.block \in SeqBlock
      /\ NextBase(a.block) \in Nat
      /\ left \in Nat
      /\ NextBase(a.block) = a.next + left
  BY DEF InBlock, Allocator, SeqBlock, NextBase, Remaining
<1>2. CASE Rolls(a, count)
  <2>1. Allocate(a, count) = [next  |-> NextBase(a.block) + (count - left),
                              block |-> Following(a.block)]
    BY <1>2 DEF Allocate
  <2>2. count >= left
    BY <1>2 DEF Rolls
  <2>3. /\ Following(a.block) \in SeqBlock
        /\ Following(a.block).block_size = a.block.block_size
        /\ NextBase(Following(a.block)) = NextBase(a.block) + a.block.block_size
    BY <1>1 DEF Following, SeqBlock, NextBase
  <2>4. a.block.block_size \in Nat
    BY <1>1 DEF SeqBlock
  <2> HIDE DEF left
  <2> QED
    BY <1>1, <2>1, <2>2, <2>3, <2>4 DEF InBlock, Allocator
<1>3. CASE ~Rolls(a, count)
  <2>1. Allocate(a, count) = [a EXCEPT !.next = @ + count]
    BY <1>3 DEF Allocate
  <2>2. count < left
    BY <1>1, <1>3 DEF Rolls
  <2> HIDE DEF left
  <2> QED
    BY <1>1, <2>1, <2>2 DEF InBlock, Allocator
<1> QED BY <1>2, <1>3

\* A block is handed to the caller exactly when the allocator has moved on to
\* it, and then every number below it has been taken: none is skipped.
THEOREM BlockToPersistIsTheNewBlock ==
  ASSUME NEW a, InBlock(a),
         NEW count \in Nat, count <= a.block.block_size
  PROVE  /\ BlockToPersist(a, count) \in SeqBlock \cup {None}
         /\ BlockToPersist(a, count) = None =>
              Allocate(a, count).block = a.block
         /\ BlockToPersist(a, count) # None =>
              /\ BlockToPersist(a, count) = Allocate(a, count).block
              /\ BlockToPersist(a, count).start = NextBase(a.block)
              /\ NextBase(a.block) <= a.next + count
<1>1. /\ a.next \in Nat
      /\ a.block \in SeqBlock
      /\ NextBase(a.block) \in Nat
  BY DEF InBlock, Allocator, SeqBlock, NextBase
<1>2. Following(a.block) \in SeqBlock /\ Following(a.block).start = NextBase(a.block)
  BY <1>1 DEF Following, SeqBlock, NextBase
<1>3. CASE Rolls(a, count)
  <2>1. /\ BlockToPersist(a, count) = Following(a.block)
        /\ Allocate(a, count).block = Following(a.block)
    BY <1>3 DEF BlockToPersist, Allocate
  <2>2. NextBase(a.block) <= a.next + count
    BY <1>1, <1>3 DEF Rolls, Remaining
  <2> QED BY <1>2, <2>1, <2>2, NoneIsNoBlock
<1>4. CASE ~Rolls(a, count)
  <2>1. BlockToPersist(a, count) = None
    BY <1>4 DEF BlockToPersist
  <2>2. Allocate(a, count).block = a.block
    BY <1>4 DEF Allocate, InBlock, Allocator
  <2> QED BY <2>1, <2>2
<1> QED BY <1>3, <1>4

-----------------------------------------------------------------------------
(* The inductive invariant. *)

\* Each record sits under the key of its own sequence number.
RecordsKeyed == \A s \in DOMAIN records : records[s].seq_num = s

\* Nothing is stored of a stream before its metadata, and no record before
\* its creation is over.
CreationOrder ==
  /\ ~metadata => pc = "absent" /\ seqBlock = None /\ DOMAIN records = {}
  /\ pc = "creating" => seqBlock = None /\ DOMAIN records = {}

\* Blocks keep the default size, and the allocator stays within its own.
BlocksSized ==
  /\ seqBlock # None => seqBlock.block_size = BlockSize
  /\ pc \in {"ready", "applying"} =>
       InBlock(alloc) /\ alloc.block.block_size = BlockSize

\* The batch in flight holds the number taken last and the allocator's block.
BatchInFlight ==
  pc = "applying" =>
    /\ batch.record.seq_num <= MaxSeqNum
    /\ alloc.next = batch.record.seq_num + 1
    /\ batch.block # None =>
         /\ batch.block = alloc.block
         /\ batch.block.start <= batch.record.seq_num + 1

\* A block was stored at creation or with the number just below it.
BlockEarned ==
  \/ seqBlock = None
  \/ seqBlock.start = 0
  \/ \E s \in DOMAIN records : seqBlock.start <= s + 1

StoreInv ==
  /\ TypeOK
  /\ RecordsKeyed
  /\ CreationOrder
  /\ BlocksSized
  /\ BatchInFlight
  /\ BlockEarned

\* The number to be stored next is above all those stored.
AllocatorAhead ==
  /\ pc = "ready" => \A s \in DOMAIN records : s < alloc.next
  /\ pc = "applying" => \A s \in DOMAIN records : s < batch.record.seq_num

\* Storage holds the allocator's block, or the batch in flight takes it there.
BlockStored ==
  /\ pc = "absent" /\ metadata => seqBlock # None
  /\ pc = "ready" => seqBlock = alloc.block
  /\ pc = "applying" =>
       IF batch.block = None
       THEN seqBlock = alloc.block
       ELSE seqBlock # None /\ batch.block.start = NextBase(seqBlock)

OrderInv ==
  /\ AllocatorAhead
  /\ AckedDurable
  /\ NoBlockLost => BlockStored /\ RestartAboveRecords
  /\ "crash" \notin Faults => (pc = "absent" => DOMAIN records = {})

-----------------------------------------------------------------------------
(* What the steps do to storage. *)

\* apply adds the batch's record under its own number, changes no other
\* record, and leaves the block stored or replaces it by the batch's.
LEMMA AppliedAdds ==
  ASSUME StoreInv, pc = "applying", Applied
  PROVE  /\ DOMAIN records' = DOMAIN records \cup {batch.record.seq_num}
         /\ records'[batch.record.seq_num] = batch.record
         /\ \A s \in DOMAIN records :
              s # batch.record.seq_num => records'[s] = records[s]
         /\ seqBlock' = IF batch.block = None THEN seqBlock ELSE batch.block
         /\ metadata' = metadata
BY DEF Applied

\* The part of StoreInv about storage survives apply.
LEMMA AppliedKeepsStore ==
  ASSUME StoreInv, pc = "applying", Applied
  PROVE  /\ metadata' \in BOOLEAN
         /\ seqBlock' \in SeqBlock \cup {None}
         /\ DOMAIN records' \subseteq 0 .. MaxSeqNum
         /\ records' \in [DOMAIN records' -> Record]
         /\ RecordsKeyed'
         /\ metadata /\ metadata'
         /\ seqBlock' # None => seqBlock'.block_size = BlockSize
         /\ BlockEarned'
<1> DEFINE n == batch.record.seq_num
<1>1. /\ batch.record \in Record
      /\ batch.block \in SeqBlock \cup {None}
      /\ n \in 0 .. MaxSeqNum
  BY DEF StoreInv, TypeOK, BatchInFlight, Batch, Record
<1>2. /\ records' = [s \in DOMAIN records \cup {n} |->
                       IF s = n THEN batch.record ELSE records[s]]
      /\ DOMAIN records' = DOMAIN records \cup {n}
  BY DEF Applied
<1>3. metadata /\ metadata'
  BY DEF StoreInv, TypeOK, CreationOrder, Applied
<1>4. /\ DOMAIN records \subseteq 0 .. MaxSeqNum
      /\ \A s \in DOMAIN records : records[s] \in Record
      /\ seqBlock \in SeqBlock \cup {None}
  BY DEF StoreInv, TypeOK
<1>5. DOMAIN records' \subseteq 0 .. MaxSeqNum
  BY <1>1, <1>2, <1>4
<1>6. records' \in [DOMAIN records' -> Record]
  BY <1>1, <1>2, <1>4
<1>7. RecordsKeyed'
  BY <1>2 DEF StoreInv, RecordsKeyed
<1>8. /\ seqBlock' \in SeqBlock \cup {None}
      /\ seqBlock' # None => seqBlock'.block_size = BlockSize
  BY <1>1, <1>4 DEF Applied, StoreInv, BlocksSized, BatchInFlight
<1>9. BlockEarned'
  <2>1. CASE batch.block = None
    BY <1>2, <2>1 DEF Applied, StoreInv, BlockEarned
  <2>2. CASE batch.block # None
    BY <1>2, <2>2 DEF Applied, StoreInv, BatchInFlight, BlockEarned
  <2> QED BY <2>1, <2>2
<1> QED BY <1>3, <1>5, <1>6, <1>7, <1>8, <1>9

\* StoreInv holds at first.
LEMMA StoreInvInit == Init => StoreInv
<1> SUFFICES ASSUME Init PROVE StoreInv
  OBVIOUS
<1>1. DOMAIN records = {}
  BY DEF Init
<1>2. records \in [DOMAIN records -> Record]
  BY <1>1 DEF Init
<1> QED
  BY <1>1, <1>2
     DEF Init, StoreInv, TypeOK, RecordsKeyed, CreationOrder, BlocksSized,
         BatchInFlight, BlockEarned

\* Every step keeps StoreInv, whatever may fail.
LEMMA StoreInvStep == StoreInv /\ [Next]_vars => StoreInv'
<1> SUFFICES ASSUME StoreInv, [Next]_vars PROVE StoreInv'
  OBVIOUS
<1> USE DEF StoreInv
<1>1. CASE NewMetadata
  BY <1>1 DEF NewMetadata, TypeOK, RecordsKeyed, CreationOrder, BlocksSized,
              BatchInFlight, BlockEarned
<1>2. CASE NewBlock
  <2>1. /\ InBlock(DefaultAllocator)
        /\ DefaultAllocator \in Allocator
        /\ DefaultAllocator.block \in SeqBlock
        /\ DefaultAllocator.block.start = 0
        /\ DefaultAllocator.block.block_size = BlockSize
    BY FreshAllocators DEF InBlock, Allocator, DefaultAllocator
  <2>2. /\ alloc' = DefaultAllocator /\ seqBlock' = DefaultAllocator.block
        /\ pc' = "ready" /\ pc = "creating"
        /\ UNCHANGED <<metadata, records, batch, acked>>
    BY <1>2 DEF NewBlock
  <2>3. metadata
    BY <2>2 DEF TypeOK, CreationOrder
  <2>4. TypeOK'
    BY <2>1, <2>2 DEF TypeOK
  <2>5. (CreationOrder /\ BlocksSized /\ BatchInFlight)'
    BY <2>1, <2>2, <2>3 DEF CreationOrder, BlocksSized, BatchInFlight
  <2>6. (RecordsKeyed /\ BlockEarned)'
    BY <2>1, <2>2 DEF RecordsKeyed, BlockEarned
  <2> QED BY <2>4, <2>5, <2>6
<1>3. CASE InterruptedNew
  <2>1. /\ DefaultAllocator.block \in SeqBlock
        /\ DefaultAllocator.block.start = 0
        /\ DefaultAllocator.block.block_size = BlockSize
    BY FreshAllocators DEF InBlock, Allocator, DefaultAllocator
  <2>2. /\ pc = "creating" /\ pc' = "absent" /\ metadata
        /\ UNCHANGED <<metadata, records, alloc, batch, acked>>
        /\ seqBlock' = seqBlock \/ seqBlock' = DefaultAllocator.block
    BY <1>3 DEF InterruptedNew, TypeOK, CreationOrder
  <2>3. TypeOK'
    BY <2>1, <2>2 DEF TypeOK
  <2>4. (RecordsKeyed /\ CreationOrder /\ BatchInFlight)'
    BY <2>2 DEF RecordsKeyed, CreationOrder, BatchInFlight
  <2>5. (BlocksSized /\ BlockEarned)'
    BY <2>1, <2>2 DEF CreationOrder, BlocksSized, BlockEarned
  <2> QED BY <2>3, <2>4, <2>5
<1>4. CASE Load
  <2>1. /\ pc = "absent" /\ metadata /\ pc' = "ready"
        /\ UNCHANGED <<metadata, seqBlock, records, batch, acked>>
    BY <1>4 DEF Load, stored
  <2>2. InBlock(alloc') /\ alloc'.block.block_size = BlockSize
    <3>1. CASE seqBlock = None
      BY <1>4, <3>1, FreshAllocators DEF Load, DefaultAllocator
    <3>2. CASE seqBlock # None
      BY <1>4, <3>2, FreshAllocators DEF Load, FromBlock, TypeOK, BlocksSized
    <3> QED BY <3>1, <3>2
  <2>3. TypeOK'
    BY <2>1, <2>2 DEF TypeOK, InBlock
  <2>4. (RecordsKeyed /\ CreationOrder /\ BlocksSized /\ BatchInFlight /\ BlockEarned)'
    BY <2>1, <2>2 DEF RecordsKeyed, CreationOrder, BlocksSized, BatchInFlight,
                      BlockEarned
  <2> QED BY <2>3, <2>4
<1>5. ASSUME NEW d \in Data, StartAppend(d) PROVE StoreInv'
  <2>1. /\ pc = "ready" /\ pc' = "applying"
        /\ alloc.next <= MaxSeqNum
        /\ alloc' = Allocate(alloc, 1)
        /\ batch' = [record |-> [seq_num |-> alloc.next, data |-> d],
                     block  |-> BlockToPersist(alloc, 1)]
        /\ UNCHANGED <<metadata, seqBlock, records, acked>>
    BY <1>5 DEF StartAppend, stored
  <2>2. /\ InBlock(alloc) /\ alloc.block.block_size = BlockSize
        /\ 1 <= alloc.block.block_size /\ alloc.next \in Nat
    BY <2>1, BlockSizeAssumption DEF TypeOK, BlocksSized, Allocator
  <2>3. /\ InBlock(alloc')
        /\ alloc'.next = alloc.next + 1
        /\ alloc'.block.block_size = BlockSize
    BY <2>1, <2>2, AllocateTakesCount
  <2>4. /\ batch'.record = [seq_num |-> alloc.next, data |-> d]
        /\ batch'.block \in SeqBlock \cup {None}
        /\ batch'.block # None =>
             batch'.block = alloc'.block /\ batch'.block.start <= alloc.next + 1
    BY <2>1, <2>2, BlockToPersistIsTheNewBlock
  <2>5. batch' \in Batch
    BY <2>1, <2>2, <2>4 DEF Batch, Record
  <2>6. TypeOK'
    BY <2>1, <2>3, <2>5 DEF TypeOK, InBlock
  <2>7. BatchInFlight'
    BY <2>1, <2>3, <2>4 DEF BatchInFlight
  <2>8. (RecordsKeyed /\ CreationOrder /\ BlocksSized /\ BlockEarned)'
    BY <2>1, <2>3 DEF RecordsKeyed, CreationOrder, BlocksSized, BlockEarned
  <2> QED BY <2>6, <2>7, <2>8
<1>6. CASE AppendOk
  <2>1. /\ pc = "applying" /\ pc' = "ready" /\ batch' = None
        /\ alloc' = alloc /\ Applied /\ acked' = acked \cup {batch.record}
    BY <1>6 DEF AppendOk
  <2>2. TypeOK'
    BY <2>1, AppliedKeepsStore DEF TypeOK, Batch
  <2>3. (RecordsKeyed /\ CreationOrder /\ BlocksSized /\ BatchInFlight /\ BlockEarned)'
    BY <2>1, AppliedKeepsStore DEF CreationOrder, BlocksSized, BatchInFlight
  <2> QED BY <2>2, <2>3
<1>7. CASE AppendFailed
  <2>1. /\ pc = "applying" /\ pc' = "ready" /\ batch' = None
        /\ alloc' = alloc /\ acked' = acked
        /\ Applied \/ UNCHANGED <<metadata, seqBlock, records>>
    BY <1>7 DEF AppendFailed, FailedApply, stored
  <2>2. CASE Applied
    <3>1. TypeOK'
      BY <2>1, <2>2, AppliedKeepsStore DEF TypeOK, Batch
    <3>2. (RecordsKeyed /\ CreationOrder /\ BlocksSized /\ BatchInFlight /\ BlockEarned)'
      BY <2>1, <2>2, AppliedKeepsStore DEF CreationOrder, BlocksSized, BatchInFlight
    <3> QED BY <3>1, <3>2
  <2>3. CASE UNCHANGED <<metadata, seqBlock, records>>
    BY <2>1, <2>3 DEF TypeOK, RecordsKeyed, CreationOrder, BlocksSized,
                      BatchInFlight, BlockEarned
  <2> QED BY <2>1, <2>2, <2>3
<1>8. CASE Crash
  <2>1. /\ pc \in {"ready", "applying"} /\ pc' = "absent"
        /\ alloc' = None /\ batch' = None /\ acked' = acked
        /\ \/ UNCHANGED <<metadata, seqBlock, records>>
           \/ pc = "applying" /\ Applied
    BY <1>8 DEF Crash, stored
  <2>2. CASE pc = "applying" /\ Applied
    <3>1. TypeOK'
      BY <2>1, <2>2, AppliedKeepsStore DEF TypeOK
    <3>2. (RecordsKeyed /\ CreationOrder /\ BlocksSized /\ BatchInFlight /\ BlockEarned)'
      BY <2>1, <2>2, AppliedKeepsStore DEF CreationOrder, BlocksSized, BatchInFlight
    <3> QED BY <3>1, <3>2
  <2>3. CASE UNCHANGED <<metadata, seqBlock, records>>
    BY <2>1, <2>3 DEF TypeOK, RecordsKeyed, CreationOrder, BlocksSized,
                      BatchInFlight, BlockEarned
  <2> QED BY <2>1, <2>2, <2>3
<1>9. CASE UNCHANGED vars
  BY <1>9 DEF vars, TypeOK, RecordsKeyed, CreationOrder, BlocksSized,
              BatchInFlight, BlockEarned
<1> QED
  BY <1>1, <1>2, <1>3, <1>4, <1>5, <1>6, <1>7, <1>8, <1>9 DEF Next, BoundReached

-----------------------------------------------------------------------------
(* What holds whatever fails. *)

\* StoreInv is invariant.
THEOREM StoreInvHolds == Spec => []StoreInv
BY StoreInvInit, StoreInvStep, PTL DEF Spec

\* Type correctness: the batch in flight, the allocator and what is stored
\* agree with where the process is, under every combination of failures.
THEOREM TypeCorrect == Spec => []TypeOK
<1>1. StoreInv => TypeOK
  BY DEF StoreInv
<1> QED BY <1>1, StoreInvHolds, PTL

\* A restart skips no more than the block that the record below it persisted.
LEMMA WasteFollows == StoreInv => RestartWasteBounded
<1> SUFFICES ASSUME StoreInv PROVE RestartWasteBounded
  OBVIOUS
<1>1. /\ seqBlock \in SeqBlock \cup {None}
      /\ seqBlock # None => seqBlock.block_size = BlockSize
      /\ BlockEarned
      /\ DOMAIN records \subseteq 0 .. MaxSeqNum
  BY DEF StoreInv, TypeOK, BlocksSized
<1>2. CASE seqBlock = None
  BY <1>2, BlockSizeAssumption DEF RestartWasteBounded, RestartPoint
<1>3. CASE seqBlock # None
  <2>1. RestartPoint = seqBlock.start + BlockSize /\ seqBlock.start \in Nat
    BY <1>1, <1>3 DEF RestartPoint, NextBase, SeqBlock
  <2>2. CASE seqBlock.start = 0
    BY <2>1, <2>2, BlockSizeAssumption DEF RestartWasteBounded
  <2>3. CASE \E s \in DOMAIN records : seqBlock.start <= s + 1
    <3>1. PICK s \in DOMAIN records : seqBlock.start <= s + 1
      BY <2>3
    <3>2. s \in Nat /\ BlockSize \in Nat
      BY <1>1, BlockSizeAssumption, DurableStreamAssumption
    <3>3. RestartPoint <= s + 1 + BlockSize
      BY <2>1, <3>1, <3>2
    <3> QED BY <3>3 DEF RestartWasteBounded
  <2> QED BY <1>1, <1>3, <2>2, <2>3 DEF BlockEarned
<1> QED BY <1>2, <1>3

\* A restart never wastes more than the one block persisted with the record
\* just below it, under every combination of failures.
THEOREM WasteIsBounded == Spec => []RestartWasteBounded
BY WasteFollows, StoreInvHolds, PTL

-----------------------------------------------------------------------------
(* What holds while no fault undoes a reservation before a restart. *)

\* Under SafeFaults apply takes a free key, above every record stored.
LEMMA AppliedAppends ==
  ASSUME StoreInv, OrderInv, pc = "applying", Applied
  PROVE  /\ \A s \in DOMAIN records :
              /\ s < batch.record.seq_num
              /\ s \in DOMAIN records'
              /\ records'[s] = records[s]
         /\ \A s \in DOMAIN records' : s < alloc.next
         /\ \A r \in acked : r.seq_num \in DOMAIN records' /\ records'[r.seq_num] = r
         /\ records'[batch.record.seq_num] = batch.record
         /\ batch.record.seq_num \in DOMAIN records'
<1>1. /\ \A s \in DOMAIN records : s < batch.record.seq_num
      /\ alloc.next = batch.record.seq_num + 1
      /\ DOMAIN records \subseteq 0 .. MaxSeqNum
      /\ batch.record.seq_num \in Nat
  BY DEF OrderInv, AllocatorAhead, StoreInv, BatchInFlight, TypeOK, Batch, Record
<1>2. \A s \in DOMAIN records : s \in Nat
  BY <1>1, DurableStreamAssumption
<1> QED BY <1>1, <1>2, AppliedAdds DEF OrderInv, AckedDurable

\* The part of OrderInv about storage survives apply.
LEMMA AppliedKeepsOrder ==
  ASSUME StoreInv, OrderInv, pc = "applying", Applied
  PROVE  NoBlockLost => /\ seqBlock' = alloc.block
                        /\ seqBlock' # None
                        /\ RestartAboveRecords'
<1>1. /\ InBlock(alloc) /\ alloc.block \in SeqBlock
      /\ batch.record.seq_num \in Nat
      /\ alloc.next = batch.record.seq_num + 1
      /\ batch.block # None => batch.block = alloc.block
  BY DEF StoreInv, TypeOK, BlocksSized, BatchInFlight, Allocator, Batch, Record
<1>2. NoBlockLost => seqBlock' = alloc.block
  BY <1>1, AppliedAdds DEF OrderInv, BlockStored
<1>3. \A s \in DOMAIN records' : s < alloc.next /\ s \in Nat
  BY AppliedAppends, AppliedKeepsStore, DurableStreamAssumption
<1>4. alloc.next <= NextBase(alloc.block) /\ alloc.next \in Nat /\ NextBase(alloc.block) \in Nat
  BY <1>1 DEF InBlock, NextBase, SeqBlock
<1>5. NoBlockLost => RestartAboveRecords'
  <2> SUFFICES ASSUME NoBlockLost PROVE RestartAboveRecords'
    OBVIOUS
  <2>1. RestartPoint' = NextBase(alloc.block)
    BY <1>1, <1>2, NoneIsNoBlock DEF RestartPoint
  <2> QED BY <1>3, <1>4, <2>1 DEF RestartAboveRecords
<1> QED BY <1>1, <1>2, <1>5, NoneIsNoBlock

\* OrderInv holds at first.
LEMMA OrderInvInit == Init => OrderInv
BY DEF Init, OrderInv, AllocatorAhead, AckedDurable, BlockStored, RestartAboveRecords

\* Every step keeps OrderInv, under SafeFaults.
LEMMA OrderInvStep ==
  ASSUME SafeFaults, StoreInv, OrderInv, [Next]_vars
  PROVE  OrderInv'
<1>0. \A s \in DOMAIN records : s \in Nat
  BY DurableStreamAssumption DEF StoreInv, TypeOK
<1>1. CASE NewMetadata
  BY <1>1 DEF NewMetadata, OrderInv, AllocatorAhead, AckedDurable, BlockStored,
              RestartAboveRecords, RestartPoint, StoreInv, CreationOrder
<1>2. CASE NewBlock
  <2>1. DOMAIN records = {} /\ records' = records /\ acked' = acked
    BY <1>2 DEF NewBlock, StoreInv, CreationOrder
  <2>2. pc' = "ready" /\ seqBlock' = alloc'.block
    BY <1>2 DEF NewBlock
  <2> QED
    BY <2>1, <2>2 DEF OrderInv, AllocatorAhead, AckedDurable, BlockStored,
                      RestartAboveRecords
<1>3. CASE InterruptedNew
  <2>1. /\ DOMAIN records = {} /\ records' = records /\ acked' = acked
        /\ pc' = "absent"
    BY <1>3 DEF InterruptedNew, StoreInv, CreationOrder
  <2>2. NoBlockLost => seqBlock' # None
    BY <1>3, FreshAllocators, NoneIsNoBlock
       DEF InterruptedNew, NoBlockLost, InBlock, Allocator
  <2> QED
    BY <2>1, <2>2 DEF OrderInv, AllocatorAhead, AckedDurable, BlockStored,
                      RestartAboveRecords
<1>4. CASE Load
  <2>1. /\ pc = "absent" /\ metadata /\ pc' = "ready"
        /\ UNCHANGED <<metadata, seqBlock, records, batch, acked>>
        /\ alloc' = IF seqBlock = None THEN DefaultAllocator ELSE FromBlock(seqBlock)
    BY <1>4 DEF Load, stored
  <2>2. NoBlockLost => alloc' = FromBlock(seqBlock) /\ alloc'.block = seqBlock
    BY <2>1 DEF OrderInv, BlockStored, FromBlock
  <2>3. \A s \in DOMAIN records : s < alloc'.next
    <3>1. CASE NoBlockLost
      BY <2>1, <2>2, <3>1
         DEF OrderInv, BlockStored, RestartAboveRecords, RestartPoint, FromBlock
    <3>2. CASE "crash" \notin Faults
      BY <2>1, <3>2 DEF OrderInv
    <3> QED BY <3>1, <3>2 DEF SafeFaults
  <2>4. AllocatorAhead' /\ AckedDurable'
    BY <2>1, <2>3 DEF AllocatorAhead, OrderInv, AckedDurable
  <2>5. NoBlockLost => (BlockStored /\ RestartAboveRecords)'
    BY <2>1, <2>2 DEF OrderInv, BlockStored, RestartAboveRecords, RestartPoint
  <2> QED BY <2>1, <2>4, <2>5 DEF OrderInv
<1>5. ASSUME NEW d \in Data, StartAppend(d) PROVE OrderInv'
  <2>1. /\ pc = "ready" /\ pc' = "applying"
        /\ alloc' = Allocate(alloc, 1)
        /\ batch' = [record |-> [seq_num |-> alloc.next, data |-> d],
                     block  |-> BlockToPersist(alloc, 1)]
        /\ UNCHANGED <<metadata, seqBlock, records, acked>>
    BY <1>5 DEF StartAppend, stored
  <2>2. /\ InBlock(alloc)
        /\ 1 <= alloc.block.block_size
        /\ alloc.block \in SeqBlock
    BY <2>1, BlockSizeAssumption DEF StoreInv, TypeOK, BlocksSized, Allocator
  <2>3. /\ batch'.record.seq_num = alloc.next
        /\ batch'.block = None => alloc'.block = alloc.block
        /\ batch'.block # None => batch'.block.start = NextBase(alloc.block)
    BY <2>1, <2>2, BlockToPersistIsTheNewBlock
  <2>4. AllocatorAhead' /\ AckedDurable'
    BY <2>1, <2>3 DEF OrderInv, AllocatorAhead, AckedDurable
  <2>5. NoBlockLost => (BlockStored /\ RestartAboveRecords)'
    BY <2>1, <2>2, <2>3, NoneIsNoBlock
       DEF OrderInv, BlockStored, RestartAboveRecords, RestartPoint
  <2> QED BY <2>1, <2>4, <2>5 DEF OrderInv
<1>6. CASE AppendOk
  <2>1. /\ pc = "applying" /\ pc' = "ready" /\ alloc' = alloc
        /\ Applied /\ acked' = acked \cup {batch.record}
    BY <1>6 DEF AppendOk
  <2>2. AllocatorAhead' /\ AckedDurable'
    BY <2>1, AppliedAppends DEF AllocatorAhead, AckedDurable
  <2>3. NoBlockLost => (BlockStored /\ RestartAboveRecords)'
    BY <2>1, AppliedKeepsOrder DEF BlockStored
  <2> QED BY <2>1, <2>2, <2>3 DEF OrderInv
<1>7. CASE AppendFailed
  <2>1. /\ pc = "applying" /\ pc' = "ready" /\ alloc' = alloc /\ acked' = acked
        /\ \/ Applied
           \/ /\ UNCHANGED <<metadata, seqBlock, records>>
              /\ NoBlockLost => batch.block = None
    BY <1>7 DEF AppendFailed, FailedApply, stored, NoBlockLost
  <2>2. CASE Applied
    <3>1. AllocatorAhead' /\ AckedDurable'
      BY <2>1, <2>2, AppliedAppends DEF AllocatorAhead, AckedDurable
    <3>2. NoBlockLost => (BlockStored /\ RestartAboveRecords)'
      BY <2>1, <2>2, AppliedKeepsOrder DEF BlockStored
    <3> QED BY <2>1, <3>1, <3>2 DEF OrderInv
  <2>3. CASE /\ UNCHANGED <<metadata, seqBlock, records>>
             /\ NoBlockLost => batch.block = None
    <3>1. /\ alloc.next = batch.record.seq_num + 1
          /\ batch.record.seq_num \in Nat
      BY <2>1 DEF StoreInv, BatchInFlight, TypeOK, Batch, Record
    <3>2. AllocatorAhead' /\ AckedDurable'
      BY <1>0, <2>1, <2>3, <3>1 DEF OrderInv, AllocatorAhead, AckedDurable
    <3>3. NoBlockLost => (BlockStored /\ RestartAboveRecords)'
      BY <2>1, <2>3 DEF OrderInv, BlockStored, RestartAboveRecords, RestartPoint
    <3> QED BY <2>1, <3>2, <3>3 DEF OrderInv
  <2> QED BY <2>1, <2>2, <2>3
<1>8. CASE Crash
  <2>1. /\ "crash" \in Faults /\ NoBlockLost
        /\ pc \in {"ready", "applying"} /\ pc' = "absent" /\ acked' = acked
        /\ \/ UNCHANGED <<metadata, seqBlock, records>>
           \/ pc = "applying" /\ Applied
    BY <1>8 DEF Crash, stored, SafeFaults
  <2>2. CASE pc = "applying" /\ Applied
    BY <2>1, <2>2, AppliedAppends, AppliedKeepsOrder
       DEF OrderInv, AllocatorAhead, AckedDurable, BlockStored
  <2>3. CASE UNCHANGED <<metadata, seqBlock, records>>
    <3>1. seqBlock # None
      BY <2>1, NoneIsNoBlock
         DEF OrderInv, BlockStored, StoreInv, TypeOK, Allocator
    <3> QED
      BY <2>1, <2>3, <3>1
         DEF OrderInv, AllocatorAhead, AckedDurable, BlockStored,
             RestartAboveRecords, RestartPoint
  <2> QED BY <2>1, <2>2, <2>3
<1>9. CASE UNCHANGED vars
  BY <1>9 DEF vars, OrderInv, AllocatorAhead, AckedDurable, BlockStored,
              RestartAboveRecords, RestartPoint
<1> QED
  BY <1>1, <1>2, <1>3, <1>4, <1>5, <1>6, <1>7, <1>8, <1>9 DEF Next, BoundReached

\* OrderInv is invariant under SafeFaults.
THEOREM OrderInvHolds == ASSUME SafeFaults PROVE Spec => []OrderInv
BY StoreInvHolds, OrderInvInit, OrderInvStep, PTL DEF Spec

\* An acknowledged record stays in storage, unchanged, through restarts,
\* failed writes and errors that were no errors, as long as blocks are kept.
THEOREM AcknowledgedIsDurable == ASSUME SafeFaults PROVE Spec => []AckedDurable
<1>1. OrderInv => AckedDurable
  BY DEF OrderInv
<1> QED BY <1>1, OrderInvHolds, PTL

\* While no block is lost, a restart continues above every record stored.
THEOREM RestartIsAbove == ASSUME NoBlockLost PROVE Spec => []RestartAboveRecords
<1>1. OrderInv => RestartAboveRecords
  BY DEF OrderInv
<1>2. SafeFaults
  BY DEF SafeFaults
<1> QED BY <1>1, <1>2, OrderInvHolds, PTL

\* No step of the stream ever replaces or removes a stored record.
THEOREM RecordsAreAppendOnly == ASSUME SafeFaults PROVE Spec => AppendOnly
<1>1. ASSUME StoreInv, OrderInv, [Next]_vars
      PROVE  [\A s \in DOMAIN records :
                s \in DOMAIN records' /\ records'[s] = records[s]]_vars
  <2>1. \/ pc = "applying" /\ Applied
        \/ records' = records
    BY <1>1 DEF Next, vars, stored, NewMetadata, NewBlock, InterruptedNew, Load,
                StartAppend, AppendOk, AppendFailed, FailedApply, Crash, BoundReached
  <2>2. CASE pc = "applying" /\ Applied
    BY <1>1, <2>2, AppliedAppends
  <2>3. CASE records' = records
    BY <2>3
  <2> QED BY <2>1, <2>2, <2>3
<1> QED BY <1>1, StoreInvHolds, OrderInvHolds, PTL DEF Spec, AppendOnly

-----------------------------------------------------------------------------
(* The stream implements the log. *)

\* apply is the log's Enter of the record in the batch.
LEMMA AppliedEnters ==
  ASSUME StoreInv, OrderInv, pc = "applying", Applied
  PROVE  batch.record \in Log!Record /\ Log!Enter(batch.record)
<1>1. /\ batch.record.seq_num \in 0 .. MaxSeqNum
      /\ batch.record \in Record
  BY DurableStreamAssumption DEF StoreInv, TypeOK, BatchInFlight, Batch, Record
<1>2. batch.record \in Log!Record
  BY <1>1 DEF Record, Log!Record
<1>3. Log!Enter(batch.record)
  BY AppliedAppends DEF Applied, Log!Enter
<1> QED BY <1>2, <1>3

\* A step of the stream is a step of the log or leaves the log as it is.
LEMMA StepsRefine ==
  ASSUME StoreInv, OrderInv, [Next]_vars
  PROVE  [Log!Next]_<<records, acked>>
<1>1. CASE AppendOk
  <2>1. Log!Acknowledged(batch.record)
    BY <1>1, AppliedEnters DEF AppendOk, Log!Acknowledged
  <2> QED BY <1>1, <2>1, AppliedEnters DEF AppendOk, Log!Next
<1>2. CASE pc = "applying" /\ Applied /\ acked' = acked
  <2>1. Log!Unacknowledged(batch.record)
    BY <1>2, AppliedEnters DEF Log!Unacknowledged
  <2> QED BY <1>2, <2>1, AppliedEnters DEF Log!Next
<1>3. CASE UNCHANGED <<records, acked>>
  BY <1>3
<1>4. \/ AppendOk
      \/ pc = "applying" /\ Applied /\ acked' = acked
      \/ UNCHANGED <<records, acked>>
  BY DEF Next, vars, stored, NewMetadata, NewBlock, InterruptedNew, Load,
         StartAppend, AppendFailed, FailedApply, Crash, BoundReached
<1> QED BY <1>1, <1>2, <1>3, <1>4

\* Under SafeFaults the stream, with its blocks, batches and restarts, is an
\* append-only log in which an append is acknowledged as it is stored.
THEOREM StreamImplementsLog == ASSUME SafeFaults PROVE Spec => ImplementsLog
<1>1. Init => Log!Init
  BY DEF Init, Log!Init
<1> QED
  BY <1>1, StepsRefine, StoreInvHolds, OrderInvHolds, PTL
     DEF Spec, ImplementsLog, Log!Spec
=============================================================================
