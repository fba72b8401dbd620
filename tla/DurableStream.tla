--------------------------- MODULE DurableStream ---------------------------
(***************************************************************************)
(* One stream: what storage holds of it, the Stream object the server has  *)
(* in memory, and the writes between the two (stream.rs over the Storage   *)
(* trait).                                                                 *)
(*                                                                         *)
(* A stream is created by two writes to two databases (its metadata, then  *)
(* its sequence block), is loaded from what is stored when a process first *)
(* needs it, and appends by writing one batch: the record and, when the    *)
(* allocator rolls over, the next block.  apply is atomic per batch.       *)
(*                                                                         *)
(* Failures, each switched on by its name in Faults:                       *)
(*   crash         the process stops, between or during appends            *)
(*   cut_creation  creation stops between its two writes: an error of the  *)
(*                 second one, an error of the first though it was made, a *)
(*                 cancelled request or a crash                            *)
(*   lost_record   the write of a record alone fails and stores nothing    *)
(*   lost_block    the write of a record and a block fails likewise        *)
(*   unreported    a write to record_storage is made but returns an error  *)
(***************************************************************************)
EXTENDS SequenceAllocator

CONSTANTS Data,      \* the payloads
          Faults,    \* the failures that may happen
          MaxSeqNum  \* bound: the last sequence number a behaviour uses

FaultKinds ==
  {"crash", "cut_creation", "lost_record", "lost_block", "unreported"}

ASSUME DurableStreamAssumption ==
  /\ Faults \subseteq FaultKinds
  /\ MaxSeqNum \in Nat

\* No write of a block is lost while the process goes on.
NoBlockLost == "cut_creation" \notin Faults /\ "lost_block" \notin Faults

\* The faults under which a restart cannot find less reserved than was used.
SafeFaults == "crash" \notin Faults \/ NoBlockLost

VARIABLES
  metadata,  \* is the stream's metadata key in meta_storage?
  seqBlock,  \* the block under the stream's sequence-block key, or None
  records,   \* the records in record_storage, by the number in their key
  pc,        \* what the process is doing with the stream
  alloc,     \* sequence_number_allocator of the Stream in memory, or None
  batch,     \* the append whose apply has not returned, or None
  acked      \* history: the records whose append returned Ok

stored == <<metadata, seqBlock, records>>
vars == <<metadata, seqBlock, records, pc, alloc, batch, acked>>

Record == [seq_num : Nat, data : Data]
Batch == [record : Record, block : SeqBlock \cup {None}]

TypeOK ==
  /\ metadata \in BOOLEAN
  /\ seqBlock \in SeqBlock \cup {None}
  /\ DOMAIN records \subseteq 0 .. MaxSeqNum
  /\ records \in [DOMAIN records -> Record]
  /\ pc \in {"absent", "creating", "ready", "applying"}
  /\ alloc \in IF pc \in {"ready", "applying"} THEN Allocator ELSE {None}
  /\ batch \in IF pc = "applying" THEN Batch ELSE {None}
  /\ acked \subseteq Record

Init ==
  /\ metadata = FALSE
  /\ seqBlock = None
  /\ records = << >>
  /\ pc = "absent"
  /\ alloc = None
  /\ batch = None
  /\ acked = {}

(***************************************************************************)
(* Creation and loading.                                                   *)
(***************************************************************************)

\* Stream::new writes the metadata first.  A failure of this write leaves
\* nothing, or is a creation cut right after it.
NewMetadata ==
  /\ pc = "absent" /\ ~metadata
  /\ metadata' = TRUE
  /\ pc' = "creating"
  /\ UNCHANGED <<seqBlock, records, alloc, batch, acked>>

\* Mutant: the first block is never persisted.
NewBlock_NotPersisted ==
  /\ pc = "creating"
  /\ alloc' = DefaultAllocator
  /\ pc' = "ready"
  /\ UNCHANGED <<metadata, seqBlock, records, batch, acked>>

\* ... then the first sequence block, and the stream is in memory.
NewBlock ==
  /\ pc = "creating"
  /\ seqBlock' = DefaultAllocator.block
  /\ alloc' = DefaultAllocator
  /\ pc' = "ready"
  /\ UNCHANGED <<metadata, records, batch, acked>>

\* Stream::new does not return: nothing is kept in memory.
InterruptedNew ==
  /\ pc = "creating"
  /\ pc' = "absent"
  /\ \/ "cut_creation" \in Faults /\ UNCHANGED seqBlock
     \/ "unreported" \in Faults /\ seqBlock' = DefaultAllocator.block
  /\ UNCHANGED <<metadata, records, alloc, batch, acked>>

\* The number a process would issue first if it loaded the stream now.
RestartPoint == IF seqBlock = None THEN 0 ELSE NextBase(seqBlock)

\* Stream::load; without a stored block it starts over with the default.
Load ==
  /\ pc = "absent" /\ metadata
  /\ alloc' = IF seqBlock = None THEN DefaultAllocator ELSE FromBlock(seqBlock)
  /\ pc' = "ready"
  /\ UNCHANGED <<stored, batch, acked>>

(***************************************************************************)
(* Appending and reading.                                                  *)
(***************************************************************************)

\* The in-memory allocator advances before the write, and whatever comes of it.
StartAppend(d) ==
  /\ pc = "ready"
  /\ alloc.next <= MaxSeqNum
  /\ alloc' = Allocate(alloc, 1)
  /\ batch' = [record |-> [seq_num |-> alloc.next, data |-> d],
               block  |-> BlockToPersist(alloc, 1)]
  /\ pc' = "applying"
  /\ UNCHANGED <<stored, acked>>

\* Storage::apply of the batch: puts, which replace what the key held.
Applied ==
  /\ records' = [s \in DOMAIN records \cup {batch.record.seq_num} |->
                   IF s = batch.record.seq_num THEN batch.record ELSE records[s]]
  /\ seqBlock' = IF batch.block = None THEN seqBlock ELSE batch.block
  /\ UNCHANGED metadata

AppendOk ==
  /\ pc = "applying"
  /\ Applied
  /\ acked' = acked \cup {batch.record}
  /\ pc' = "ready" /\ batch' = None
  /\ UNCHANGED alloc

\* apply returns an error: the batch is in storage all the same, or is lost.
FailedApply ==
  \/ "unreported" \in Faults /\ Applied
  \/ "lost_record" \in Faults /\ batch.block = None /\ UNCHANGED stored
  \/ "lost_block" \in Faults /\ batch.block # None /\ UNCHANGED stored

\* Mutant: the failed append gives its number back.
AppendFailed_GivesBack ==
  /\ pc = "applying" /\ FailedApply
  /\ alloc' = [alloc EXCEPT !.next = batch.record.seq_num]
  /\ pc' = "ready" /\ batch' = None
  /\ UNCHANGED acked

\* Mutant: the failed batch is kept, as if to be retried.
AppendFailed_KeepsBatch ==
  /\ pc = "applying" /\ FailedApply
  /\ pc' = "ready"
  /\ UNCHANGED <<alloc, batch, acked>>

\* append returns a StorageError; the allocator is not rolled back.
AppendFailed ==
  /\ pc = "applying" /\ FailedApply
  /\ pc' = "ready" /\ batch' = None
  /\ UNCHANGED <<alloc, acked>>

\* Stream::read.
Read(s) == IF s \in DOMAIN records THEN records[s] ELSE None

\* The process stops; a batch in flight reached storage or did not.
Crash ==
  /\ "crash" \in Faults
  /\ pc \in {"ready", "applying"}
  /\ UNCHANGED stored \/ (pc = "applying" /\ Applied)
  /\ pc' = "absent" /\ alloc' = None /\ batch' = None
  /\ UNCHANGED acked

\* The bound is reached: the stream stays as it is.
BoundReached ==
  /\ pc = "ready" /\ alloc.next > MaxSeqNum
  /\ UNCHANGED vars

Next ==
  \/ NewMetadata \/ NewBlock \/ InterruptedNew \/ Load
  \/ (\E d \in Data : StartAppend(d))
  \/ AppendOk \/ AppendFailed \/ Crash \/ BoundReached

Spec == Init /\ [][Next]_vars

(***************************************************************************)
(* Properties.                                                             *)
(***************************************************************************)

\* An acknowledged record is in storage, unchanged, from then on: the code
\* answers an append only after apply returned, and no later write, of this
\* process or of one that loads the stream again, takes its key.
AckedDurable ==
  \A r \in acked : r.seq_num \in DOMAIN records /\ records[r.seq_num] = r

\* What a restart would issue lies above every record stored: the block is
\* persisted in the batch of the last number before it, not afterwards.
RestartAboveRecords == \A s \in DOMAIN records : s < RestartPoint

\* No step replaces or removes a record once it is stored, acknowledged or not
\* (README: streams are append-only ordered logs).
AppendOnly ==
  [][\A s \in DOMAIN records :
       s \in DOMAIN records' /\ records'[s] = records[s]]_vars

\* A restart wastes at most one block of numbers: those that follow the last
\* record stored.  Only numbers in a persisted block are ever skipped.
RestartWasteBounded ==
  \/ RestartPoint <= BlockSize
  \/ \E s \in DOMAIN records : RestartPoint <= s + 1 + BlockSize

Log == INSTANCE AppendOnlyLog
         WITH log <- records, SeqNums <- 0 .. MaxSeqNum

\* The stream implements the log it promises: besides, every record is stored
\* above all the others, and is acknowledged as it is stored or never.
ImplementsLog == Log!Spec
=============================================================================
