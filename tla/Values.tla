------------------------------- MODULE Values -------------------------------
(***************************************************************************)
(* What is stored under the keys of Keys: ids, the metadata of a stream,   *)
(* sequence blocks and records, as bytes, and how they are read back.  All *)
(* numbers are big endian and of fixed width; only the end of a record is  *)
(* as long as its data.                                                    *)
(***************************************************************************)
EXTENDS Keys

CONSTANT Malformed   \* Err(DeserialiseError)

\* An error is neither an id, nor metadata, nor a list.
ASSUME ValuesAssumption ==
  Malformed \notin Key \cup [basin_id : Key, stream_id : Key] \cup Seq(Key)

First(n, bytes) == SubSeq(bytes, 1, n)
From(n, bytes) == SubSeq(bytes, n, Len(bytes))

\* u64::from_be_bytes
Number(bytes) ==
  LET number[i \in 0 .. Len(bytes)] ==
        IF i = 0 THEN 0 ELSE number[i - 1] * (MaxByte + 1) + bytes[i]
  IN number[Len(bytes)]

\* An id: the value of a basin.
DeserialiseId(bytes) ==
  IF Len(bytes) < IdWidth THEN Malformed ELSE First(IdWidth, bytes)

SerialiseMetadata(md) == md.basin_id \o md.stream_id

DeserialiseMetadata(bytes) ==
  IF Len(bytes) < 2 * IdWidth THEN Malformed
  ELSE [basin_id  |-> First(IdWidth, bytes),
        stream_id |-> SubSeq(bytes, IdWidth + 1, 2 * IdWidth)]

SerialiseBlock(block) == SeqNumBytes(block.start) \o SeqNumBytes(block.block_size)

DeserialiseBlock(bytes) ==
  IF Len(bytes) < 2 * SeqNumWidth THEN Malformed
  ELSE [start      |-> Number(First(SeqNumWidth, bytes)),
        block_size |-> Number(SubSeq(bytes, SeqNumWidth + 1, 2 * SeqNumWidth))]

SerialiseRecord(r) == SeqNumBytes(r.seq_num) \o r.data

DeserialiseRecord(bytes) ==
  IF Len(bytes) < SeqNumWidth THEN Malformed
  ELSE [seq_num |-> Number(First(SeqNumWidth, bytes)),
        data    |-> From(SeqNumWidth + 1, bytes)]
=============================================================================
