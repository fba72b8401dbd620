------------------------------ MODULE KeySpace ------------------------------
(***************************************************************************)
(* The two databases as basins, streams and records fill them, read back   *)
(* by key and listed by prefix: Basin::load and list, Stream::load, list   *)
(* and read, over apply, get and scan_iter of the in-memory storage.       *)
(*                                                                         *)
(* What was put is kept beside the databases as it was meant, without      *)
(* keys, so that a key that stands for two things shows.                   *)
(***************************************************************************)
EXTENDS Values, FiniteSets, SequencesExt

CONSTANTS
  BasinIds, StreamIds,  \* the ids drawn
  Names,                \* the names requests give to basins and streams
  SeqNums,              \* the sequence numbers used
  Payloads,             \* the data of records
  BlockSize,            \* DEFAULT_BLOCK_SIZE
  MaxPuts               \* bound: the records a behaviour writes

ASSUME KeySpaceAssumption ==
  /\ BasinIds \cup StreamIds \subseteq Id
  /\ Names \subseteq Key /\ << >> \notin Names
  /\ SeqNums \subseteq SeqNum
  /\ Payloads \subseteq Key
  /\ MaxPuts \in Nat /\ BlockSize \in Nat /\ BlockSize * (MaxPuts + 1) \in SeqNum

VARIABLES
  meta,     \* meta_storage: values by key
  store,    \* record_storage: values by key
  basins,   \* history: the id of each basin, by name
  streams,  \* history: the id of each stream, by basin id and name
  blocks,   \* history: the block last put for each stream, by both ids
  records   \* history: the record put under each number, by both ids

vars == <<meta, store, basins, streams, blocks, records>>

\* apply of one record: a put.
Put(db, key, value) ==
  [k \in DOMAIN db \cup {key} |-> IF k = key THEN value ELSE db[k]]

\* get: the value, or Unbounded for None.
Get(db, key) == IF key \in DOMAIN db THEN db[key] ELSE Unbounded

LoadBasin(name) ==
  LET value == Get(meta, BasinKey(name))
  IN IF value = Unbounded THEN Unbounded ELSE DeserialiseId(value)

LoadMetadata(b, name) ==
  LET value == Get(meta, StreamKey(b, name))
  IN IF value = Unbounded THEN Unbounded ELSE DeserialiseMetadata(value)

LoadBlock(b, s) ==
  LET value == Get(store, BlockKey(b, s))
  IN IF value = Unbounded THEN Unbounded ELSE DeserialiseBlock(value)

Read(b, s, n) ==
  LET value == Get(store, RecordKey(b, s, n))
  IN IF value = Unbounded THEN Unbounded ELSE DeserialiseRecord(value)

InOrder(keys) == \A i, j \in DOMAIN keys : i < j => Less(keys[i], keys[j])

\* scan_iter: the keys of a range, in order.
Scan(db, range) ==
  LET found == {k \in DOMAIN db : InRange(range, k)}
  IN CHOOSE keys \in [1 .. Cardinality(found) -> found] : InOrder(keys)

\* What a scan finds, without its prefix.  The names are in order already, so
\* the sort that follows in the code keeps them as they are.
NamesUnder(prefix) ==
  LET found == Scan(meta, PrefixRange(prefix))
  IN [i \in DOMAIN found |-> From(Len(prefix) + 1, found[i])]

\* Both lists fail if a value of the range cannot be read.
ListBasins ==
  IF \E k \in ToSet(Scan(meta, PrefixRange(BasinPrefix))) :
       DeserialiseId(meta[k]) = Malformed
  THEN Malformed ELSE NamesUnder(BasinPrefix)

ListStreams(b) ==
  IF \E k \in ToSet(Scan(meta, PrefixRange(StreamPrefix(b)))) :
       DeserialiseMetadata(meta[k]) = Malformed
  THEN Malformed ELSE NamesUnder(StreamPrefix(b))

Init ==
  /\ meta = << >> /\ store = << >>
  /\ basins = << >> /\ streams = << >> /\ blocks = << >> /\ records = << >>

\* Basin::new draws an id that is nobody's.
NewBasin(name, b) ==
  /\ name \notin DOMAIN basins
  /\ \A n \in DOMAIN basins : basins[n] # b
  /\ meta' = Put(meta, BasinKey(name), b)
  /\ basins' = Put(basins, name, b)
  /\ UNCHANGED <<store, streams, blocks, records>>

\* Stream::new: metadata, then the first block.
NewStream(b, name, s) ==
  /\ \E n \in DOMAIN basins : basins[n] = b
  /\ <<b, name>> \notin DOMAIN streams
  /\ \A k \in DOMAIN streams : streams[k] # s
  /\ streams' = Put(streams, <<b, name>>, s)
  /\ blocks' = Put(blocks, <<b, s>>, [start |-> 0, block_size |-> BlockSize])
  /\ meta' = Put(meta, StreamKey(b, name),
                 SerialiseMetadata([basin_id |-> b, stream_id |-> s]))
  /\ store' = Put(store, BlockKey(b, s), SerialiseBlock(blocks'[<<b, s>>]))
  /\ UNCHANGED <<basins, records>>

\* Stream::append of stream k: a record, and the next block if it rolls over.
\* The keys are built from the ids that Stream::load read in the metadata.
PutRecord(k, n, data, rolls) ==
  LET md == LoadMetadata(k[1], k[2])
      b == md.basin_id
      s == md.stream_id
      record == [seq_num |-> n, data |-> data]
      withRecord == Put(store, RecordKey(b, s, n), SerialiseRecord(record))
  IN /\ Cardinality(DOMAIN records) < MaxPuts
     /\ <<k[1], streams[k], n>> \notin DOMAIN records
     /\ records' = Put(records, <<k[1], streams[k], n>>, record)
     /\ IF rolls
        THEN /\ blocks' = [blocks EXCEPT ![<<k[1], streams[k]>>].start = @ + BlockSize]
             /\ store' = Put(withRecord, BlockKey(b, s),
                             SerialiseBlock(blocks'[<<k[1], streams[k]>>]))
        ELSE store' = withRecord /\ UNCHANGED blocks
     /\ UNCHANGED <<meta, basins, streams>>

Next ==
  \/ \E name \in Names, b \in BasinIds : NewBasin(name, b)
  \/ \E b \in BasinIds, name \in Names, s \in StreamIds : NewStream(b, name, s)
  \/ \E k \in DOMAIN streams, n \in SeqNums, data \in Payloads, rolls \in BOOLEAN :
       PutRecord(k, n, data, rolls)

Spec == Init /\ [][Next]_vars

-----------------------------------------------------------------------------
(* Properties. *)

\* Keys are byte strings, and there is one for each thing that was put.
TypeOK ==
  /\ DOMAIN meta \subseteq Key /\ DOMAIN store \subseteq Key
  /\ Cardinality(DOMAIN meta) = Cardinality(DOMAIN basins) + Cardinality(DOMAIN streams)
  /\ Cardinality(DOMAIN store) = Cardinality(DOMAIN blocks) + Cardinality(DOMAIN records)

\* Listing gives the names that were made, each once and in order, for every
\* basin, whatever bytes ids and names end in: every value there can be read.
ListsAreExact ==
  /\ ListBasins # Malformed
  /\ InOrder(ListBasins)
  /\ ToSet(ListBasins) = DOMAIN basins
  /\ \A b \in BasinIds :
       /\ ListStreams(b) # Malformed /\ InOrder(ListStreams(b))
       /\ ToSet(ListStreams(b)) = {name \in Names : <<b, name>> \in DOMAIN streams}

\* A basin and a stream are found by their names, a block by its stream and a
\* record by its stream and number, as they were put; nothing else is found
\* under their keys.
GetsAreExact ==
  /\ \A name \in Names :
       LoadBasin(name) = IF name \in DOMAIN basins THEN basins[name] ELSE Unbounded
  /\ \A b \in BasinIds, name \in Names :
       LoadMetadata(b, name) =
         IF <<b, name>> \in DOMAIN streams
         THEN [basin_id |-> b, stream_id |-> streams[<<b, name>>]] ELSE Unbounded
  /\ \A b \in BasinIds, s \in StreamIds :
       LoadBlock(b, s) = IF <<b, s>> \in DOMAIN blocks THEN blocks[<<b, s>>] ELSE Unbounded
  /\ \A b \in BasinIds, s \in StreamIds, n \in SeqNums :
       Read(b, s, n) = IF <<b, s, n>> \in DOMAIN records
                       THEN records[<<b, s, n>>] ELSE Unbounded
=============================================================================
