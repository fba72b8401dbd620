-------------------------- MODULE Directory_proofs --------------------------
(***************************************************************************)
(* What requests find in the directory, for every number of requests,      *)
(* basins and streams, whatever fails, is dropped or stops.                *)
(*                                                                         *)
(* Ids tie everything together: each was drawn for one key, and what is    *)
(* stored, cached, held by a request or on its way to storage claims that  *)
(* key for it.  MemoryInv says so, and who holds the locks; it holds for   *)
(* any number of late writes.  If at most one write outlives its handler,  *)
(* all that is relied upon agrees with storage (StorageInv): the key of a  *)
(* late write is not stored, and a writer is alone with its key.           *)
(***************************************************************************)
EXTENDS Directory, SequenceTheorems, FiniteSetTheorems, TLAPS

-----------------------------------------------------------------------------
(* The inductive invariant. *)

\* The awaits at which a request holds basin_init, stream_init, a handle.
BasinLocked == {"load_basin", "new_basin", "cache_basin"}
StreamLocked == {"load_metadata", "load_block", "new_metadata", "new_block", "cache_stream"}
OnStream == StreamLocked \cup {"find_stream", "lock_stream"}
WithHandle == OnStream \cup {"scan_streams"}

\* A request runs with the names its kind needs, at awaits of its kind.
NamesFit(r) ==
  req[r].pc \in Running =>
    /\ req[r].kind = "list_basins" <=> At(r, "scan_basins")
    /\ req[r].kind # "list_basins" => req[r].basin \in Basins
    /\ req[r].kind \in {"append", "read"} => req[r].stream \in Streams
    /\ req[r].pc \in OnStream => req[r].kind \in {"append", "read"}

\* Locks exclude, and what is made under one is still missing.
LocksHeld(r) ==
  /\ req[r].pc \in BasinLocked <=> basinInit = r
  /\ req[r].pc \in BasinLocked => cached[req[r].basin] = 0
  /\ req[r].pc \in WithHandle =>
       req[r].handle \in DOMAIN handles /\ cached[req[r].basin] = req[r].handle
  /\ req[r].pc \in StreamLocked =>
       Mine(r).stream_init = r /\ Mine(r).streams[req[r].stream] = 0

\* The ids and actors a request works with were drawn and spawned.
IdsHeld(r) ==
  /\ req[r].pc \in {"cache_basin", "load_block", "new_block", "cache_stream"} =>
       req[r].id \in 1 .. lastId
  /\ req[r].pc \notin {"cache_stream", "ok"} => req[r].actor = 0
  /\ At(r, "cache_stream") =>
       req[r].actor \in DOMAIN actors /\ actors[req[r].actor] = req[r].id
  /\ At(r, "ok") /\ req[r].actor # 0 =>
       \E h \in DOMAIN handles, s \in Streams : handles[h].streams[s] = req[r].actor

RequestInv(r) == NamesFit(r) /\ LocksHeld(r) /\ IdsHeld(r)

\* There is one handle for each cached basin, of an id that was drawn, with
\* actors that were spawned.
HandlesCached ==
  /\ \A h \in DOMAIN handles : \E b \in Basins : cached[b] = h
  /\ \A b, c \in Basins : cached[b] = cached[c] /\ cached[b] # 0 => b = c
  /\ \A h \in DOMAIN handles :
       /\ handles[h].basin_id \in 1 .. lastId
       /\ \A s \in Streams : handles[h].streams[s] \in 0 .. Len(actors)

GivenTyped ==
  given \subseteq [basin : Basins, stream : Streams,
                   basin_id : 1 .. lastId, stream_id : 1 .. lastId]

\* Memory takes id for what the key names: it is cached, or a request that
\* makes or loads it is about to cache it.
Remembers(key, id) ==
  \/ \E b \in Basins : key = b /\ cached[b] # 0 /\ id = handles[cached[b]].basin_id
  \/ \E h \in DOMAIN handles, s \in Streams :
       /\ handles[h].streams[s] # 0
       /\ key = <<handles[h].basin_id, s>> /\ id = actors[handles[h].streams[s]]
  \/ \E r \in Requests : At(r, "cache_basin") /\ key = req[r].basin /\ id = req[r].id
  \/ \E r \in Requests : /\ req[r].pc \in {"load_block", "new_block", "cache_stream"}
                         /\ key = Key(r) /\ id = req[r].id

Stores(key, id) == key \in DOMAIN meta /\ meta[key] = id

\* Storage has, or will have, or memory takes id for what the key names.
Claims(key, id) ==
  \/ Stores(key, id)
  \/ \E n \in DOMAIN late : late[n].key = key /\ late[n].id = id
  \/ Remembers(key, id)

\* An id was drawn for one key only.
OneKeyPerId ==
  /\ \A k, l, i : Claims(k, i) /\ Claims(l, i) => k = l
  /\ \A k, i : Claims(k, i) => i \in 1 .. lastId

MemoryInv ==
  /\ TypeOK /\ basinInit \in Requests \cup {0}
  /\ \A r \in Requests : RequestInv(r)
  /\ HandlesCached
  /\ GivenTyped
  /\ OneKeyPerId

\* An append was given id for what the key names.
WasGiven(key, id) ==
  \E g \in given : \/ key = g.basin /\ id = g.basin_id
                   \/ key = <<g.basin_id, g.stream>> /\ id = g.stream_id

\* A write outlived its handler, in this process or before.
LateSpent == \E r \in Requests : At(r, "dropped") /\ req[r].id # 0

\* A late write is the only one, and its key is not stored.
LateIsNew ==
  /\ late # << >> => LateSpent
  /\ Len(late) <= 1
  /\ \A n \in DOMAIN late : late[n].key \notin DOMAIN meta

\* What a request is about to make was never given, and is stored at most by a
\* late write.
WritersMakeNew ==
  \A r \in Requests, key \in Keys : Writes(r, key) =>
    /\ \A id : ~WasGiven(key, id)
    /\ key \notin DOMAIN meta \/ LateSpent

\* What is relied upon is what storage has.
StorageAgrees ==
  \A key, id : Remembers(key, id) \/ WasGiven(key, id) => Stores(key, id)

\* What a request knew of had been given.
KnownWasGiven(r) ==
  req[r].pc \in Running =>
    IF req[r].kind = "list_basins"
    THEN req[r].known \subseteq {g.basin : g \in given}
    ELSE req[r].known \subseteq {g.stream : g \in {h \in given : h.basin = req[r].basin}}

StorageInv ==
  /\ LateIsNew
  /\ WritersMakeNew
  /\ StorageAgrees
  /\ \A r \in Requests : KnownWasGiven(r)

-----------------------------------------------------------------------------
(* What the parts of the state are. *)

\* The types by themselves; the rest of TypeOK is about who holds the locks.
Typed ==
  /\ \A k \in DOMAIN meta : k \in Keys /\ meta[k] \in 1 .. lastId
  /\ late \in Seq(Write) /\ lastId \in Nat
  /\ cached \in [Basins -> 0 .. Len(handles)]
  /\ handles \in Seq(Handle)
  /\ actors \in Seq(1 .. lastId)
  /\ req \in [Requests -> Request]
  /\ basinInit \in Requests \cup {0}

\* A lock on streams is held by a request that works on one of them.
StreamInitOf(r) ==
  \A h \in DOMAIN handles : handles[h].stream_init = r =>
    req[r].handle = h /\ req[r].pc \in StreamLocked

LEMMA TypedFacts ==
  ASSUME MemoryInv
  PROVE  Typed /\ \A r \in Requests : StreamInitOf(r)
<1>1. Typed
  BY DEF MemoryInv, TypeOK, Typed, Write
<1>2. \A r \in Requests : r # 0
  BY DirectoryAssumption DEF Requests
<1>3. \A r \in Requests : StreamInitOf(r)
  BY <1>2 DEF MemoryInv, TypeOK, StreamInitOf, StreamLocked
<1> QED BY <1>1, <1>3

LEMMA TypeOKIs ==
  Typed /\ (\A r \in Requests : RequestInv(r) /\ StreamInitOf(r)) => TypeOK
<1> SUFFICES ASSUME Typed, \A r \in Requests : RequestInv(r) /\ StreamInitOf(r)
             PROVE  TypeOK
  OBVIOUS
<1>1. \A k \in DOMAIN meta : [key |-> k, id |-> meta[k]] \in Write
  BY DEF Typed, Write
<1>2. basinInit # 0 => req[basinInit].pc \in {"load_basin", "new_basin", "cache_basin"}
  BY DEF Typed, RequestInv, LocksHeld, BasinLocked
<1>3. \A h \in DOMAIN handles : handles[h].stream_init \in Requests \cup {0}
  <2>1. \A h \in DOMAIN handles : handles[h] \in Handle
    BY DEF Typed
  <2> QED BY <2>1 DEF Handle
<1>4. \A h \in DOMAIN handles : handles[h].stream_init # 0 =>
       LET r == handles[h].stream_init
       IN /\ req[r].handle = h
          /\ req[r].pc \in {"load_metadata", "load_block", "new_metadata",
                            "new_block", "cache_stream"}
  BY <1>3 DEF StreamInitOf, StreamLocked
<1> QED BY <1>1, <1>2, <1>4 DEF Typed, TypeOK

\* A handle in full.
LEMMA HandleFacts ==
  ASSUME Typed, NEW h \in DOMAIN handles
  PROVE  /\ handles[h] \in Handle /\ h \in Nat \ {0} /\ h <= Len(handles)
         /\ handles[h].streams \in [Streams -> Nat]
         /\ handles[h].stream_init \in Requests \cup {0}
<1>1. handles \in Seq(Handle)
  BY DEF Typed
<1>2. handles[h] \in Handle /\ h \in 1 .. Len(handles) /\ Len(handles) \in Nat
  BY <1>1, LenProperties
<1> QED BY <1>2 DEF Handle

\* A request that holds basin_init is where it makes or loads its basin.
LEMMA RequestFacts ==
  ASSUME MemoryInv, NEW r \in Requests
  PROVE  /\ req[r] \in Request /\ RequestInv(r) /\ StreamInitOf(r) /\ Typed
         /\ r \in Nat \ {0} /\ 0 \notin DOMAIN handles
         /\ req[r].pc \in WithHandle =>
              /\ req[r].handle \in DOMAIN handles /\ req[r].stream \in Streams \cup {Blank}
              /\ Mine(r) \in Handle /\ Mine(r).basin_id \in 1 .. lastId
              /\ req[r].basin \in Basins
         /\ req[r].pc \in OnStream => req[r].stream \in Streams
         /\ req[r].pc \in BasinLocked \cup {"find_basin", "lock_basin"} => req[r].basin \in Basins
<1>1. /\ Typed /\ RequestInv(r) /\ StreamInitOf(r)
  BY TypedFacts DEF MemoryInv
<1>2. req[r] \in Request /\ r \in Nat \ {0}
  BY <1>1, DirectoryAssumption DEF Typed, Requests
<1>3. \A h \in DOMAIN handles : h # 0 /\ handles[h] \in Handle
  BY <1>1, HandleFacts
<1>4. req[r].pc \in Running /\ req[r].pc # "scan_basins" => req[r].basin \in Basins
  BY <1>1 DEF RequestInv, NamesFit, At
<1>5. req[r].pc \in OnStream => req[r].stream \in Streams
  BY <1>1 DEF RequestInv, NamesFit, OnStream, StreamLocked, Running, Storing
<1>6. req[r].pc \in WithHandle => req[r].handle \in DOMAIN handles /\ req[r].pc \in Running
                                  /\ req[r].pc # "scan_basins"
  BY <1>1 DEF RequestInv, LocksHeld, WithHandle, OnStream, StreamLocked, Running, Storing
<1>7. req[r].pc \in WithHandle => Mine(r) \in Handle /\ Mine(r).basin_id \in 1 .. lastId
  BY <1>3, <1>6 DEF Mine, MemoryInv, HandlesCached
<1>8. req[r].stream \in Streams \cup {Blank}
  BY <1>2 DEF Request
<1> QED
  BY <1>1, <1>2, <1>3, <1>4, <1>5, <1>6, <1>7, <1>8 DEF BasinLocked, Running, Storing

-----------------------------------------------------------------------------
(* What a step does to storage. *)

Handler(r) ==
  \/ AppendArrives(r) \/ ReadArrives(r) \/ ListBasinsArrives(r) \/ ListStreamsArrives(r)
  \/ Advance(r) \/ StorageError(r) \/ Drop(r) \/ DropWriting(r)

\* A writer's put is made, or left to be late.
PutsNow(r) == \E key : Writes(r, key) /\ PutNewId(key)

PutsLate(r) ==
  /\ Cardinality({q \in Requests : At(q, "dropped") /\ req[q].id # 0}) < MaxLate
  /\ req'[r].pc = "dropped" /\ req'[r].id = lastId + 1
  /\ lastId' = lastId + 1 /\ meta' = meta
  /\ \E key : Writes(r, key) /\ late' = Append(late, [key |-> key, id |-> lastId + 1])

\* After a step of its own a writer writes no more.
LEMMA HandlerStores ==
  ASSUME Typed, NEW r \in Requests, Handler(r)
  PROVE  \/ UNCHANGED stored
         \/ (PutsNow(r) \/ PutsLate(r)) /\ req'[r].pc \notin {"new_basin", "new_metadata"}
<1>0. req \in [Requests -> Request]
  BY DEF Typed
<1>1. ASSUME NEW kind, NEW basin, NEW stream, Arrive(r, kind, basin, stream)
      PROVE  UNCHANGED stored
  BY <1>1 DEF Arrive
<1>2. ASSUME NEW key, Writes(r, key), PutNewId(key), NEW pc \in {"cache_basin", "new_block"},
             req' = [req EXCEPT ![r].id = lastId', ![r].pc = pc]
      PROVE  PutsNow(r) /\ req'[r].pc \notin {"new_basin", "new_metadata"}
  BY <1>0, <1>2 DEF PutsNow
<1>6. CASE NewBasin(r)
  <2>1. Writes(r, req[r].basin)
    BY <1>6 DEF NewBasin, Writes
  <2> QED BY <1>2, <1>6, <2>1 DEF NewBasin
<1>7. CASE NewMetadata(r)
  <2>1. Writes(r, Key(r))
    BY <1>7 DEF NewMetadata, Writes
  <2> QED BY <1>2, <1>7, <2>1 DEF NewMetadata
<1>3. CASE StorageError(r) \/ Drop(r)
  <2>1. UNCHANGED stored \/ PutsNow(r)
    BY <1>3 DEF StorageError, Drop, PutsNow
  <2>2. req'[r].pc \notin {"new_basin", "new_metadata"}
    BY <1>0, <1>3 DEF StorageError, Drop, End, Status, NotArrived
  <2> QED BY <2>1, <2>2
<1>4. CASE DropWriting(r)
  <2>1. req'[r].pc = "dropped" /\ req'[r].id = lastId'
    BY <1>0, <1>4 DEF DropWriting, NotArrived
  <2> QED BY <1>4, <2>1 DEF DropWriting, PutsLate
<1>5. CASE \/ FindBasin(r) \/ LockBasin(r) \/ LoadBasin(r) \/ CacheBasin(r) \/ FindStream(r)
           \/ LockStream(r) \/ LoadMetadata(r) \/ LoadBlock(r) \/ NewBlock(r) \/ CacheStream(r)
           \/ ScanBasins(r) \/ ScanStreams(r)
  BY <1>5
     DEF FindBasin, LockBasin, LoadBasin, CacheBasin, FindStream, LockStream, LoadMetadata,
         LoadBlock, NewBlock, CacheStream, ScanBasins, ScanStreams
<1> QED
  BY <1>1, <1>3, <1>4, <1>5, <1>6, <1>7
     DEF Handler, Advance, AppendArrives, ReadArrives, ListBasinsArrives, ListStreamsArrives

\* A key that a request writes is one of meta_storage.
LEMMA WritesKeys ==
  ASSUME MemoryInv, NEW r \in Requests, NEW key, Writes(r, key)
  PROVE  key \in Keys
BY RequestFacts
   DEF Writes, At, Keys, Key, BasinLocked, WithHandle, OnStream, StreamLocked

\* Storage stays typed.
LEMMA StorageTyped ==
  ASSUME MemoryInv, [Next]_vars
  PROVE  /\ \A k \in DOMAIN meta' : k \in Keys' /\ meta'[k] \in 1 .. lastId'
         /\ late' \in Seq(Write') /\ lastId' \in Nat
         /\ lastId' \in {lastId, lastId + 1}
<1>0. Typed /\ lastId \in Nat /\ late \in Seq(Write)
  BY TypedFacts DEF Typed
\* Keys and writes only become more.
<1>1. ASSUME lastId' = lastId + 1
      PROVE  Keys \subseteq Keys' /\ Write \subseteq Write' /\ lastId' \in 1 .. lastId'
             /\ 1 .. lastId \subseteq 1 .. lastId'
  <2>1. 1 .. lastId \subseteq 1 .. lastId' /\ lastId' \in 1 .. lastId'
    BY <1>0, <1>1
  <2>2. Keys \subseteq Keys'
    BY <2>1 DEF Keys
  <2> QED BY <2>1, <2>2 DEF Write
<1>2. lastId' = lastId => Keys' = Keys /\ Write' = Write
  BY DEF Keys, Write
<1>3. CASE UNCHANGED stored
  BY <1>0, <1>2, <1>3 DEF stored, Typed
<1>4. ASSUME NEW r \in Requests, PutsNow(r)
      PROVE  /\ \A k \in DOMAIN meta' : k \in Keys' /\ meta'[k] \in 1 .. lastId'
             /\ late' \in Seq(Write') /\ lastId' = lastId + 1
  <2>1. PICK key \in Keys : PutNewId(key)
    BY <1>4, WritesKeys DEF PutsNow
  <2>2. /\ meta' = [k \in DOMAIN meta \cup {key} |-> IF k = key THEN lastId' ELSE meta[k]]
        /\ late = << >> /\ late' = late /\ lastId' = lastId + 1
    BY <2>1 DEF PutNewId, Put
  <2> QED BY <1>0, <1>1, <2>1, <2>2, EmptySeq DEF Typed
<1>5. ASSUME NEW r \in Requests, PutsLate(r)
      PROVE  /\ \A k \in DOMAIN meta' : k \in Keys' /\ meta'[k] \in 1 .. lastId'
             /\ late' \in Seq(Write') /\ lastId' = lastId + 1
  <2>1. PICK key \in Keys : /\ late' = Append(late, [key |-> key, id |-> lastId + 1])
                            /\ lastId' = lastId + 1 /\ meta' = meta
    BY <1>5, WritesKeys DEF PutsLate
  <2>2. [key |-> key, id |-> lastId + 1] \in Write'
    BY <1>1, <2>1 DEF Write
  <2>3. late \in Seq(Write')
    <3>1. /\ Len(late) \in Nat /\ late \in [1 .. Len(late) -> Write]
      BY <1>0, LenProperties
    <3>2. late \in [1 .. Len(late) -> Write']
      BY <1>1, <2>1, <3>1
    <3> QED BY <3>1, <3>2, IsASeq
  <2>4. late' \in Seq(Write')
    BY <2>1, <2>2, <2>3, AppendProperties
  <2> QED BY <1>0, <1>1, <2>1, <2>4 DEF Typed
<1>6. CASE LateWrite
  <2>1. /\ meta' = [k \in DOMAIN meta \cup {Head(late).key} |->
                      IF k = Head(late).key THEN Head(late).id ELSE meta[k]]
        /\ late' = Tail(late) /\ late # << >> /\ lastId' = lastId
    BY <1>6 DEF LateWrite, Put
  <2>2. late' \in Seq(Write) /\ Head(late) \in Write
    BY <1>0, <2>1, HeadTailProperties
  <2>3. Head(late).key \in Keys /\ Head(late).id \in 1 .. lastId
    BY <2>2 DEF Write
  <2> QED BY <1>0, <1>2, <2>1, <2>2, <2>3 DEF Typed
<1>7. CASE Crash
  BY <1>0, <1>2, <1>7, EmptySeq DEF Crash, Typed
<1>8. \/ UNCHANGED stored \/ LateWrite \/ Crash
      \/ \E r \in Requests : PutsNow(r) \/ PutsLate(r)
  BY <1>0, HandlerStores DEF Next, vars, Handler, AllEnded
<1> QED BY <1>0, <1>3, <1>4, <1>5, <1>6, <1>7, <1>8

-----------------------------------------------------------------------------
(* What a step does to the requests. *)

\* Only one request moves, to another record of its type.
MovesTo(r, rec) == rec \in Request /\ req' = [req EXCEPT ![r] = rec]

Moves(r) == \E rec : MovesTo(r, rec)

\* A request changed in its handle, id, actor or await.
LEMMA PartMoves ==
  ASSUME Typed, NEW r \in Requests, NEW handle \in Nat, NEW id \in Nat, NEW actor \in Nat,
         NEW pc \in {"new"} \cup Running \cup Ended,
         req' = [req EXCEPT ![r].handle = handle, ![r].id = id, ![r].actor = actor, ![r].pc = pc]
  PROVE  Moves(r)
<1> DEFINE rec == [req[r] EXCEPT !.handle = handle, !.id = id, !.actor = actor, !.pc = pc]
<1>1. req[r] \in Request
  BY DEF Typed
<1>2. rec \in Request
  <2> HIDE DEF Running, Ended, Kinds
  <2> QED BY <1>1 DEF Request
<1>3. req' = [req EXCEPT ![r] = rec]
  OBVIOUS
<1> QED BY <1>2, <1>3 DEF Moves, MovesTo

\* The record a request ends with.
LEMMA EndMoves ==
  ASSUME Typed, NEW r \in Requests, NEW pc \in Ended, NEW id \in Nat, NEW actor \in Nat,
         NEW rec \in {[NotArrived EXCEPT !.pc = pc], [NotArrived EXCEPT !.pc = pc, !.id = id],
                      [NotArrived EXCEPT !.pc = pc, !.actor = actor]},
         req' = [req EXCEPT ![r] = rec]
  PROVE  Moves(r)
<1>1. NotArrived \in Request
  <2> HIDE DEF Running, Ended
  <2> QED BY DEF Request, NotArrived, Kinds
<1>2. rec \in Request
  <2> HIDE DEF Running, Ended, Kinds, NotArrived
  <2> QED BY <1>1 DEF Request
<1> QED BY <1>2 DEF Moves, MovesTo

LEMMA ArriveMoves ==
  ASSUME MemoryInv, NEW r \in Requests, NEW kind \in Kinds,
         NEW basin \in Basins \cup {Blank}, NEW stream \in Streams \cup {Blank},
         Arrive(r, kind, basin, stream)
  PROVE  Moves(r)
<1>0. Typed /\ req[r] \in Request
  BY RequestFacts
<1>1. CASE NamesValid(kind, basin, stream)
  <2> DEFINE known == IF kind = "list_basins" THEN {g.basin : g \in given}
                      ELSE {g.stream : g \in {h \in given : h.basin = basin}}
             pc == IF kind = "list_basins" THEN "scan_basins" ELSE "find_basin"
             rec == [req[r] EXCEPT !.kind = kind, !.basin = basin, !.stream = stream,
                                   !.known = known, !.pc = pc]
  <2>1. known \in SUBSET (Basins \cup Streams)
    BY DEF MemoryInv, GivenTyped
  <2>2. pc \in {"new"} \cup Running \cup Ended
    BY DEF Running, Storing
  <2>3. rec \in Request
    <3> HIDE DEF known, pc
    <3> HIDE DEF Running, Ended, Kinds
    <3> QED BY <1>0, <2>1, <2>2 DEF Request
  <2>4. req' = [req EXCEPT ![r] = rec]
    BY <1>1 DEF Arrive
  <2> QED BY <2>3, <2>4 DEF Moves, MovesTo
<1>2. CASE ~NamesValid(kind, basin, stream)
  <2>1. req' = [req EXCEPT ![r] = [NotArrived EXCEPT !.pc = "invalid_argument"]]
    BY <1>2 DEF Arrive, End, Status
  <2> QED BY <1>0, <2>1, EndMoves DEF Ended
<1> QED BY <1>1, <1>2

\* A step of a request that has its handle, or none, or ends.
LEMMA GoToMoves ==
  ASSUME Typed, NEW r \in Requests, NEW pc \in {"new"} \cup Running \cup Ended, GoTo(r, pc)
  PROVE  Moves(r)
<1>1. req[r] \in Request
  BY DEF Typed
<1>2. req[r].handle \in Nat /\ req[r].id \in Nat /\ req[r].actor \in Nat
  BY <1>1 DEF Request
<1>3. req' = [req EXCEPT ![r].handle = req[r].handle, ![r].id = req[r].id,
                         ![r].actor = req[r].actor, ![r].pc = pc]
  <2> HIDE DEF Running, Ended, Kinds
  <2> QED BY <1>1 DEF GoTo, Request
<1> QED BY <1>2, <1>3, PartMoves

LEMMA HasBasinMoves ==
  ASSUME Typed, NEW r \in Requests, NEW h \in Nat, HasBasin(r, h)
  PROVE  Moves(r)
<1> DEFINE pc == IF req[r].kind = "list_streams" THEN "scan_streams" ELSE "find_stream"
<1>1. req[r] \in Request
  BY DEF Typed
<1>2. req[r].id \in Nat /\ req[r].actor \in Nat
  BY <1>1 DEF Request
<1>3. req' = [req EXCEPT ![r].handle = h, ![r].id = req[r].id,
                         ![r].actor = req[r].actor, ![r].pc = pc]
  <2>1. req' = [req EXCEPT ![r].handle = h, ![r].pc = pc]
    BY DEF HasBasin
  <2> HIDE DEF Running, Ended, Kinds, pc
  <2> QED BY <1>1, <2>1 DEF Request
<1>4. pc \in Running
  BY DEF Running, Storing
<1> HIDE DEF pc
<1> QED BY <1>2, <1>3, <1>4, PartMoves

LEMMA HasStreamMoves ==
  ASSUME Typed, NEW r \in Requests, NEW a \in Nat, HasStream(r, a)
  PROVE  Moves(r)
<1> QED BY EndMoves DEF HasStream, Ended

\* ... that reads or draws an id and goes on.
LEMMA IdMoves ==
  ASSUME Typed, NEW r \in Requests, NEW id \in Nat, NEW pc \in Running,
         req' = [req EXCEPT ![r].id = id, ![r].pc = pc]
  PROVE  Moves(r)
<1> DEFINE rec == [req[r] EXCEPT !.id = id, !.pc = pc]
<1>1. req[r] \in Request
  BY DEF Typed
<1>2. rec \in Request
  <2> HIDE DEF Running, Ended, Kinds
  <2> QED BY <1>1 DEF Request
<1>3. req' = [req EXCEPT ![r] = rec]
  OBVIOUS
<1> QED BY <1>2, <1>3 DEF Moves, MovesTo

LEMMA SpawnMoves ==
  ASSUME Typed, NEW r \in Requests, NEW id \in 1 .. lastId, Spawn(r, id)
  PROVE  Moves(r) /\ actors' \in Seq(1 .. lastId) /\ Len(actors') = Len(actors) + 1
<1>1. req[r] \in Request /\ lastId \in Nat
  BY DEF Typed
<1>2. actors' \in Seq(1 .. lastId) /\ Len(actors') = Len(actors) + 1 /\ Len(actors') \in Nat
  BY AppendProperties, LenProperties DEF Spawn, Typed
<1>3. req[r].handle \in Nat /\ id \in Nat
  BY <1>1 DEF Request
<1>4. req' = [req EXCEPT ![r].handle = req[r].handle, ![r].id = id,
                         ![r].actor = Len(actors'), ![r].pc = "cache_stream"]
  <2> HIDE DEF Running, Ended, Kinds
  <2> QED BY <1>1 DEF Spawn, Request
<1> QED BY <1>2, <1>3, <1>4, PartMoves DEF Running

LEMMA EndNotFoundMoves ==
  ASSUME Typed, NEW r \in Requests, EndNotFound(r, "NotFound")
  PROVE  Moves(r)
<1>1. req[r] \in Request
  BY DEF Typed
<1>2. req[r].actor \in Nat
  BY <1>1 DEF Request
<1>3. req' = [req EXCEPT ![r].handle = 0, ![r].id = 0,
                         ![r].actor = req[r].actor, ![r].pc = "not_found"]
  <2> HIDE DEF Running, Ended, Kinds
  <2> QED BY <1>1 DEF EndNotFound, Status, Request
<1> QED BY <1>2, <1>3, PartMoves DEF Ended

-----------------------------------------------------------------------------
(* What a step does to memory. *)

LEMMA MovesFacts ==
  ASSUME Typed, NEW r \in Requests, Moves(r)
  PROVE  /\ req' \in [Requests -> Request]
         /\ \A q \in Requests \ {r} : req'[q] = req[q]
BY DEF Typed, Moves, MovesTo

MemoryTyped ==
  /\ cached \in [Basins -> 0 .. Len(handles)]
  /\ handles \in Seq(Handle)
  /\ actors \in Seq(1 .. lastId)
  /\ basinInit \in Requests \cup {0}

\* A request adds to memory what is missing there, and only under its lock; it
\* takes locks that are free and returns those it has.
Grows(r) ==
  /\ \A q \in Requests \ {r} : req'[q] = req[q] /\ (basinInit' = q <=> basinInit = q)
  /\ lastId' \in {lastId, lastId + 1}
  /\ \A b \in Basins : cached[b] # 0 \/ basinInit # r => cached'[b] = cached[b]
  /\ DOMAIN handles \subseteq DOMAIN handles'
  /\ \A h \in DOMAIN handles' \ DOMAIN handles : handles'[h].stream_init = 0
  /\ \A h \in DOMAIN handles :
       /\ handles'[h].basin_id = handles[h].basin_id
       /\ \A q \in Requests \ {r} :
            handles'[h].stream_init = q <=> handles[h].stream_init = q
       /\ \A s \in Streams : handles[h].streams[s] # 0 \/ handles[h].stream_init # r
            => handles'[h].streams[s] = handles[h].streams[s]
  /\ DOMAIN actors \subseteq DOMAIN actors'
  /\ \A a \in DOMAIN actors : actors'[a] = actors[a]

\* The requests that do not move keep what they have.
LEMMA OthersKeep ==
  ASSUME MemoryInv, NEW r \in Requests, Grows(r), NEW q \in Requests \ {r}
  PROVE  RequestInv(q)' /\ StreamInitOf(q)'
<1>1. /\ RequestInv(q) /\ StreamInitOf(q) /\ Typed /\ q \in Nat \ {0} /\ q # r
      /\ 0 \notin DOMAIN handles /\ req[q] \in Request
      /\ req[q].pc \in WithHandle => req[q].basin \in Basins
      /\ req[q].pc \in OnStream => req[q].stream \in Streams
      /\ req[q].pc \in BasinLocked => req[q].basin \in Basins
  BY RequestFacts
<1>2. req'[q] = req[q] /\ (basinInit' = q <=> basinInit = q)
  BY DEF Grows
<1>3. NamesFit(q)'
  BY <1>1, <1>2 DEF RequestInv, NamesFit, At
<1>4. req[q].pc \in StreamLocked => req[q].pc \in WithHandle /\ req[q].pc \in OnStream
  BY DEF WithHandle, OnStream
<1>5. LocksHeld(q)'
  <2>1. req[q].pc \in BasinLocked => basinInit # r /\ cached[req[q].basin] = 0
    BY <1>1 DEF RequestInv, LocksHeld
  <2>2. req[q].pc \in BasinLocked => cached'[req[q].basin] = 0
    BY <1>1, <2>1 DEF Grows
  <2>3. req[q].pc \in WithHandle =>
          req[q].handle \in DOMAIN handles' /\ cached'[req[q].basin] = req[q].handle
    BY <1>1 DEF RequestInv, LocksHeld, Grows
  <2>4. req[q].pc \in StreamLocked =>
          /\ req[q].handle \in DOMAIN handles
          /\ handles[req[q].handle].stream_init = q
          /\ handles[req[q].handle].streams[req[q].stream] = 0
    BY <1>1, <1>4 DEF RequestInv, LocksHeld, Mine
  <2>5. req[q].pc \in StreamLocked =>
          /\ handles'[req[q].handle].stream_init = q
          /\ handles'[req[q].handle].streams[req[q].stream] = 0
    BY <1>1, <1>4, <2>4 DEF Grows
  <2> QED BY <1>1, <1>2, <2>1, <2>2, <2>3, <2>5 DEF RequestInv, LocksHeld, Mine
<1>6. IdsHeld(q)'
  <2>1. lastId \in Nat /\ lastId' \in {lastId, lastId + 1}
    BY <1>1 DEF Typed, Grows
  <2>2. \A i \in 1 .. lastId : i \in 1 .. lastId'
    BY <2>1
  <2>3. At(q, "ok") /\ req[q].actor # 0 =>
          \E h \in DOMAIN handles', s \in Streams : handles'[h].streams[s] = req[q].actor
    BY <1>1 DEF RequestInv, IdsHeld, Grows
  <2> QED BY <1>1, <1>2, <2>2, <2>3 DEF RequestInv, IdsHeld, Grows, At
<1>7. StreamInitOf(q)'
  <2>1. \A h \in DOMAIN handles' : handles'[h].stream_init = q =>
          h \in DOMAIN handles /\ handles[h].stream_init = q
    BY <1>1 DEF Grows
  <2> QED BY <1>1, <1>2, <2>1 DEF StreamInitOf
<1> QED BY <1>3, <1>5, <1>6, <1>7 DEF RequestInv

\* The lock of a request is returned, if it has one.
LEMMA Released ==
  ASSUME Typed, NEW r \in Requests
  PROVE  /\ ReleaseStreamInit(r) \in Seq(Handle)
         /\ DOMAIN ReleaseStreamInit(r) = DOMAIN handles
         /\ Len(ReleaseStreamInit(r)) = Len(handles)
         /\ \A h \in DOMAIN handles :
              /\ ReleaseStreamInit(r)[h].basin_id = handles[h].basin_id
              /\ ReleaseStreamInit(r)[h].streams = handles[h].streams
              /\ ReleaseStreamInit(r)[h].stream_init =
                   IF handles[h].stream_init = r THEN 0 ELSE handles[h].stream_init
<1> DEFINE R == ReleaseStreamInit(r)
           Free(h) == [handles[h] EXCEPT !.stream_init = 0]
<1>1. Len(handles) \in Nat /\ DOMAIN handles = 1 .. Len(handles)
  BY LenProperties DEF Typed
<1>2. ASSUME NEW h \in DOMAIN handles
      PROVE  handles[h] \in Handle /\ Free(h) \in Handle
  <2>1. handles[h] \in Handle
    BY <1>2, HandleFacts
  <2> QED BY <2>1 DEF Handle
<1>3. R = [h \in 1 .. Len(handles) |-> IF handles[h].stream_init = r THEN Free(h) ELSE handles[h]]
  BY <1>1 DEF ReleaseStreamInit
<1>4. R \in [1 .. Len(handles) -> Handle]
  <2> HIDE DEF Free, R
  <2> QED BY <1>1, <1>2, <1>3
<1>5. R \in Seq(Handle) /\ Len(R) = Len(handles) /\ DOMAIN R = DOMAIN handles
  <2> HIDE DEF R
  <2> QED BY <1>1, <1>4, LenProperties
<1>6. ASSUME NEW h \in DOMAIN handles
      PROVE  /\ R[h].basin_id = handles[h].basin_id
             /\ R[h].streams = handles[h].streams
             /\ R[h].stream_init = IF handles[h].stream_init = r THEN 0 ELSE handles[h].stream_init
  BY <1>1, <1>2, <1>3 DEF Handle
<1> QED BY <1>5, <1>6

\* A lock on streams is taken.
LEMMA Taken ==
  ASSUME Typed, NEW r \in Requests, NEW h \in DOMAIN handles,
         handles' = [handles EXCEPT ![h].stream_init = r]
  PROVE  /\ handles' \in Seq(Handle)
         /\ Len(handles') = Len(handles) /\ DOMAIN handles' = DOMAIN handles
         /\ \A g \in DOMAIN handles :
              /\ handles'[g].basin_id = handles[g].basin_id
              /\ handles'[g].streams = handles[g].streams
              /\ handles'[g].stream_init = IF g = h THEN r ELSE handles[g].stream_init
<1> DEFINE rec == [handles[h] EXCEPT !.stream_init = r]
<1>1. handles[h] \in Handle /\ handles \in Seq(Handle) /\ h \in 1 .. Len(handles)
      /\ DOMAIN handles = 1 .. Len(handles)
  BY HandleFacts, LenProperties DEF Typed
<1>2. rec \in Handle /\ handles' = [handles EXCEPT ![h] = rec]
  BY <1>1 DEF Handle
<1>3. rec.basin_id = handles[h].basin_id /\ rec.streams = handles[h].streams /\ rec.stream_init = r
  BY <1>1 DEF Handle
<1> HIDE DEF rec
<1>4. /\ handles' \in Seq(Handle) /\ Len(handles') = Len(handles)
      /\ \A g \in 1 .. Len(handles) : handles'[g] = IF g = h THEN rec ELSE handles[g]
  BY <1>1, <1>2, ExceptSeq
<1>5. DOMAIN handles' = DOMAIN handles
  BY <1>1, <1>4, LenProperties
<1> QED BY <1>1, <1>3, <1>4, <1>5

\* A step that changes nothing in memory but locks.
LEMMA LocksOnly ==
  ASSUME MemoryInv, NEW r \in Requests, Moves(r), lastId' \in {lastId, lastId + 1},
         cached' = cached, actors' = actors,
         \/ basinInit' = basinInit
         \/ basinInit' = r /\ basinInit = 0
         \/ basinInit' = 0 /\ basinInit = r,
         \/ handles' = handles
         \/ handles' = ReleaseStreamInit(r)
         \/ \E h \in DOMAIN handles : /\ handles[h].stream_init = 0
                                      /\ handles' = [handles EXCEPT ![h].stream_init = r]
  PROVE  Grows(r) /\ MemoryTyped' /\ HandlesCached'
<1>1. /\ Typed /\ lastId \in Nat /\ Len(handles) \in Nat /\ Len(actors) \in Nat
      /\ HandlesCached /\ 0 \notin Requests
  BY TypedFacts, LenProperties, DirectoryAssumption DEF Typed, MemoryInv, Requests
<1>2. /\ handles' \in Seq(Handle)
      /\ Len(handles') = Len(handles) /\ DOMAIN handles' = DOMAIN handles
      /\ \A h \in DOMAIN handles :
           /\ handles'[h].basin_id = handles[h].basin_id
           /\ handles'[h].streams = handles[h].streams
           /\ \/ handles'[h].stream_init = handles[h].stream_init
              \/ handles'[h].stream_init = r /\ handles[h].stream_init = 0
              \/ handles'[h].stream_init = 0 /\ handles[h].stream_init = r
  <2>1. CASE handles' = handles
    BY <1>1, <2>1 DEF Typed
  <2>2. CASE handles' = ReleaseStreamInit(r)
    BY <1>1, <2>2, Released
  <2>3. ASSUME NEW h \in DOMAIN handles, handles[h].stream_init = 0,
               handles' = [handles EXCEPT ![h].stream_init = r]
        PROVE  <1>2!1 /\ <1>2!2 /\ <1>2!3
    <3>1. /\ handles' \in Seq(Handle)
          /\ Len(handles') = Len(handles) /\ DOMAIN handles' = DOMAIN handles
          /\ \A g \in DOMAIN handles :
               /\ handles'[g].basin_id = handles[g].basin_id
               /\ handles'[g].streams = handles[g].streams
               /\ handles'[g].stream_init = IF g = h THEN r ELSE handles[g].stream_init
      BY ONLY <1>1, <2>3, Taken, h \in DOMAIN handles, r \in Requests
    <3> QED BY <2>3, <3>1
  <2> QED BY <2>1, <2>2, <2>3
<1>3. \A q \in Requests \ {r} : req'[q] = req[q] /\ q # 0 /\ q # r
  BY <1>1, MovesFacts
<1>4. Grows(r)
  BY <1>1, <1>2, <1>3 DEF Grows
<1>5. 1 .. lastId \subseteq 1 .. lastId'
  BY <1>1
<1>6. MemoryTyped'
  BY <1>1, <1>2, <1>5, SeqMonotonic DEF MemoryTyped, Typed
<1>7. HandlesCached'
  BY <1>1, <1>2, <1>5 DEF HandlesCached
<1> QED BY <1>4, <1>6, <1>7

LEMMA CacheBasinGrows ==
  ASSUME MemoryInv, NEW r \in Requests, CacheBasin(r)
  PROVE  /\ Moves(r) /\ Grows(r) /\ MemoryTyped' /\ HandlesCached'
         /\ RequestInv(r)' /\ StreamInitOf(r)'
<1> DEFINE b == req[r].basin
           n == Len(handles) + 1
           rec == [basin_id |-> req[r].id, streams |-> [s \in Streams |-> 0], stream_init |-> 0]
<1>1. /\ Typed /\ lastId \in Nat /\ Len(handles) \in Nat /\ Len(actors) \in Nat
      /\ HandlesCached /\ 0 \notin Requests /\ DOMAIN handles = 1 .. Len(handles)
      /\ cached \in [Basins -> 0 .. Len(handles)] /\ handles \in Seq(Handle)
  BY TypedFacts, LenProperties, DirectoryAssumption DEF Typed, MemoryInv, Requests
<1>2. /\ At(r, "cache_basin") /\ RequestInv(r) /\ StreamInitOf(r) /\ req[r] \in Request
      /\ b \in Basins
  BY RequestFacts DEF CacheBasin, At, BasinLocked
<1>3. basinInit = r /\ cached[b] = 0 /\ req[r].id \in 1 .. lastId
  BY <1>2 DEF RequestInv, LocksHeld, IdsHeld, BasinLocked, At
<1>4. rec \in Handle
  BY <1>1, <1>3 DEF Handle
<1>5. /\ handles' = Append(handles, rec) /\ HasBasin(r, Len(handles'))
      /\ cached' = [cached EXCEPT ![b] = Len(handles')]
      /\ basinInit' = 0 /\ lastId' = lastId /\ actors' = actors /\ lastId' = lastId
  BY <1>3 DEF CacheBasin, ReleaseBasinInit, stored
<1>6. rec.basin_id = req[r].id /\ rec.stream_init = 0 /\ \A s \in Streams : rec.streams[s] = 0
  OBVIOUS
<1> HIDE DEF rec, b
<1>7. /\ handles' \in Seq(Handle) /\ Len(handles') = n /\ DOMAIN handles' = 1 .. n
      /\ \A h \in 1 .. Len(handles) : handles'[h] = handles[h]
      /\ handles'[n] = rec
  <2>1. /\ handles' \in Seq(Handle) /\ Len(handles') = n
        /\ \A h \in 1 .. Len(handles) : handles'[h] = handles[h]
        /\ handles'[n] = rec
    BY <1>1, <1>4, <1>5, AppendProperties
  <2> QED BY <2>1, LenProperties
<1>8. n \in Nat \ {0} /\ n \notin DOMAIN handles /\ n \in DOMAIN handles'
      /\ DOMAIN handles' = DOMAIN handles \cup {n}
  BY <1>1, <1>7
<1>9. /\ cached'[b] = n
      /\ \A c \in Basins \ {b} : cached'[c] = cached[c]
  BY <1>1, <1>2, <1>5, <1>7
<1> HIDE DEF n
<1>10. Moves(r)
  BY <1>1, <1>5, <1>7, <1>8, HasBasinMoves
<1>11. \A q \in Requests \ {r} : req'[q] = req[q] /\ q # 0 /\ q # r
  BY <1>1, <1>10, MovesFacts
<1>12. Grows(r)
  <2>1. \A c \in Basins : cached[c] # 0 \/ basinInit # r => cached'[c] = cached[c]
    BY <1>3, <1>9
  <2>2. \A h \in DOMAIN handles' \ DOMAIN handles : handles'[h].stream_init = 0
    BY <1>6, <1>7, <1>8
  <2> QED BY <1>1, <1>3, <1>5, <1>7, <1>8, <1>11, <2>1, <2>2 DEF Grows
<1>13. cached' \in [Basins -> 0 .. Len(handles')]
  <2>1. \A m \in 0 .. Len(handles) : m \in 0 .. Len(handles')
    BY <1>1, <1>7 DEF n
  <2>2. Len(handles') \in 0 .. Len(handles')
    BY <1>7, <1>8
  <2> QED BY <1>1, <1>5, <2>1, <2>2
<1>14. MemoryTyped'
  BY <1>1, <1>5, <1>7, <1>13 DEF MemoryTyped, Typed
<1>15. HandlesCached'
  <2>1. \A h \in DOMAIN handles' : \E c \in Basins : cached'[c] = h
    <3>1. \A h \in DOMAIN handles : \E c \in Basins \ {b} : cached[c] = h
      BY <1>1, <1>3 DEF HandlesCached
    <3> QED BY <1>2, <1>8, <1>9, <3>1
  <2>2. \A c, d \in Basins : cached'[c] = cached'[d] /\ cached'[c] # 0 => c = d
    <3>1. \A c \in Basins : cached[c] # n
      BY <1>1 DEF n
    <3> QED BY <1>1, <1>9, <3>1 DEF HandlesCached
  <2>3. ASSUME NEW h \in DOMAIN handles'
        PROVE  /\ handles'[h].basin_id \in 1 .. lastId'
               /\ \A s \in Streams : handles'[h].streams[s] \in 0 .. Len(actors')
    <3>1. CASE h \in DOMAIN handles
      BY <1>1, <1>5, <1>7, <3>1 DEF HandlesCached
    <3>2. CASE h = n
      BY <1>1, <1>3, <1>5, <1>6, <1>7, <3>2
    <3> QED BY <1>8, <3>1, <3>2
  <2> QED BY <2>1, <2>2, <2>3 DEF HandlesCached
<1>16. /\ req'[r].pc \in {"scan_streams", "find_stream"}
       /\ req'[r].actor = req[r].actor
       /\ req'[r].pc = "scan_streams" <=> req[r].kind = "list_streams"
       /\ req'[r].handle = n /\ req'[r].basin = b /\ req'[r].kind = req[r].kind
       /\ req'[r].stream = req[r].stream
  BY <1>1, <1>2, <1>5, <1>7 DEF HasBasin, Request, Typed, b
<1>17. NamesFit(r)'
  <2>1. req[r].kind \in Kinds
    BY <1>2 DEF Request
  <2> QED BY <1>2, <1>16, <2>1
       DEF RequestInv, NamesFit, At, Running, Storing, OnStream, StreamLocked, Kinds
<1>18. LocksHeld(r)'
  BY <1>1, <1>5, <1>8, <1>9, <1>16
     DEF LocksHeld, BasinLocked, StreamLocked
<1>19. IdsHeld(r)'
  BY <1>2, <1>16 DEF RequestInv, IdsHeld, At
<1>20. StreamInitOf(r)'
  <2>1. \A h \in DOMAIN handles : handles[h].stream_init # r
    BY <1>2 DEF StreamInitOf, StreamLocked, At
  <2> QED BY <1>1, <1>6, <1>7, <1>8, <2>1 DEF StreamInitOf
<1> QED BY <1>10, <1>12, <1>14, <1>15, <1>17, <1>18, <1>19, <1>20 DEF RequestInv

LEMMA SpawnGrows ==
  ASSUME MemoryInv, NEW r \in Requests, LoadBlock(r) \/ NewBlock(r)
  PROVE  /\ Moves(r) /\ Grows(r) /\ MemoryTyped' /\ HandlesCached'
         /\ RequestInv(r)' /\ StreamInitOf(r)'
<1>1. /\ Typed /\ lastId \in Nat /\ Len(actors) \in Nat
      /\ HandlesCached /\ 0 \notin Requests /\ DOMAIN actors = 1 .. Len(actors)
      /\ actors \in Seq(1 .. lastId)
  BY TypedFacts, LenProperties, DirectoryAssumption DEF Typed, MemoryInv, Requests
<1>2. /\ req[r].pc \in {"load_block", "new_block"} /\ RequestInv(r) /\ StreamInitOf(r)
      /\ req[r] \in Request
  BY RequestFacts DEF LoadBlock, NewBlock, At
<1>3. req[r].id \in 1 .. lastId /\ req[r].pc \in StreamLocked /\ req[r].pc \in WithHandle
      /\ req[r].pc \in OnStream
  BY <1>2 DEF RequestInv, IdsHeld, StreamLocked, WithHandle, OnStream
<1>4. /\ Spawn(r, req[r].id) /\ actors' = Append(actors, req[r].id) /\ lastId' = lastId
      /\ cached' = cached /\ basinInit' = basinInit /\ handles' = handles
  BY DEF LoadBlock, NewBlock, Spawn, stored
<1>5. /\ Moves(r) /\ actors' \in Seq(1 .. lastId) /\ Len(actors') = Len(actors) + 1
  BY <1>1, <1>3, <1>4, SpawnMoves
<1>6. /\ DOMAIN actors' = 1 .. (Len(actors) + 1)
      /\ \A a \in 1 .. Len(actors) : actors'[a] = actors[a]
      /\ actors'[Len(actors) + 1] = req[r].id
  BY <1>1, <1>3, <1>4, <1>5, AppendProperties, LenProperties
<1>7. \A q \in Requests \ {r} : req'[q] = req[q] /\ q # 0 /\ q # r
  BY <1>1, <1>5, MovesFacts
<1>8. Grows(r)
  BY <1>1, <1>4, <1>6, <1>7 DEF Grows
<1>9. MemoryTyped'
  BY <1>1, <1>4, <1>5 DEF MemoryTyped, Typed
<1>10. HandlesCached'
  <2>1. \A n \in 0 .. Len(actors) : n \in 0 .. Len(actors')
    BY <1>1, <1>5
  <2> QED BY <1>1, <1>4, <2>1 DEF HandlesCached
<1>11. /\ req'[r].pc = "cache_stream" /\ req'[r].id = req[r].id
       /\ req'[r].actor = Len(actors) + 1 /\ req'[r].handle = req[r].handle
       /\ req'[r].kind = req[r].kind /\ req'[r].basin = req[r].basin
       /\ req'[r].stream = req[r].stream
  BY <1>1, <1>2, <1>4, <1>5 DEF Spawn, Request, Typed
<1>12. NamesFit(r)'
  BY <1>2, <1>3, <1>11
     DEF RequestInv, NamesFit, At, Running, Storing, OnStream, StreamLocked
<1>13. LocksHeld(r)'
  BY <1>2, <1>3, <1>4, <1>11
     DEF RequestInv, LocksHeld, BasinLocked, StreamLocked, WithHandle, OnStream, Mine
<1>14. IdsHeld(r)'
  BY <1>1, <1>3, <1>4, <1>6, <1>11 DEF IdsHeld, At
<1>15. StreamInitOf(r)'
  BY <1>2, <1>4, <1>11 DEF StreamInitOf, StreamLocked
<1> QED BY <1>5, <1>8, <1>9, <1>10, <1>12, <1>13, <1>14, <1>15 DEF RequestInv

LEMMA CacheStreamGrows ==
  ASSUME MemoryInv, NEW r \in Requests, CacheStream(r)
  PROVE  /\ Moves(r) /\ Grows(r) /\ MemoryTyped' /\ HandlesCached'
         /\ RequestInv(r)' /\ StreamInitOf(r)'
<1> DEFINE h == req[r].handle
           s == req[r].stream
           a == req[r].actor
           R == ReleaseStreamInit(r)
           rec == [R[h] EXCEPT !.streams[s] = a]
<1>1. /\ Typed /\ lastId \in Nat /\ Len(actors) \in Nat
      /\ HandlesCached /\ 0 \notin Requests /\ DOMAIN actors = 1 .. Len(actors)
      /\ actors \in Seq(1 .. lastId) /\ DOMAIN handles = 1 .. Len(handles)
      /\ Len(handles) \in Nat
  BY TypedFacts, LenProperties, DirectoryAssumption DEF Typed, MemoryInv, Requests
<1>2. /\ At(r, "cache_stream") /\ RequestInv(r) /\ StreamInitOf(r)
      /\ req[r] \in Request /\ s \in Streams /\ h \in DOMAIN handles
  BY RequestFacts DEF CacheStream, At, StreamLocked, WithHandle, OnStream
<1>3. /\ a \in DOMAIN actors /\ a \in Nat \ {0}
      /\ handles[h].stream_init = r /\ handles[h].streams[s] = 0
  BY <1>1, <1>2 DEF RequestInv, IdsHeld, LocksHeld, StreamLocked, Mine, At
<1>4. /\ R \in Seq(Handle) /\ DOMAIN R = DOMAIN handles /\ Len(R) = Len(handles)
      /\ \A g \in DOMAIN handles :
           /\ R[g].basin_id = handles[g].basin_id
           /\ R[g].streams = handles[g].streams
           /\ R[g].stream_init =
                IF handles[g].stream_init = r THEN 0 ELSE handles[g].stream_init
  BY <1>1, Released
<1>5. /\ handles' = [R EXCEPT ![h].streams[s] = a] /\ HasStream(r, a)
      /\ cached' = cached /\ basinInit' = basinInit /\ actors' = actors /\ lastId' = lastId
  BY DEF CacheStream, stored
<1> HIDE DEF R
<1>6. R[h] \in Handle
  BY <1>1, <1>2, <1>4
<1>7. /\ rec \in Handle /\ handles' = [R EXCEPT ![h] = rec]
      /\ rec.basin_id = R[h].basin_id /\ rec.stream_init = R[h].stream_init
      /\ rec.streams = [R[h].streams EXCEPT ![s] = a]
  BY <1>2, <1>3, <1>5, <1>6 DEF Handle
<1> HIDE DEF rec, h, s, a
<1>8. /\ handles' \in Seq(Handle) /\ Len(handles') = Len(handles)
      /\ DOMAIN handles' = DOMAIN handles
      /\ \A g \in DOMAIN handles : handles'[g] = IF g = h THEN rec ELSE R[g]
  <2>1. /\ handles' \in Seq(Handle) /\ Len(handles') = Len(R)
        /\ \A g \in 1 .. Len(R) : handles'[g] = IF g = h THEN rec ELSE R[g]
    BY <1>1, <1>2, <1>4, <1>7, ExceptSeq
  <2>2. DOMAIN handles' = 1 .. Len(handles')
    BY <2>1, LenProperties
  <2> QED BY <1>1, <1>4, <2>1, <2>2
<1>9. \A g \in DOMAIN handles :
        /\ handles'[g].basin_id = handles[g].basin_id
        /\ handles'[g].stream_init =
             IF handles[g].stream_init = r THEN 0 ELSE handles[g].stream_init
        /\ g # h => handles'[g].streams = handles[g].streams
        /\ g = h => handles'[g].streams = [handles[g].streams EXCEPT ![s] = a]
  BY <1>2, <1>4, <1>7, <1>8
<1>10. \A g \in DOMAIN handles, t \in Streams :
         handles'[g].streams[t] = IF g = h /\ t = s THEN a ELSE handles[g].streams[t]
  <2>1. \A g \in DOMAIN handles : handles[g].streams \in [Streams -> Nat]
    BY <1>1, HandleFacts
  <2> QED BY <1>9, <2>1
<1>11. Moves(r)
  BY <1>1, <1>3, <1>5, HasStreamMoves
<1>12. \A q \in Requests \ {r} : req'[q] = req[q] /\ q # 0 /\ q # r
  BY <1>1, <1>11, MovesFacts
<1>13. Grows(r)
  <2>1. \A g \in DOMAIN handles, q \in Requests \ {r} :
          handles'[g].stream_init = q <=> handles[g].stream_init = q
    BY <1>9, <1>12
  <2>2. \A g \in DOMAIN handles, t \in Streams :
          handles[g].streams[t] # 0 \/ handles[g].stream_init # r
            => handles'[g].streams[t] = handles[g].streams[t]
    BY <1>3, <1>10
  <2>3. \A q \in Requests \ {r} : req'[q] = req[q] /\ (basinInit' = q <=> basinInit = q)
    BY <1>5, <1>12
  <2>4. \A g \in DOMAIN handles : handles'[g].basin_id = handles[g].basin_id
    BY <1>9
  <2>5. DOMAIN handles' = DOMAIN handles
    BY <1>8
  <2>6. /\ cached' = cached /\ lastId' = lastId /\ actors' = actors
    BY <1>5
  <2>7. \A g \in DOMAIN handles' \ DOMAIN handles : handles'[g].stream_init = 0
    BY <2>5
  <2>8. \A g \in DOMAIN handles :
          /\ handles'[g].basin_id = handles[g].basin_id
          /\ \A q \in Requests \ {r} :
               handles'[g].stream_init = q <=> handles[g].stream_init = q
          /\ \A t \in Streams : handles[g].streams[t] # 0 \/ handles[g].stream_init # r
               => handles'[g].streams[t] = handles[g].streams[t]
    BY <2>1, <2>2, <2>4, Zenon
  <2> QED BY <2>3, <2>5, <2>6, <2>7, <2>8 DEF Grows
<1>14. MemoryTyped'
  BY <1>1, <1>5, <1>8 DEF MemoryTyped, Typed
<1>15. HandlesCached'
  <2>1. a \in 0 .. Len(actors)
    BY <1>1, <1>3
  <2>2. \A g \in DOMAIN handles, t \in Streams : handles[g].streams[t] \in 0 .. Len(actors)
    BY <1>1 DEF HandlesCached
  <2>3. \A g \in DOMAIN handles, t \in Streams : handles'[g].streams[t] \in 0 .. Len(actors)
    BY <1>10, <2>1, <2>2
  <2> QED BY <1>1, <1>5, <1>8, <1>9, <2>3 DEF HandlesCached
<1>16. req'[r].pc = "ok" /\ req'[r].actor = a
  BY <1>1, <1>5 DEF HasStream, NotArrived, Typed
<1>17. NamesFit(r)'
  BY <1>16 DEF NamesFit, Running, Storing
<1>18. LocksHeld(r)'
  BY <1>2, <1>5, <1>16
     DEF RequestInv, LocksHeld, BasinLocked, StreamLocked, WithHandle, OnStream, At
<1>19. IdsHeld(r)'
  <2>1. handles'[h].streams[s] = a
    BY <1>2, <1>10
  <2> QED BY <1>2, <1>8, <1>16, <2>1 DEF IdsHeld, At
<1>20. StreamInitOf(r)'
  BY <1>1, <1>8, <1>9 DEF StreamInitOf
<1> QED BY <1>11, <1>13, <1>14, <1>15, <1>17, <1>18, <1>19, <1>20 DEF RequestInv

\* A step leaves memory in order, and the request that made it.
Keeps(r) == /\ Moves(r) /\ Grows(r) /\ MemoryTyped' /\ HandlesCached'
            /\ RequestInv(r)' /\ StreamInitOf(r)'

\* A request that has ended, or has not begun, holds nothing.
LEMMA IdleKeeps ==
  ASSUME MemoryInv, NEW r \in Requests, Moves(r), lastId' \in {lastId, lastId + 1},
         cached' = cached, actors' = actors, ReleaseBasinInit(r),
         \/ handles' = ReleaseStreamInit(r)
         \/ handles' = handles /\ req[r].pc \notin StreamLocked,
         req'[r].pc \in Ended, req'[r].actor = 0
  PROVE  Keeps(r)
<1>1. Typed /\ r # 0 /\ StreamInitOf(r) /\ RequestInv(r)
  BY RequestFacts
<1>2. /\ basinInit' = basinInit \/ (basinInit' = 0 /\ basinInit = r)
      /\ basinInit' # r
  BY <1>1 DEF ReleaseBasinInit
<1>3. Grows(r) /\ MemoryTyped' /\ HandlesCached'
  BY <1>2, LocksOnly
<1>4. req'[r].pc \notin Running
  BY DEF Ended, Running, Storing
<1>5. req'[r].pc \notin BasinLocked /\ req'[r].pc \notin WithHandle /\ req'[r].pc \notin StreamLocked
  BY <1>4 DEF Running, Storing, BasinLocked, WithHandle, OnStream, StreamLocked
<1>6. RequestInv(r)'
  <2>1. NamesFit(r)'
    BY <1>4 DEF NamesFit
  <2>2. LocksHeld(r)'
    BY <1>2, <1>5 DEF LocksHeld
  <2>3. IdsHeld(r)'
    BY <1>4 DEF IdsHeld, At, Running, Storing
  <2> QED BY <2>1, <2>2, <2>3 DEF RequestInv
<1>7. StreamInitOf(r)'
  <2>1. CASE handles' = ReleaseStreamInit(r)
    <3>1. DOMAIN handles' = DOMAIN handles /\ \A h \in DOMAIN handles : handles'[h].stream_init # r
      BY <1>1, <2>1, Released
    <3> QED BY <3>1 DEF StreamInitOf
  <2>2. CASE handles' = handles /\ req[r].pc \notin StreamLocked
    BY <1>1, <2>2 DEF StreamInitOf
  <2> QED BY <2>1, <2>2
<1> QED BY <1>3, <1>6, <1>7 DEF Keeps

LEMMA ArriveKeeps ==
  ASSUME MemoryInv, NEW r \in Requests, NEW kind \in Kinds,
         NEW basin \in Basins \cup {Blank}, NEW stream \in Streams \cup {Blank},
         Arrive(r, kind, basin, stream)
  PROVE  Keeps(r)
<1>1. /\ RequestInv(r) /\ StreamInitOf(r) /\ Typed /\ req[r] \in Request
      /\ r # 0
  BY RequestFacts
<1>2. /\ req[r].pc \notin StreamLocked /\ req[r].pc \notin BasinLocked
      /\ UNCHANGED memory /\ UNCHANGED stored
  BY DEF Arrive, At, StreamLocked, BasinLocked
<1>3. basinInit # r /\ \A h \in DOMAIN handles : handles[h].stream_init # r
  BY <1>1, <1>2 DEF RequestInv, LocksHeld, StreamInitOf
<1>4. Moves(r)
  BY ArriveMoves
<1>5. CASE NamesValid(kind, basin, stream)
  <2>1. /\ req'[r].kind = kind /\ req'[r].basin = basin /\ req'[r].stream = stream
        /\ req'[r].pc = IF kind = "list_basins" THEN "scan_basins" ELSE "find_basin"
        /\ req'[r].actor = req[r].actor
    <3> DEFINE known == IF kind = "list_basins" THEN {g.basin : g \in given}
                        ELSE {g.stream : g \in {h \in given : h.basin = basin}}
               pc == IF kind = "list_basins" THEN "scan_basins" ELSE "find_basin"
    <3>1. req' = [req EXCEPT ![r].kind = kind, ![r].basin = basin, ![r].stream = stream,
                             ![r].known = known, ![r].pc = pc]
      BY <1>5 DEF Arrive
    <3> HIDE DEF known, pc
    <3>2. /\ req'[r].kind = kind /\ req'[r].basin = basin /\ req'[r].stream = stream
          /\ req'[r].pc = pc /\ req'[r].actor = req[r].actor
      BY <1>1, <3>1 DEF Typed, Request
    <3> QED BY <3>2 DEF pc
  <2>2. Grows(r) /\ MemoryTyped' /\ HandlesCached'
    BY <1>2, <1>4, LocksOnly DEF memory, stored
  <2>3. NamesFit(r)'
    BY <1>5, <2>1, DirectoryAssumption DEF NamesFit, NamesValid, At, OnStream, StreamLocked
  <2>4. LocksHeld(r)' /\ IdsHeld(r)' /\ StreamInitOf(r)'
    BY <1>1, <1>2, <1>3, <2>1
       DEF Arrive, RequestInv, LocksHeld, IdsHeld, StreamInitOf, At, BasinLocked, WithHandle, OnStream, StreamLocked,
           memory
  <2> QED BY <1>4, <2>2, <2>3, <2>4 DEF Keeps, RequestInv
<1>6. CASE ~NamesValid(kind, basin, stream)
  <2>1. req'[r].pc = "invalid_argument" /\ req'[r].actor = 0
    BY <1>1, <1>6 DEF Arrive, End, Status, NotArrived, Typed
  <2>2. ReleaseBasinInit(r)
    BY <1>2, <1>3 DEF ReleaseBasinInit, memory
  <2> QED BY <1>2, <1>4, <2>1, <2>2, IdleKeeps DEF memory, stored, Ended
<1> QED BY <1>5, <1>6

\* The names of a request stay with it, and where it goes suits its kind.
SameNames(r) == /\ req'[r].kind = req[r].kind /\ req'[r].basin = req[r].basin
                /\ req'[r].stream = req[r].stream

LEMMA HasBasinKeeps ==
  ASSUME MemoryInv, NEW r \in Requests, req[r].pc \in {"find_basin", "lock_basin"},
         cached[req[r].basin] # 0, HasBasin(r, cached[req[r].basin]),
         UNCHANGED memory, UNCHANGED stored
  PROVE  Keeps(r)
<1> DEFINE b == req[r].basin
<1>1. /\ RequestInv(r) /\ StreamInitOf(r) /\ Typed /\ req[r] \in Request
      /\ r # 0 /\ b \in Basins
  BY RequestFacts
<1>2. /\ req[r].pc \notin StreamLocked /\ req[r].pc \notin BasinLocked
  BY DEF At, StreamLocked, BasinLocked
<1>3. basinInit # r /\ \A h \in DOMAIN handles : handles[h].stream_init # r
  BY <1>1, <1>2 DEF RequestInv, LocksHeld, StreamInitOf
<1>4. cached[b] \in DOMAIN handles /\ cached[b] \in Nat
  BY <1>1, LenProperties DEF Typed
<1>5. Moves(r)
  BY <1>1, <1>4, HasBasinMoves
<1>6. Grows(r) /\ MemoryTyped' /\ HandlesCached'
  BY <1>5, LocksOnly DEF memory, stored
<1>7. /\ req'[r].pc = IF req[r].kind = "list_streams" THEN "scan_streams" ELSE "find_stream"
      /\ req'[r].handle = cached[b] /\ req'[r].actor = req[r].actor /\ SameNames(r)
  BY <1>1 DEF HasBasin, Typed, Request, SameNames
<1>8. NamesFit(r)'
  <2>1. req[r].kind \in Kinds
    BY <1>1 DEF Request
  <2> QED BY <1>1, <1>7, <2>1
       DEF RequestInv, NamesFit, SameNames, At, Running, Storing, OnStream, StreamLocked, Kinds
<1>9. LocksHeld(r)' /\ IdsHeld(r)' /\ StreamInitOf(r)'
  BY <1>1, <1>3, <1>4, <1>7
     DEF RequestInv, LocksHeld, IdsHeld, StreamInitOf, SameNames, At, BasinLocked, WithHandle, OnStream,
         StreamLocked, memory
<1> QED BY <1>5, <1>6, <1>8, <1>9 DEF Keeps, RequestInv

LEMMA FailKeeps ==
  ASSUME MemoryInv, NEW r \in Requests, StorageError(r) \/ Drop(r) \/ DropWriting(r)
  PROVE  Keeps(r)
<1>1. Typed /\ lastId \in Nat
  BY TypedFacts DEF Typed
<1>2. CASE StorageError(r) \/ Drop(r)
  <2>1. \E pc \in {"internal", "dropped"} : req' = [req EXCEPT ![r] = [NotArrived EXCEPT !.pc = pc]]
    BY <1>2 DEF StorageError, Drop, End, Status
  <2>2. Moves(r) /\ req'[r].pc \in Ended /\ req'[r].actor = 0
    BY <1>1, <2>1, EndMoves DEF Ended, NotArrived, Typed
  <2>3. lastId' \in {lastId, lastId + 1}
    BY <1>2 DEF StorageError, Drop, stored, PutNewId
  <2>4. Abandon(r)
    BY <1>2 DEF StorageError, Drop
  <2> QED BY <2>2, <2>3, <2>4, IdleKeeps DEF Abandon
<1>3. CASE DropWriting(r)
  <2>1. /\ req' = [req EXCEPT ![r] = [NotArrived EXCEPT !.pc = "dropped", !.id = lastId + 1]]
        /\ lastId' = lastId + 1 /\ Abandon(r)
    BY <1>3 DEF DropWriting
  <2>2. lastId + 1 \in Nat /\ "dropped" \in Ended
    BY <1>1 DEF Ended
  <2>3. Moves(r)
    BY <1>1, <2>1, <2>2, EndMoves
  <2>4. req'[r].pc = "dropped" /\ req'[r].actor = 0
    BY <1>1, <2>1 DEF NotArrived, Typed
  <2> QED BY <2>1, <2>2, <2>3, <2>4, IdleKeeps DEF Abandon
<1> QED BY <1>2, <1>3

LEMMA ScanKeeps ==
  ASSUME MemoryInv, NEW r \in Requests, ScanBasins(r) \/ ScanStreams(r)
  PROVE  Keeps(r)
<1>1. /\ Typed /\ lastId \in Nat /\ req[r] \in Request /\ RequestInv(r) /\ r # 0
  BY RequestFacts DEF Typed
<1>2. PICK shown \in SUBSET (Basins \cup Streams) :
        \/ req' = [req EXCEPT ![r].shown = shown, ![r].pc = "ok"] /\ At(r, "scan_basins")
        \/ /\ req' = [req EXCEPT ![r].shown = shown, ![r].pc = "ok",
                                 ![r].handle = 0, ![r].id = 0]
           /\ At(r, "scan_streams")
  <2>1. CASE ScanBasins(r)
    <3>1. Basins \cap DOMAIN meta \in SUBSET (Basins \cup Streams)
      OBVIOUS
    <3> QED BY <2>1, <3>1 DEF ScanBasins
  <2>2. CASE ScanStreams(r)
    <3> DEFINE found == {s \in Streams : <<Mine(r).basin_id, s>> \in DOMAIN meta}
    <3>1. found \in SUBSET (Basins \cup Streams)
      OBVIOUS
    <3>2. /\ req' = [req EXCEPT ![r].shown = found, ![r].pc = "ok",
                                ![r].handle = 0, ![r].id = 0]
          /\ At(r, "scan_streams")
      BY <2>2 DEF ScanStreams
    <3> HIDE DEF found
    <3> QED BY <3>1, <3>2
  <2> QED BY <2>1, <2>2
<1>3. UNCHANGED memory /\ UNCHANGED stored
  BY DEF ScanBasins, ScanStreams
<1>4. Moves(r)
  <2> DEFINE one == [req[r] EXCEPT !.shown = shown, !.pc = "ok"]
             two == [req[r] EXCEPT !.shown = shown, !.pc = "ok", !.handle = 0, !.id = 0]
  <2>1. one \in Request /\ two \in Request
    <3> HIDE DEF Running, Kinds
    <3> QED BY <1>1 DEF Request, Ended
  <2>2. req' = [req EXCEPT ![r] = one] \/ req' = [req EXCEPT ![r] = two]
    BY <1>2
  <2> QED BY <2>1, <2>2 DEF Moves, MovesTo
<1>5. req'[r].pc = "ok" /\ req'[r].actor = 0
  BY <1>1, <1>2 DEF RequestInv, IdsHeld, At, Request, Typed
<1>6. basinInit # r /\ req[r].pc \notin StreamLocked
  BY <1>1, <1>2 DEF RequestInv, LocksHeld, BasinLocked, StreamLocked, At
<1>7. ReleaseBasinInit(r)
  BY <1>3, <1>6 DEF ReleaseBasinInit, memory
<1> QED BY <1>1, <1>3, <1>4, <1>5, <1>6, <1>7, IdleKeeps DEF memory, stored, Ended

\* The step of a request that goes on, changing nothing else but perhaps a lock
\* it takes.
LEMMA OnKeeps ==
  ASSUME MemoryInv, NEW r \in Requests, Moves(r), lastId' \in {lastId, lastId + 1},
         cached' = cached, actors' = actors, handles' = handles,
         basinInit' = basinInit \/ (basinInit' = r /\ basinInit = 0),
         NamesFit(r)', LocksHeld(r)', IdsHeld(r)',
         req'[r].handle = req[r].handle,
         req[r].pc \in StreamLocked => req'[r].pc \in StreamLocked
  PROVE  Keeps(r)
<1>1. StreamInitOf(r)
  BY RequestFacts
<1>2. Grows(r) /\ MemoryTyped' /\ HandlesCached'
  BY LocksOnly
<1>3. StreamInitOf(r)'
  BY <1>1 DEF StreamInitOf
<1> QED BY <1>2, <1>3 DEF Keeps, RequestInv

\* What GoTo and a change of id leave.
LEMMA GoesTo ==
  ASSUME MemoryInv, NEW r \in Requests, NEW pc \in Running,
         \/ GoTo(r, pc)
         \/ \E id \in Nat : req' = [req EXCEPT ![r].id = id, ![r].pc = pc]
  PROVE  /\ Moves(r) /\ SameNames(r) /\ req'[r].pc = pc
         /\ req'[r].handle = req[r].handle /\ req'[r].actor = req[r].actor
<1>1. Typed /\ req[r] \in Request
  BY RequestFacts
<1>2. CASE GoTo(r, pc)
  <2>1. Moves(r)
    BY <1>1, <1>2, GoToMoves
  <2>2. /\ SameNames(r) /\ req'[r].pc = pc
        /\ req'[r].handle = req[r].handle /\ req'[r].actor = req[r].actor
    BY <1>1, <1>2 DEF GoTo, SameNames, Typed, Request
  <2> QED BY <2>1, <2>2
<1>3. ASSUME NEW id \in Nat, req' = [req EXCEPT ![r].id = id, ![r].pc = pc]
      PROVE  /\ Moves(r) /\ SameNames(r) /\ req'[r].pc = pc
             /\ req'[r].handle = req[r].handle /\ req'[r].actor = req[r].actor
  <2>1. Moves(r)
    BY <1>1, <1>3, IdMoves
  <2>2. /\ SameNames(r) /\ req'[r].pc = pc
        /\ req'[r].handle = req[r].handle /\ req'[r].actor = req[r].actor
    BY <1>1, <1>3 DEF SameNames, Typed, Request
  <2> QED BY <2>1, <2>2
<1> QED BY <1>2, <1>3

LEMMA FindBasinKeeps ==
  ASSUME MemoryInv, NEW r \in Requests, FindBasin(r)
  PROVE  Keeps(r)
<1>1. RequestInv(r) /\ r # 0
  BY RequestFacts
<1>2. CASE cached[req[r].basin] # 0
  BY <1>2, HasBasinKeeps DEF FindBasin, At
<1>3. CASE cached[req[r].basin] = 0
  <2>1. /\ Moves(r) /\ SameNames(r) /\ req'[r].pc = "lock_basin"
        /\ req'[r].handle = req[r].handle /\ req'[r].actor = req[r].actor
    BY <1>3, GoesTo DEF FindBasin, Running
  <2>2. UNCHANGED memory /\ lastId' = lastId /\ At(r, "find_basin")
    BY DEF FindBasin, stored
  <2>3. NamesFit(r)'
    BY <1>1, <2>1, <2>2
       DEF RequestInv, NamesFit, SameNames, At, Running, Storing, OnStream, StreamLocked
  <2>4. LocksHeld(r)' /\ IdsHeld(r)'
    BY <1>1, <2>1, <2>2
       DEF RequestInv, LocksHeld, IdsHeld, At, BasinLocked, WithHandle, OnStream, StreamLocked,
           memory
  <2> QED BY <2>1, <2>2, <2>3, <2>4, OnKeeps DEF memory, StreamLocked, At
<1> QED BY <1>2, <1>3

LEMMA LockBasinKeeps ==
  ASSUME MemoryInv, NEW r \in Requests, LockBasin(r)
  PROVE  Keeps(r)
<1>1. RequestInv(r) /\ r # 0
  BY RequestFacts
<1>2. CASE cached[req[r].basin] # 0
  BY <1>2, HasBasinKeeps DEF LockBasin, At, memory
<1>3. CASE cached[req[r].basin] = 0
  <2>1. /\ Moves(r) /\ SameNames(r) /\ req'[r].pc = "load_basin"
        /\ req'[r].handle = req[r].handle /\ req'[r].actor = req[r].actor
    BY <1>3, GoesTo DEF LockBasin, Running, Storing
  <2>2. /\ cached' = cached /\ handles' = handles /\ actors' = actors /\ lastId' = lastId
        /\ At(r, "lock_basin") /\ basinInit = 0 /\ basinInit' = r
    BY <1>3 DEF LockBasin, BasinInitFree, stored
  <2>3. NamesFit(r)'
    BY <1>1, <2>1, <2>2
       DEF RequestInv, NamesFit, SameNames, At, Running, Storing, OnStream, StreamLocked
  <2>4. LocksHeld(r)' /\ IdsHeld(r)'
    BY <1>1, <1>3, <2>1, <2>2
       DEF RequestInv, LocksHeld, IdsHeld, At, BasinLocked, WithHandle, OnStream, StreamLocked,
           SameNames
  <2> QED BY <2>1, <2>2, <2>3, <2>4, OnKeeps DEF StreamLocked, At
<1> QED BY <1>2, <1>3

\* A basin was found or made: its id is held, still under the lock.
LEMMA BasinIdKeeps ==
  ASSUME MemoryInv, NEW r \in Requests, req[r].pc \in {"load_basin", "new_basin"},
         NEW id \in 1 .. lastId', req' = [req EXCEPT ![r].id = id, ![r].pc = "cache_basin"],
         UNCHANGED memory, lastId' \in {lastId, lastId + 1}
  PROVE  Keeps(r)
<1>1. RequestInv(r) /\ r # 0 /\ Typed /\ req[r] \in Request /\ lastId \in Nat /\ id \in Nat
  BY RequestFacts DEF Typed
<1>2. /\ Moves(r) /\ SameNames(r) /\ req'[r].pc = "cache_basin"
      /\ req'[r].handle = req[r].handle /\ req'[r].actor = req[r].actor
  BY <1>1, GoesTo DEF Running
<1>3. req'[r].id = id
  BY <1>1 DEF Typed, Request
<1>4. NamesFit(r)'
  BY <1>1, <1>2
     DEF RequestInv, NamesFit, SameNames, At, Running, Storing, OnStream, StreamLocked
<1>5. LocksHeld(r)' /\ IdsHeld(r)'
  BY <1>1, <1>2, <1>3
     DEF RequestInv, LocksHeld, IdsHeld, At, BasinLocked, WithHandle, OnStream, StreamLocked,
         SameNames, memory
<1> QED BY <1>2, <1>4, <1>5, OnKeeps DEF StreamLocked, memory

LEMMA LoadBasinKeeps ==
  ASSUME MemoryInv, NEW r \in Requests, LoadBasin(r)
  PROVE  Keeps(r)
<1>1. RequestInv(r) /\ r # 0 /\ Typed /\ req[r] \in Request
  BY RequestFacts
<1>2. /\ cached' = cached /\ handles' = handles /\ actors' = actors /\ lastId' = lastId
      /\ At(r, "load_basin")
  BY DEF LoadBasin, stored
<1>3. CASE req[r].basin \in DOMAIN meta
  <2>1. meta[req[r].basin] \in 1 .. lastId'
    BY <1>1, <1>2, <1>3 DEF Typed
  <2> QED BY <1>2, <1>3, <2>1, BasinIdKeeps DEF LoadBasin, memory, At
<1>4. CASE req[r].basin \notin DOMAIN meta /\ req[r].kind = "append"
  <2>1. /\ Moves(r) /\ SameNames(r) /\ req'[r].pc = "new_basin"
        /\ req'[r].handle = req[r].handle /\ req'[r].actor = req[r].actor
    BY <1>4, GoesTo DEF LoadBasin, Running, Storing
  <2>2. basinInit' = basinInit
    BY <1>4 DEF LoadBasin
  <2>3. NamesFit(r)'
    BY <1>1, <1>2, <2>1
       DEF RequestInv, NamesFit, SameNames, At, Running, Storing, OnStream, StreamLocked
  <2>4. LocksHeld(r)' /\ IdsHeld(r)'
    BY <1>1, <1>2, <2>1, <2>2
       DEF RequestInv, LocksHeld, IdsHeld, At, BasinLocked, WithHandle, OnStream, StreamLocked,
           SameNames
  <2> QED BY <1>2, <2>1, <2>2, <2>3, <2>4, OnKeeps DEF StreamLocked, At
<1>5. CASE req[r].basin \notin DOMAIN meta /\ req[r].kind # "append"
  <2>1. EndNotFound(r, "NotFound") /\ ReleaseBasinInit(r)
    BY <1>5 DEF LoadBasin
  <2>2. Moves(r)
    BY <1>1, <2>1, EndNotFoundMoves
  <2>3. req'[r].pc = "not_found" /\ req'[r].actor = 0
    BY <1>1, <1>2, <2>1 DEF EndNotFound, Status, Typed, Request, RequestInv, IdsHeld, At
  <2>4. req[r].pc \notin StreamLocked /\ req'[r].pc \in Ended
    BY <1>2, <2>3 DEF StreamLocked, At, Ended
  <2> QED BY <1>2, <2>1, <2>2, <2>3, <2>4, IdleKeeps
<1> QED BY <1>3, <1>4, <1>5

LEMMA NewBasinKeeps ==
  ASSUME MemoryInv, NEW r \in Requests, NewBasin(r)
  PROVE  Keeps(r)
<1>1. lastId \in Nat
  BY TypedFacts DEF Typed
<1>2. lastId' = lastId + 1 /\ lastId' \in 1 .. lastId'
  BY <1>1 DEF NewBasin, PutNewId
<1> QED BY <1>2, BasinIdKeeps DEF NewBasin, At

\* The request is given an actor that is there.
LEMMA HasStreamKeeps ==
  ASSUME MemoryInv, NEW r \in Requests, req[r].pc \in {"find_stream", "lock_stream"},
         NEW a, a = Mine(r).streams[req[r].stream], a # 0, HasStream(r, a),
         UNCHANGED memory, UNCHANGED stored
  PROVE  Keeps(r)
<1>1. /\ RequestInv(r) /\ r # 0 /\ Typed /\ req[r] \in Request /\ StreamInitOf(r)
      /\ req[r].handle \in DOMAIN handles /\ req[r].stream \in Streams
  BY RequestFacts DEF WithHandle, OnStream
<1>2. a \in Nat
  BY <1>1, HandleFacts DEF Mine
<1>3. Moves(r)
  BY <1>1, <1>2, HasStreamMoves
<1>4. req'[r].pc = "ok" /\ req'[r].actor = a
  BY <1>1 DEF HasStream, NotArrived, Typed
<1>5. Grows(r) /\ MemoryTyped' /\ HandlesCached'
  BY <1>3, LocksOnly DEF memory, stored
<1>6. NamesFit(r)'
  BY <1>4 DEF NamesFit, Running, Storing
<1>7. basinInit # r /\ \A h \in DOMAIN handles : handles[h].stream_init # r
  BY <1>1 DEF RequestInv, LocksHeld, BasinLocked, StreamInitOf, StreamLocked
<1>8. LocksHeld(r)' /\ StreamInitOf(r)'
  BY <1>4, <1>7
     DEF LocksHeld, StreamInitOf, BasinLocked, WithHandle, OnStream, StreamLocked, memory
<1>9. IdsHeld(r)'
  BY <1>1, <1>4 DEF IdsHeld, At, memory, Mine
<1> QED BY <1>3, <1>5, <1>6, <1>8, <1>9 DEF Keeps, RequestInv

LEMMA FindStreamKeeps ==
  ASSUME MemoryInv, NEW r \in Requests, FindStream(r)
  PROVE  Keeps(r)
<1> DEFINE a == Mine(r).streams[req[r].stream]
<1>1. RequestInv(r) /\ r # 0
  BY RequestFacts
<1>2. CASE a # 0
  BY <1>2, HasStreamKeeps DEF FindStream, At
<1>3. CASE a = 0
  <2>1. /\ Moves(r) /\ SameNames(r) /\ req'[r].pc = "lock_stream"
        /\ req'[r].handle = req[r].handle /\ req'[r].actor = req[r].actor
    BY <1>3, GoesTo DEF FindStream, Running
  <2>2. UNCHANGED memory /\ lastId' = lastId /\ At(r, "find_stream")
    BY DEF FindStream, stored
  <2>3. NamesFit(r)'
    BY <1>1, <2>1, <2>2
       DEF RequestInv, NamesFit, SameNames, At, Running, Storing, OnStream, StreamLocked
  <2>4. LocksHeld(r)' /\ IdsHeld(r)'
    BY <1>1, <2>1, <2>2
       DEF RequestInv, LocksHeld, IdsHeld, At, BasinLocked, WithHandle, OnStream, StreamLocked,
           memory, SameNames
  <2> QED BY <2>1, <2>2, <2>3, <2>4, OnKeeps DEF memory, StreamLocked, At
<1> QED BY <1>2, <1>3

LEMMA LockStreamKeeps ==
  ASSUME MemoryInv, NEW r \in Requests, LockStream(r)
  PROVE  Keeps(r)
<1> DEFINE a == Mine(r).streams[req[r].stream]
           h == req[r].handle
<1>1. /\ RequestInv(r) /\ r # 0 /\ Typed /\ StreamInitOf(r) /\ At(r, "lock_stream")
      /\ h \in DOMAIN handles
  BY RequestFacts DEF LockStream, At, WithHandle, OnStream
<1>2. CASE a # 0
  BY <1>1, <1>2, HasStreamKeeps DEF LockStream, At, memory
<1>3. CASE a = 0
  <2>1. /\ Moves(r) /\ SameNames(r) /\ req'[r].pc = "load_metadata"
        /\ req'[r].handle = h /\ req'[r].actor = req[r].actor
    BY <1>3, GoesTo DEF LockStream, Running, Storing
  <2>2. /\ cached' = cached /\ actors' = actors /\ lastId' = lastId /\ basinInit' = basinInit
        /\ handles' = [handles EXCEPT ![h].stream_init = r] /\ handles[h].stream_init = 0
    BY <1>3 DEF LockStream, Mine, stored
  <2>3. /\ DOMAIN handles' = DOMAIN handles
        /\ \A g \in DOMAIN handles :
             /\ handles'[g].streams = handles[g].streams
             /\ handles'[g].stream_init = IF g = h THEN r ELSE handles[g].stream_init
    BY <1>1, <2>2, Taken
  <2>4. Grows(r) /\ MemoryTyped' /\ HandlesCached'
    BY <1>1, <2>1, <2>2, LocksOnly
  <2>5. NamesFit(r)'
    BY <1>1, <2>1, <2>2
       DEF RequestInv, NamesFit, SameNames, At, Running, Storing, OnStream, StreamLocked
  <2>6. LocksHeld(r)'
    BY <1>1, <1>3, <2>1, <2>2, <2>3
       DEF RequestInv, LocksHeld, At, BasinLocked, WithHandle, OnStream, StreamLocked,
           SameNames, Mine
  <2>7. IdsHeld(r)'
    BY <1>1, <2>1 DEF RequestInv, IdsHeld, At
  <2>8. StreamInitOf(r)'
    <3>1. \A g \in DOMAIN handles : handles[g].stream_init # r
      BY <1>1 DEF StreamInitOf, StreamLocked, At
    <3> QED BY <2>1, <2>3, <3>1 DEF StreamInitOf, StreamLocked
  <2> QED BY <2>1, <2>4, <2>5, <2>6, <2>7, <2>8 DEF Keeps, RequestInv
<1> QED BY <1>2, <1>3

\* A stream's metadata was found or made: its id is held, still under the lock.
LEMMA StreamIdKeeps ==
  ASSUME MemoryInv, NEW r \in Requests, req[r].pc \in {"load_metadata", "new_metadata"},
         NEW pc \in {"load_block", "new_block"},
         NEW id \in 1 .. lastId', req' = [req EXCEPT ![r].id = id, ![r].pc = pc],
         UNCHANGED memory, lastId' \in {lastId, lastId + 1}
  PROVE  Keeps(r)
<1>1. /\ RequestInv(r) /\ r # 0 /\ Typed /\ req[r] \in Request /\ lastId \in Nat /\ id \in Nat
  BY RequestFacts DEF Typed
<1>2. /\ Moves(r) /\ SameNames(r) /\ req'[r].pc = pc
      /\ req'[r].handle = req[r].handle /\ req'[r].actor = req[r].actor
  <2>1. pc \in Running
    BY DEF Running, Storing
  <2> QED BY <1>1, <2>1, GoesTo
<1>3. req'[r].id = id
  BY <1>1 DEF Typed, Request
<1>4. NamesFit(r)'
  BY <1>1, <1>2
     DEF RequestInv, NamesFit, SameNames, At, Running, Storing, OnStream, StreamLocked
<1>5. LocksHeld(r)' /\ IdsHeld(r)'
  BY <1>1, <1>2, <1>3
     DEF RequestInv, LocksHeld, IdsHeld, At, BasinLocked, WithHandle, OnStream, StreamLocked,
         SameNames, memory, Mine
<1> QED BY <1>2, <1>4, <1>5, OnKeeps DEF StreamLocked, memory

LEMMA LoadMetadataKeeps ==
  ASSUME MemoryInv, NEW r \in Requests, LoadMetadata(r)
  PROVE  Keeps(r)
<1>1. RequestInv(r) /\ r # 0 /\ Typed /\ req[r] \in Request
  BY RequestFacts
<1>2. /\ cached' = cached /\ basinInit' = basinInit /\ actors' = actors /\ lastId' = lastId
      /\ At(r, "load_metadata")
  BY DEF LoadMetadata, stored
<1>3. CASE Key(r) \in DOMAIN meta
  <2>1. meta[Key(r)] \in 1 .. lastId'
    BY <1>1, <1>2, <1>3 DEF Typed
  <2> QED BY <1>2, <1>3, <2>1, StreamIdKeeps DEF LoadMetadata, memory, At
<1>4. CASE Key(r) \notin DOMAIN meta /\ req[r].kind = "append"
  <2>1. /\ Moves(r) /\ SameNames(r) /\ req'[r].pc = "new_metadata"
        /\ req'[r].handle = req[r].handle /\ req'[r].actor = req[r].actor
    BY <1>4, GoesTo DEF LoadMetadata, Running, Storing
  <2>2. handles' = handles
    BY <1>4 DEF LoadMetadata
  <2>3. NamesFit(r)'
    BY <1>1, <1>2, <2>1
       DEF RequestInv, NamesFit, SameNames, At, Running, Storing, OnStream, StreamLocked
  <2>4. LocksHeld(r)' /\ IdsHeld(r)'
    BY <1>1, <1>2, <2>1, <2>2
       DEF RequestInv, LocksHeld, IdsHeld, At, BasinLocked, WithHandle, OnStream, StreamLocked,
           SameNames, Mine
  <2> QED BY <1>2, <2>1, <2>2, <2>3, <2>4, OnKeeps DEF StreamLocked, At
<1>5. CASE Key(r) \notin DOMAIN meta /\ req[r].kind # "append"
  <2>1. EndNotFound(r, "NotFound") /\ handles' = ReleaseStreamInit(r)
    BY <1>5 DEF LoadMetadata, MapStreamNotFound
  <2>2. Moves(r)
    BY <1>1, <2>1, EndNotFoundMoves
  <2>3. req'[r].pc = "not_found" /\ req'[r].actor = 0
    BY <1>1, <1>2, <2>1 DEF EndNotFound, Status, Typed, Request, RequestInv, IdsHeld, At
  <2>4. req'[r].pc \in Ended
    BY <2>3 DEF Ended
  <2>5. ReleaseBasinInit(r)
    BY <1>1, <1>2 DEF RequestInv, LocksHeld, BasinLocked, At, ReleaseBasinInit
  <2> QED BY <1>2, <2>1, <2>2, <2>3, <2>4, <2>5, IdleKeeps
<1> QED BY <1>3, <1>4, <1>5

LEMMA NewMetadataKeeps ==
  ASSUME MemoryInv, NEW r \in Requests, NewMetadata(r)
  PROVE  Keeps(r)
<1>1. lastId \in Nat
  BY TypedFacts DEF Typed
<1>2. lastId' = lastId + 1 /\ lastId' \in 1 .. lastId'
  BY <1>1 DEF NewMetadata, PutNewId
<1> QED BY <1>2, StreamIdKeeps DEF NewMetadata, At

LEMMA HandlerKeeps ==
  ASSUME MemoryInv, NEW r \in Requests, Handler(r)
  PROVE  Keeps(r)
<1>1. ASSUME NEW kind \in Kinds, NEW basin \in Basins \cup {Blank},
             NEW stream \in Streams \cup {Blank}, Arrive(r, kind, basin, stream)
      PROVE  Keeps(r)
  BY <1>1, ArriveKeeps
<1>2. \/ AppendArrives(r) \/ ReadArrives(r) \/ ListBasinsArrives(r) \/ ListStreamsArrives(r)
        => Keeps(r)
  BY <1>1 DEF AppendArrives, ReadArrives, ListBasinsArrives, ListStreamsArrives, Names, Kinds
<1>3. CacheBasin(r) \/ LoadBlock(r) \/ NewBlock(r) \/ CacheStream(r) => Keeps(r)
  BY CacheBasinGrows, SpawnGrows, CacheStreamGrows DEF Keeps
<1> QED
  BY <1>2, <1>3, FindBasinKeeps, LockBasinKeeps, LoadBasinKeeps, NewBasinKeeps,
     FindStreamKeeps, LockStreamKeeps, LoadMetadataKeeps, NewMetadataKeeps,
     ScanKeeps, FailKeeps DEF Handler, Advance

-----------------------------------------------------------------------------
(* What a step remembers. *)

\* The awaits at which a request holds an id for a key.
Holding == {"cache_basin", "load_block", "new_block", "cache_stream"}

\* A step that neither caches nor comes to hold an id.
Quiet(r) ==
  /\ cached' = cached /\ actors' = actors
  /\ DOMAIN handles' = DOMAIN handles
  /\ \A h \in DOMAIN handles : /\ handles'[h].basin_id = handles[h].basin_id
                               /\ handles'[h].streams = handles[h].streams
  /\ req'[r].pc \notin Holding

LEMMA QuietOrNot ==
  ASSUME MemoryInv, NEW r \in Requests, Handler(r)
  PROVE  \/ Quiet(r)
         \/ LoadBasin(r) \/ NewBasin(r) \/ CacheBasin(r)
         \/ LoadMetadata(r) \/ NewMetadata(r) \/ LoadBlock(r) \/ NewBlock(r) \/ CacheStream(r)
<1>1. Typed /\ req[r] \in Request
  BY RequestFacts
<1>2. ASSUME UNCHANGED memory, req'[r].pc \notin Holding
      PROVE  Quiet(r)
  BY <1>2 DEF memory, Quiet
<1>3. ASSUME NEW kind \in Kinds, NEW basin \in Basins \cup {Blank},
             NEW stream \in Streams \cup {Blank}, Arrive(r, kind, basin, stream)
      PROVE  Quiet(r)
  <2>1. Moves(r) /\ UNCHANGED memory
    BY <1>3, ArriveMoves DEF Arrive
  <2>2. CASE NamesValid(kind, basin, stream)
    <3> DEFINE known == IF kind = "list_basins" THEN {g.basin : g \in given}
                        ELSE {g.stream : g \in {h \in given : h.basin = basin}}
               pc == IF kind = "list_basins" THEN "scan_basins" ELSE "find_basin"
    <3>1. req' = [req EXCEPT ![r].kind = kind, ![r].basin = basin, ![r].stream = stream,
                             ![r].known = known, ![r].pc = pc]
      BY <1>3, <2>2 DEF Arrive
    <3>2. pc \notin Holding
      BY DEF Holding
    <3> HIDE DEF known, pc
    <3>3. req'[r].pc = pc
      BY <1>1, <3>1 DEF Typed, Request
    <3> QED BY <1>2, <2>1, <3>2, <3>3
  <2>3. CASE ~NamesValid(kind, basin, stream)
    <3>1. req'[r].pc = "invalid_argument"
      BY <1>1, <1>3, <2>3 DEF Arrive, End, Status, NotArrived, Typed
    <3> QED BY <1>2, <2>1, <3>1 DEF Holding
  <2> QED BY <2>2, <2>3
<1>4. CASE FindBasin(r) \/ LockBasin(r)
  <2>1. req'[r].pc \in {"lock_basin", "load_basin", "scan_streams", "find_stream"}
    BY <1>1, <1>4 DEF FindBasin, LockBasin, HasBasin, GoTo, Typed, Request
  <2>2. cached' = cached /\ actors' = actors /\ handles' = handles
    BY <1>4 DEF FindBasin, LockBasin, memory
  <2> QED BY <2>1, <2>2 DEF Quiet, Holding
<1>5. CASE FindStream(r) \/ LockStream(r)
  <2>1. req'[r].pc \in {"ok", "lock_stream", "load_metadata"}
    <3>1. req'[r].pc = "ok" \/ GoTo(r, "lock_stream") \/ GoTo(r, "load_metadata")
      BY <1>1, <1>5 DEF FindStream, LockStream, HasStream, NotArrived, Typed
    <3> QED BY <1>1, <3>1 DEF GoTo, Typed, Request
  <2>2. /\ cached' = cached /\ actors' = actors
        /\ \/ handles' = handles
           \/ handles' = [handles EXCEPT ![req[r].handle].stream_init = r]
    BY <1>5 DEF FindStream, LockStream, memory
  <2>3. req[r].handle \in DOMAIN handles
    BY <1>5, RequestFacts DEF FindStream, LockStream, At, WithHandle, OnStream
  <2>4. /\ DOMAIN handles' = DOMAIN handles
        /\ \A h \in DOMAIN handles : /\ handles'[h].basin_id = handles[h].basin_id
                                     /\ handles'[h].streams = handles[h].streams
    BY <1>1, <2>2, <2>3, Taken
  <2> QED BY <2>1, <2>2, <2>4 DEF Quiet, Holding
<1>6. CASE ScanBasins(r) \/ ScanStreams(r)
  <2>1. req'[r].pc = "ok"
    <3> DEFINE found == {s \in Streams : <<Mine(r).basin_id, s>> \in DOMAIN meta}
               basins == Basins \cap DOMAIN meta
    <3>1. \/ req' = [req EXCEPT ![r].shown = basins, ![r].pc = "ok"]
          \/ req' = [req EXCEPT ![r].shown = found, ![r].pc = "ok", ![r].handle = 0, ![r].id = 0]
      BY <1>6 DEF ScanBasins, ScanStreams
    <3> HIDE DEF found, basins
    <3> QED BY <1>1, <3>1 DEF Typed, Request
  <2> QED BY <1>2, <1>6, <2>1 DEF ScanBasins, ScanStreams, Holding
<1>7. CASE StorageError(r) \/ Drop(r) \/ DropWriting(r)
  <2>1. req'[r].pc \in {"internal", "dropped"}
    BY <1>1, <1>7 DEF StorageError, Drop, DropWriting, End, Status, NotArrived, Typed
  <2>2. Abandon(r)
    BY <1>7 DEF StorageError, Drop, DropWriting
  <2> QED BY <1>1, <2>1, <2>2, Released DEF Quiet, Abandon, Holding
<1>8. \/ AppendArrives(r) \/ ReadArrives(r) \/ ListBasinsArrives(r) \/ ListStreamsArrives(r)
        => Quiet(r)
  BY <1>3 DEF AppendArrives, ReadArrives, ListBasinsArrives, ListStreamsArrives, Names, Kinds
<1> QED BY <1>4, <1>5, <1>6, <1>7, <1>8 DEF Handler, Advance

\* What is cached stays cached, of the ids it had.
LEMMA CachedStays ==
  ASSUME MemoryInv, NEW r \in Requests, Grows(r)
  PROVE  /\ \A b \in Basins : cached[b] # 0 =>
              /\ cached'[b] = cached[b]
              /\ handles'[cached'[b]].basin_id = handles[cached[b]].basin_id
         /\ \A h \in DOMAIN handles, s \in Streams : handles[h].streams[s] # 0 =>
              /\ h \in DOMAIN handles' /\ handles'[h].streams[s] = handles[h].streams[s]
              /\ handles'[h].basin_id = handles[h].basin_id
              /\ actors'[handles'[h].streams[s]] = actors[handles[h].streams[s]]
<1>1. /\ Typed /\ Len(handles) \in Nat /\ DOMAIN handles = 1 .. Len(handles)
      /\ Len(actors) \in Nat /\ DOMAIN actors = 1 .. Len(actors)
  BY TypedFacts, LenProperties DEF Typed
<1>2. \A b \in Basins : cached[b] # 0 => cached[b] \in DOMAIN handles
  BY <1>1 DEF Typed
<1>3. \A h \in DOMAIN handles, s \in Streams :
        handles[h].streams[s] # 0 => handles[h].streams[s] \in DOMAIN actors
  BY <1>1 DEF MemoryInv, HandlesCached
<1> QED BY <1>2, <1>3 DEF Grows

\* A request that does not move remembers what it did.
LEMMA HeldByOthers ==
  ASSUME MemoryInv, NEW r \in Requests, Grows(r), NEW q \in Requests \ {r}
  PROVE  /\ req'[q] = req[q]
         /\ req[q].pc \in OnStream => Key(q)' = Key(q) /\ Key(q) \in Nat \X Streams
<1>1. req'[q] = req[q]
  BY DEF Grows
<1>2. ASSUME req[q].pc \in OnStream
      PROVE  handles'[req[q].handle].basin_id = handles[req[q].handle].basin_id
             /\ req[q].stream \in Streams /\ handles[req[q].handle].basin_id \in Nat
  BY <1>2, RequestFacts DEF Grows, Mine, WithHandle, Handle
<1> QED BY <1>1, <1>2 DEF Key, Mine

\* What a step makes memory take for a key's id was stored, or is put now.
Learns(key, id) ==
  \/ UNCHANGED stored /\ Stores(key, id)
  \/ PutNewId(key) /\ id = lastId'

\* The cache after a step, and the one request that moved.
LEMMA CachedLearns ==
  ASSUME MemoryInv, NEW r \in Requests, Handler(r), NEW key, NEW id, Remembers(key, id)'
  PROVE  \/ Remembers(key, id)
         \/ key = req'[r].basin /\ id = req'[r].id /\ req'[r].pc = "cache_basin"
         \/ /\ key = Key(r)' /\ id = req'[r].id
            /\ req'[r].pc \in {"load_block", "new_block", "cache_stream"}
<1>0. Keeps(r) /\ Grows(r) /\ Typed
  BY HandlerKeeps, TypedFacts DEF Keeps
<1>1. ASSUME NEW b \in Basins, key = b, cached'[b] # 0, id = handles'[cached'[b]].basin_id
      PROVE  Remembers(key, id)
  <2>1. CASE cached[b] # 0
    BY <1>0, <1>1, <2>1, CachedStays DEF Remembers
  <2>2. CASE cached[b] = 0
    <3>1. CacheBasin(r)
      BY <1>1, <2>2, QuietOrNot
         DEF Quiet, LoadBasin, NewBasin, LoadMetadata, NewMetadata, LoadBlock, NewBlock,
             CacheStream, memory
    <3>2. /\ At(r, "cache_basin")
          /\ cached' = [cached EXCEPT ![req[r].basin] = Len(handles')]
          /\ \E streams : handles' = Append(handles, [basin_id |-> req[r].id, streams |-> streams,
                                                      stream_init |-> 0])
      BY <3>1 DEF CacheBasin
    <3>3. PICK streams : handles' = Append(handles, [basin_id |-> req[r].id, streams |-> streams,
                                                     stream_init |-> 0])
      BY <3>2
    <3>4. Len(handles) \in Nat /\ DOMAIN handles = 1 .. Len(handles)
      BY <1>0, LenProperties DEF Typed
    <3>5. Len(handles') = Len(handles) + 1 /\ handles'[Len(handles) + 1].basin_id = req[r].id
      BY <1>0, <3>3, <3>4 DEF Typed
    <3>6. b = req[r].basin
      BY <1>0, <1>1, <2>2, <3>2 DEF Typed
    <3>7. id = req[r].id
      BY <1>0, <1>1, <3>2, <3>5, <3>6 DEF Typed
    <3> QED BY <1>1, <3>2, <3>6, <3>7 DEF Remembers
  <2> QED BY <2>1, <2>2
<1>2. ASSUME NEW h \in DOMAIN handles', NEW s \in Streams, handles'[h].streams[s] # 0,
             key = <<handles'[h].basin_id, s>>, id = actors'[handles'[h].streams[s]]
      PROVE  Remembers(key, id)
  <2>1. CASE h \in DOMAIN handles /\ handles[h].streams[s] # 0
    BY <1>0, <1>2, <2>1, CachedStays DEF Remembers
  <2>2. CASE h \notin DOMAIN handles
    <3>1. CacheBasin(r)
      <4>1. Quiet(r) => DOMAIN handles' = DOMAIN handles
        BY DEF Quiet
      <4>2. CacheStream(r) => DOMAIN handles' = DOMAIN handles
        BY <1>0, Released DEF CacheStream
      <4> QED
        BY <2>2, <4>1, <4>2, QuietOrNot, <1>0, Released
           DEF LoadBasin, NewBasin, LoadMetadata, NewMetadata, LoadBlock, NewBlock, memory
    <3>2. /\ handles' = Append(handles, [basin_id |-> req[r].id,
                                         streams |-> [t \in Streams |-> 0], stream_init |-> 0])
          /\ Len(handles) \in Nat /\ DOMAIN handles = 1 .. Len(handles)
      BY <1>0, <3>1, LenProperties DEF Typed, CacheBasin
    <3> DEFINE rec == [basin_id |-> req[r].id, streams |-> [t \in Streams |-> 0], stream_init |-> 0]
    <3>3. rec.streams[s] = 0
      OBVIOUS
    <3> HIDE DEF rec
    <3>4. handles' = Append(handles, rec)
      BY <3>2 DEF rec
    <3>5. handles'[h] = rec
      BY <1>0, <1>2, <2>2, <3>2, <3>4 DEF Typed
    <3> QED BY <1>2, <3>3, <3>5
  <2>3. CASE h \in DOMAIN handles /\ handles[h].streams[s] = 0
    <3>1. CacheStream(r)
      <4>1. Quiet(r) => handles'[h].streams[s] = 0
        BY <2>3 DEF Quiet
      <4>2. LoadMetadata(r) => handles'[h].streams[s] = 0
        BY <1>0, <2>3, Released DEF LoadMetadata
      <4>3. CacheBasin(r) => handles'[h].streams[s] = 0
        <5>1. Len(handles) \in Nat /\ DOMAIN handles = 1 .. Len(handles)
          BY <1>0, LenProperties DEF Typed
        <5> QED BY <1>0, <2>3, <5>1 DEF Typed, CacheBasin
      <4> QED
        BY <1>2, <2>3, <4>1, <4>2, <4>3, QuietOrNot
           DEF LoadBasin, NewBasin, NewMetadata, LoadBlock, NewBlock, memory
    <3>2. /\ At(r, "cache_stream") /\ actors' = actors
          /\ handles' = [ReleaseStreamInit(r)
                          EXCEPT ![req[r].handle].streams[req[r].stream] = req[r].actor]
      BY <3>1 DEF CacheStream
    <3>3. /\ req[r].handle \in DOMAIN handles /\ req[r].stream \in Streams
          /\ actors[req[r].actor] = req[r].id
      BY <3>2, RequestFacts DEF At, WithHandle, OnStream, StreamLocked, RequestInv, IdsHeld
    <3>4. handles[h].streams \in [Streams -> Nat] /\ handles[req[r].handle].streams \in [Streams -> Nat]
      BY <1>0, <2>3, <3>3, HandleFacts
    <3>5. h = req[r].handle /\ s = req[r].stream /\ handles'[h].streams[s] = req[r].actor
      <4> DEFINE R == ReleaseStreamInit(r)
      <4>1. DOMAIN R = DOMAIN handles /\ R[h].streams = handles[h].streams
            /\ R \in Seq(Handle)
        BY <1>0, <2>3, Released
      <4>2. handles' = [R EXCEPT ![req[r].handle].streams[req[r].stream] = req[r].actor]
        BY <3>2
      <4> HIDE DEF R
      <4>3. h # req[r].handle => handles'[h] = R[h]
        BY <2>3, <4>1, <4>2
      <4>4. h = req[r].handle
        BY <1>2, <2>3, <4>1, <4>3
      <4>5. R[h] \in Handle
        BY <2>3, <4>1, <1>0, Released, LenProperties DEF Typed
      <4>6. handles'[h].streams = [R[h].streams EXCEPT ![req[r].stream] = req[r].actor]
        BY <2>3, <4>1, <4>2, <4>4, <4>5 DEF Handle
      <4> QED BY <1>2, <2>3, <3>4, <4>1, <4>4, <4>6
    <3>6. handles'[h].basin_id = handles[h].basin_id
      BY <1>0, <2>3 DEF Grows
    <3>7. key = Key(r) /\ id = req[r].id
      BY <1>2, <3>2, <3>3, <3>5, <3>6 DEF Key, Mine
    <3> QED BY <3>2, <3>7 DEF Remembers, At
  <2> QED BY <2>1, <2>2, <2>3
<1>3. ASSUME NEW q \in Requests, At(q, "cache_basin")', key = req'[q].basin, id = req'[q].id
      PROVE  \/ Remembers(key, id)
             \/ key = req'[r].basin /\ id = req'[r].id /\ req'[r].pc = "cache_basin"
  BY <1>0, <1>3, HeldByOthers DEF Remembers, At
<1>4. ASSUME NEW q \in Requests, req'[q].pc \in {"load_block", "new_block", "cache_stream"},
             key = Key(q)', id = req'[q].id
      PROVE  \/ Remembers(key, id)
             \/ /\ key = Key(r)' /\ id = req'[r].id
                /\ req'[r].pc \in {"load_block", "new_block", "cache_stream"}
  <2>1. CASE q = r
    BY <1>4, <2>1
  <2>2. CASE q # r
    <3>1. req'[q] = req[q] /\ Key(q)' = Key(q)
      BY <1>0, <1>4, <2>2, HeldByOthers DEF WithHandle, OnStream, StreamLocked
    <3> QED BY <1>4, <3>1 DEF Remembers
  <2> QED BY <2>1, <2>2
<1> QED BY <1>1, <1>2, <1>3, <1>4 DEF Remembers

\* What memory takes for a key's id after a step, it did before, or it learnt.
LEMMA RemembersOrLearns ==
  ASSUME MemoryInv, NEW r \in Requests, Handler(r), NEW key, NEW id, Remembers(key, id)'
  PROVE  Remembers(key, id) \/ Learns(key, id)
<1>0. /\ Keeps(r) /\ Grows(r) /\ Typed /\ req[r] \in Request /\ lastId \in Nat
      /\ RequestInv(r)
  BY HandlerKeeps, RequestFacts DEF Keeps, Typed
<1>1. CASE key = req'[r].basin /\ id = req'[r].id /\ req'[r].pc = "cache_basin"
  <2>1. LoadBasin(r) \/ NewBasin(r)
    <3>1. ~Quiet(r)
      BY <1>1 DEF Quiet, Holding
    <3>2. CacheBasin(r) => req'[r].pc \in {"scan_streams", "find_stream"}
      BY <1>0 DEF CacheBasin, HasBasin, Typed, Request
    <3>3. CacheStream(r) => req'[r].pc = "ok"
      BY <1>0 DEF CacheStream, HasStream, NotArrived, Typed
    <3>4. LoadBlock(r) \/ NewBlock(r) => req'[r].pc = "cache_stream"
      BY <1>0 DEF LoadBlock, NewBlock, Spawn, Typed, Request
    <3>5. LoadMetadata(r) => req'[r].pc \in {"load_block", "new_metadata", "not_found"}
      BY <1>0 DEF LoadMetadata, GoTo, EndNotFound, Status, MapStreamNotFound, Typed, Request
    <3>6. NewMetadata(r) => req'[r].pc = "new_block"
      BY <1>0 DEF NewMetadata, Typed, Request
    <3> QED BY <1>1, <3>1, <3>2, <3>3, <3>4, <3>5, <3>6, QuietOrNot
  <2>2. CASE LoadBasin(r)
    <3>1. req'[r].pc # "new_basin" /\ req'[r].pc # "not_found"
      BY <1>1
    <3>2. /\ req[r].basin \in DOMAIN meta /\ UNCHANGED stored
          /\ req' = [req EXCEPT ![r].id = meta[req[r].basin], ![r].pc = "cache_basin"]
      BY <1>0, <2>2, <3>1 DEF LoadBasin, GoTo, EndNotFound, Status, Typed, Request
    <3>3. req'[r].basin = req[r].basin /\ req'[r].id = meta[req[r].basin]
      BY <1>0, <3>2 DEF Typed, Request
    <3> QED BY <1>1, <3>2, <3>3 DEF Learns, Stores
  <2>3. CASE NewBasin(r)
    <3>1. PutNewId(req[r].basin)
          /\ req' = [req EXCEPT ![r].id = lastId', ![r].pc = "cache_basin"]
      BY <2>3 DEF NewBasin
    <3>2. req'[r].basin = req[r].basin /\ req'[r].id = lastId'
      BY <1>0, <3>1 DEF Typed, Request
    <3> QED BY <1>1, <3>1, <3>2 DEF Learns
  <2> QED BY <2>1, <2>2, <2>3
<1>2. CASE /\ key = Key(r)' /\ id = req'[r].id
           /\ req'[r].pc \in {"load_block", "new_block", "cache_stream"}
  <2>1. LoadMetadata(r) \/ NewMetadata(r) \/ LoadBlock(r) \/ NewBlock(r)
    <3>1. ~Quiet(r)
      BY <1>2 DEF Quiet, Holding
    <3>2. CacheBasin(r) => req'[r].pc \in {"scan_streams", "find_stream"}
      BY <1>0 DEF CacheBasin, HasBasin, Typed, Request
    <3>3. CacheStream(r) => req'[r].pc = "ok"
      BY <1>0 DEF CacheStream, HasStream, NotArrived, Typed
    <3>4. NewBasin(r) => req'[r].pc = "cache_basin"
      BY <1>0 DEF NewBasin, Typed, Request
    <3>5. LoadBasin(r) => req'[r].pc \in {"cache_basin", "new_basin", "not_found"}
      BY <1>0 DEF LoadBasin, GoTo, EndNotFound, Status, Typed, Request
    <3> QED BY <1>2, <3>1, <3>2, <3>3, <3>4, <3>5, QuietOrNot
  <2>2. req[r].handle \in DOMAIN handles
    BY <2>1, RequestFacts
       DEF LoadMetadata, NewMetadata, LoadBlock, NewBlock, At, WithHandle, OnStream, StreamLocked
  <2>3. ASSUME req'[r].handle = req[r].handle, req'[r].stream = req[r].stream
        PROVE  Key(r)' = Key(r)
    BY <1>0, <2>2, <2>3 DEF Grows, Key, Mine
  <2>4. CASE LoadMetadata(r)
    <3>1. req'[r].pc # "new_metadata" /\ req'[r].pc # "not_found"
      BY <1>2
    <3>2. /\ Key(r) \in DOMAIN meta /\ UNCHANGED stored
          /\ req' = [req EXCEPT ![r].id = meta[Key(r)], ![r].pc = "load_block"]
      BY <1>0, <2>4, <3>1
         DEF LoadMetadata, GoTo, EndNotFound, Status, MapStreamNotFound, Typed, Request
    <3>3. /\ req'[r].handle = req[r].handle /\ req'[r].stream = req[r].stream
          /\ req'[r].id = meta[Key(r)]
      BY <1>0, <3>2 DEF Typed, Request
    <3> QED BY <1>2, <2>3, <3>2, <3>3 DEF Learns, Stores
  <2>5. CASE NewMetadata(r)
    <3>1. PutNewId(Key(r)) /\ req' = [req EXCEPT ![r].id = lastId', ![r].pc = "new_block"]
      BY <2>5 DEF NewMetadata
    <3>2. /\ req'[r].handle = req[r].handle /\ req'[r].stream = req[r].stream
          /\ req'[r].id = lastId'
      BY <1>0, <3>1 DEF Typed, Request
    <3> QED BY <1>2, <2>3, <3>1, <3>2 DEF Learns
  <2>6. CASE LoadBlock(r) \/ NewBlock(r)
    <3>1. Spawn(r, req[r].id) /\ req[r].pc \in {"load_block", "new_block"}
      BY <2>6 DEF LoadBlock, NewBlock, At
    <3>2. /\ req'[r].handle = req[r].handle /\ req'[r].stream = req[r].stream
          /\ req'[r].id = req[r].id
      BY <1>0, <3>1 DEF Spawn, Typed, Request
    <3> QED BY <1>2, <2>3, <3>1, <3>2 DEF Remembers
  <2> QED BY <2>1, <2>4, <2>5, <2>6
<1> QED BY <1>1, <1>2, CachedLearns

\* A stream is given to an append by the names and ids memory has for it.
LEMMA GivesRemembered ==
  ASSUME MemoryInv, NEW r \in Requests, Handler(r)
  PROVE  \/ given' = given
         \/ /\ req[r].kind = "append" /\ UNCHANGED stored
            /\ \E id : /\ given' = given \cup {[basin |-> req[r].basin, stream |-> req[r].stream,
                                                basin_id |-> Mine(r).basin_id, stream_id |-> id]}
                       /\ Remembers(req[r].basin, Mine(r).basin_id) /\ Remembers(Key(r), id)
                       /\ id \in 1 .. lastId
                       /\ req[r].pc \in OnStream
<1>1. Typed /\ RequestInv(r)
  BY RequestFacts
<1>2. ASSUME FindStream(r) \/ LockStream(r) \/ CacheStream(r)
      PROVE  /\ req[r].pc \in OnStream /\ req[r].handle \in DOMAIN handles /\ req[r].stream \in Streams
             /\ req[r].basin \in Basins /\ Remembers(req[r].basin, Mine(r).basin_id)
             /\ UNCHANGED stored /\ actors' = actors
  <2>1. req[r].pc \in OnStream
    BY <1>2 DEF FindStream, LockStream, CacheStream, At, OnStream, StreamLocked
  <2>2. /\ req[r].handle \in DOMAIN handles /\ req[r].stream \in Streams
        /\ req[r].basin \in Basins /\ cached[req[r].basin] = req[r].handle
        /\ req[r].handle # 0
    BY <1>1, <2>1, RequestFacts DEF RequestInv, LocksHeld, WithHandle
  <2>3. Remembers(req[r].basin, Mine(r).basin_id)
    BY <2>2 DEF Remembers, Mine
  <2> QED BY <1>2, <2>1, <2>2, <2>3 DEF FindStream, LockStream, CacheStream, memory
<1>3. CASE FindStream(r) \/ LockStream(r)
  <2> DEFINE a == Mine(r).streams[req[r].stream]
  <2>1. given' = given \/ (a # 0 /\ HasStream(r, a))
    BY <1>3 DEF FindStream, LockStream
  <2>2. CASE a # 0 /\ HasStream(r, a)
    <3>1. Remembers(Key(r), actors[a])
      BY <1>2, <1>3, <2>2 DEF Remembers, Mine, Key
    <3>2. actors[a] \in 1 .. lastId
      <4>1. a \in 1 .. Len(actors)
        BY <1>2, <1>3, <2>2, <1>1, LenProperties DEF MemoryInv, HandlesCached, Mine, Typed
      <4> QED BY <1>1, <4>1, ElementOfSeq DEF Typed
    <3>3. given' = given \/
            (/\ req[r].kind = "append"
             /\ given' = given \cup {[basin |-> req[r].basin, stream |-> req[r].stream,
                                      basin_id |-> Mine(r).basin_id, stream_id |-> actors[a]]})
      BY <1>2, <1>3, <2>2 DEF HasStream
    <3> QED BY <1>2, <1>3, <3>1, <3>2, <3>3
  <2> QED BY <2>1, <2>2
<1>4. CASE CacheStream(r)
  <2>1. /\ HasStream(r, req[r].actor) /\ At(r, "cache_stream")
        /\ actors[req[r].actor] = req[r].id /\ req[r].id \in 1 .. lastId
    BY <1>1, <1>4 DEF CacheStream, RequestInv, IdsHeld, At
  <2>2. Remembers(Key(r), req[r].id)
    BY <2>1 DEF Remembers, At
  <2>3. given' = given \/
          (/\ req[r].kind = "append"
           /\ given' = given \cup {[basin |-> req[r].basin, stream |-> req[r].stream,
                                    basin_id |-> Mine(r).basin_id, stream_id |-> req[r].id]})
    BY <1>2, <1>4, <2>1 DEF HasStream
  <2> QED BY <1>2, <1>4, <2>1, <2>2, <2>3
<1>5. ASSUME NEW kind, NEW basin, NEW stream, Arrive(r, kind, basin, stream)
      PROVE  given' = given
  BY <1>5 DEF Arrive
<1>6. CASE \/ FindBasin(r) \/ LockBasin(r) \/ LoadBasin(r) \/ NewBasin(r) \/ CacheBasin(r)
           \/ LoadMetadata(r) \/ LoadBlock(r) \/ NewMetadata(r) \/ NewBlock(r)
           \/ ScanBasins(r) \/ ScanStreams(r) \/ StorageError(r) \/ Drop(r) \/ DropWriting(r)
  BY <1>6 DEF FindBasin, LockBasin, LoadBasin, NewBasin, CacheBasin, LoadMetadata, LoadBlock,
              NewMetadata, NewBlock, ScanBasins, ScanStreams, StorageError, Drop, DropWriting,
              Abandon
<1> QED
  BY <1>3, <1>4, <1>5, <1>6
     DEF Handler, Advance, AppendArrives, ReadArrives, ListBasinsArrives, ListStreamsArrives

-----------------------------------------------------------------------------
(* MemoryInv is inductive. *)

\* An id that is claimed after a step was claimed before, or is new and claims
\* one key.
ClaimsGrow(key0) ==
  \A key, id : Claims(key, id)' => Claims(key, id) \/ (key = key0 /\ id = lastId + 1 /\ id = lastId')

LEMMA OneKeyKept ==
  ASSUME OneKeyPerId, lastId \in Nat, lastId' \in {lastId, lastId + 1}, NEW key0, ClaimsGrow(key0)
  PROVE  OneKeyPerId'
<1>1. ASSUME NEW k, NEW l, NEW i, Claims(k, i)', Claims(l, i)'
      PROVE  k = l
  BY <1>1 DEF OneKeyPerId, ClaimsGrow
<1>2. ASSUME NEW k, NEW i, Claims(k, i)'
      PROVE  i \in 1 .. lastId'
  BY <1>2 DEF OneKeyPerId, ClaimsGrow
<1> QED BY <1>1, <1>2 DEF OneKeyPerId

LEMMA HandlerClaims ==
  ASSUME MemoryInv, NEW r \in Requests, Handler(r)
  PROVE  \E key0 : ClaimsGrow(key0)
<1>1. Typed /\ lastId \in Nat /\ \A k \in DOMAIN meta : meta[k] \in 1 .. lastId
  BY TypedFacts DEF Typed
<1>2. CASE UNCHANGED stored
  <2>1. meta' = meta /\ late' = late /\ lastId' = lastId
    BY <1>2 DEF stored
  <2>2. ASSUME NEW key, NEW id, Claims(key, id)'
        PROVE  Claims(key, id)
    <3>1. \A k : ~PutNewId(k)
      BY <1>1, <2>1 DEF PutNewId
    <3>2. Remembers(key, id)' => Remembers(key, id) \/ Stores(key, id)
      BY <3>1, RemembersOrLearns DEF Learns
    <3> QED BY <2>1, <2>2, <3>2 DEF Claims, Stores
  <2> QED BY <2>2 DEF ClaimsGrow
<1>3. CASE PutsNow(r)
  <2>1. PICK key0 : PutNewId(key0)
    BY <1>3 DEF PutsNow
  <2>2. /\ late' = late /\ lastId' = lastId + 1
        /\ meta' = [k \in DOMAIN meta \cup {key0} |-> IF k = key0 THEN lastId' ELSE meta[k]]
    BY <2>1 DEF PutNewId, Put
  <2>3. ASSUME NEW key, PutNewId(key)
        PROVE  key = key0
    <3>1. key \in DOMAIN meta' /\ meta'[key] = lastId'
      BY <2>3 DEF PutNewId, Put
    <3> QED BY <1>1, <2>2, <3>1
  <2>4. ASSUME NEW key, NEW id, Claims(key, id)'
        PROVE  Claims(key, id) \/ (key = key0 /\ id = lastId + 1 /\ id = lastId')
    <3>1. Remembers(key, id)' => Remembers(key, id) \/ (key = key0 /\ id = lastId')
      BY <1>1, <2>2, <2>3, RemembersOrLearns DEF Learns, stored
    <3>2. Stores(key, id)' => Stores(key, id) \/ (key = key0 /\ id = lastId')
      BY <2>2 DEF Stores
    <3> QED BY <2>2, <2>4, <3>1, <3>2 DEF Claims
  <2> QED BY <2>4 DEF ClaimsGrow
<1>4. CASE PutsLate(r)
  <2>1. PICK key0 : late' = Append(late, [key |-> key0, id |-> lastId + 1])
    BY <1>4 DEF PutsLate
  <2>2. lastId' = lastId + 1 /\ meta' = meta
    BY <1>4 DEF PutsLate
  <2>3. late \in Seq(Write) /\ Len(late) \in Nat /\ DOMAIN late = 1 .. Len(late)
    BY <1>1, LenProperties DEF Typed
  <2> DEFINE w == [key |-> key0, id |-> lastId + 1]
  <2>4. w.key = key0 /\ w.id = lastId + 1
    OBVIOUS
  <2> HIDE DEF w
  <2>5. /\ DOMAIN late' = 1 .. Len(late) + 1 /\ late' # late
        /\ \A n \in 1 .. Len(late) : late'[n] = late[n]
        /\ late'[Len(late) + 1] = w
    <3>1. late' = Append(late, w)
      BY <2>1 DEF w
    <3>2. late \in Seq(Write \cup {w})
      BY <2>3, SeqMonotonic
    <3>3. /\ late' \in Seq(Write \cup {w}) /\ Len(late') = Len(late) + 1
          /\ \A n \in 1 .. Len(late) : late'[n] = late[n]
          /\ late'[Len(late) + 1] = w
      BY <3>1, <3>2, AppendProperties
    <3>4. DOMAIN late' = 1 .. Len(late')
      BY <3>3, LenProperties
    <3>5. \A n \in Nat : n + 1 # n
      OBVIOUS
    <3>6. late' # late
      BY <2>3, <3>3, <3>5
    <3> QED BY <3>3, <3>4, <3>6
  <2>6. ASSUME NEW key, NEW id, Claims(key, id)'
        PROVE  Claims(key, id) \/ (key = key0 /\ id = lastId + 1 /\ id = lastId')
    <3>1. Remembers(key, id)' => Remembers(key, id)
      BY <2>5, RemembersOrLearns DEF Learns, stored, PutNewId
    <3>2. Stores(key, id)' => Stores(key, id)
      BY <2>2 DEF Stores
    <3>3. ASSUME NEW n \in DOMAIN late', late'[n].key = key, late'[n].id = id
          PROVE  \/ \E m \in DOMAIN late : late[m].key = key /\ late[m].id = id
                 \/ key = key0 /\ id = lastId + 1
      <4>1. CASE n \in 1 .. Len(late)
        BY <2>3, <2>5, <3>3, <4>1
      <4>2. CASE n = Len(late) + 1
        BY <2>4, <2>5, <3>3, <4>2
      <4> QED BY <2>3, <2>5, <4>1, <4>2
    <3> QED BY <2>2, <2>6, <3>1, <3>2, <3>3 DEF Claims
  <2> QED BY <2>6 DEF ClaimsGrow
<1> QED BY <1>1, <1>2, <1>3, <1>4, HandlerStores

LEMMA LateWriteClaims ==
  ASSUME MemoryInv, LateWrite
  PROVE  /\ \A key, id : Claims(key, id)' => Claims(key, id)
         /\ \A key, id : Remembers(key, id)' <=> Remembers(key, id)
<1>1. /\ late \in Seq(Write) /\ Len(late) \in Nat /\ DOMAIN late = 1 .. Len(late) /\ Len(late) # 0
      /\ late' = Tail(late)
      /\ meta' = [k \in DOMAIN meta \cup {late[1].key} |->
                    IF k = late[1].key THEN late[1].id ELSE meta[k]]
  BY TypedFacts, LenProperties, EmptySeq DEF LateWrite, Put, Typed
<1>2. UNCHANGED <<lastId, memory, req, given>>
  BY DEF LateWrite
<1>3. \A key, id : Remembers(key, id)' <=> Remembers(key, id)
  BY <1>2 DEF memory, Remembers, At, Key, Mine
<1>4. DOMAIN late' = 1 .. Len(late) - 1 /\ \A n \in DOMAIN late' : late'[n] = late[n + 1]
  BY <1>1, HeadTailProperties, LenProperties
<1>5. ASSUME NEW key, NEW id, Claims(key, id)'
      PROVE  Claims(key, id)
  <2>1. Stores(key, id)' => Claims(key, id)
    <3>1. 1 \in DOMAIN late
      BY <1>1
    <3> QED BY <1>1, <3>1 DEF Stores, Claims
  <2>2. ASSUME NEW n \in DOMAIN late', late'[n].key = key, late'[n].id = id
        PROVE  Claims(key, id)
    <3>1. n + 1 \in DOMAIN late
      BY <1>1, <1>4
    <3> QED BY <1>4, <2>2, <3>1 DEF Claims
  <2>3. Remembers(key, id)' => Claims(key, id)
    BY <1>3 DEF Claims
  <2> QED BY <1>5, <2>1, <2>2, <2>3 DEF Claims
<1> QED BY <1>3, <1>5

\* What append was given stays typed as ids grow.
LEMMA GivenStays ==
  ASSUME MemoryInv, NEW r \in Requests, Handler(r), lastId' \in {lastId, lastId + 1}
  PROVE  GivenTyped'
<1>1. lastId \in Nat
  BY TypedFacts DEF Typed
<1>2. 1 .. lastId \subseteq 1 .. lastId'
  BY <1>1
<1>3. GivenTyped
  BY DEF MemoryInv
<1>4. CASE given' = given
  BY <1>2, <1>3, <1>4 DEF GivenTyped
<1>5. ASSUME NEW id \in 1 .. lastId, req[r].pc \in OnStream,
             given' = given \cup {[basin |-> req[r].basin, stream |-> req[r].stream,
                                   basin_id |-> Mine(r).basin_id, stream_id |-> id]}
      PROVE  GivenTyped'
  <2>1. req[r].basin \in Basins /\ req[r].stream \in Streams /\ Mine(r).basin_id \in 1 .. lastId
    BY <1>5, RequestFacts DEF WithHandle
  <2> QED BY <1>2, <1>3, <1>5, <2>1 DEF GivenTyped
<1> QED BY <1>4, <1>5, GivesRemembered

LEMMA MemoryInvFrom ==
  ASSUME Typed', \A r \in Requests : RequestInv(r)' /\ StreamInitOf(r)',
         HandlesCached', GivenTyped', OneKeyPerId'
  PROVE  MemoryInv'
<1>1. (Typed /\ \A r \in Requests : RequestInv(r) /\ StreamInitOf(r))'
  OBVIOUS
<1>2. TypeOK'
  BY <1>1, TypeOKIs, PTL
<1> QED BY <1>2 DEF MemoryInv, Typed

LEMMA CrashTyped ==
  ASSUME MemoryInv, Crash
  PROVE  /\ req' \in [Requests -> Request] /\ MemoryTyped'
         /\ \A r \in Requests : RequestInv(r)' /\ StreamInitOf(r)'
         /\ \A r \in Requests : /\ req'[r].pc \notin Running /\ req'[r].actor = 0
                                /\ \/ req'[r] = [req[r] EXCEPT !.actor = 0]
                                   \/ req'[r] = [NotArrived EXCEPT !.pc = "dropped"]
         /\ HandlesCached' /\ \A key, id : ~Remembers(key, id)'
<1>1. Typed
  BY TypedFacts
<1>2. /\ cached' = [b \in Basins |-> 0] /\ basinInit' = 0 /\ handles' = << >> /\ actors' = << >>
      /\ UNCHANGED <<meta, lastId, given>>
  BY DEF Crash
<1>3. DOMAIN handles' = {} /\ Len(handles') = 0
  BY <1>2
<1>4. ASSUME NEW r \in Requests
      PROVE  /\ req'[r] \in Request
             /\ req'[r].pc \notin Running /\ req'[r].actor = 0
             /\ \/ req'[r] = [req[r] EXCEPT !.actor = 0]
                \/ req'[r] = [NotArrived EXCEPT !.pc = "dropped"]
  <2>1. req[r] \in Request
    BY <1>1 DEF Typed
  <2>2. req'[r] = IF req[r].pc \in Running THEN [NotArrived EXCEPT !.pc = "dropped"]
                  ELSE [req[r] EXCEPT !.actor = 0]
    BY DEF Crash
  <2>3. CASE req[r].pc \in Running
    <3>1. NotArrived \in Request
      <4> HIDE DEF Running, Ended
      <4> QED BY DEF Request, NotArrived, Kinds
    <3>2. [NotArrived EXCEPT !.pc = "dropped"] \in Request
      <4> HIDE DEF Running, Kinds, NotArrived
      <4> QED BY <3>1 DEF Request, Ended
    <3> QED BY <2>2, <2>3, <3>2 DEF NotArrived, Running, Storing
  <2>4. CASE req[r].pc \notin Running
    <3> HIDE DEF Running, Kinds, Ended
    <3>1. [req[r] EXCEPT !.actor = 0] \in Request
      BY <2>1 DEF Request
    <3>2. [req[r] EXCEPT !.actor = 0].pc = req[r].pc /\ [req[r] EXCEPT !.actor = 0].actor = 0
      BY <2>1 DEF Request
    <3> QED BY <2>2, <2>4, <3>1, <3>2
  <2> QED BY <2>3, <2>4
<1>5. req' \in [Requests -> Request]
  <2>1. req' = [r \in Requests |-> req'[r]]
    BY DEF Crash
  <2> QED BY <1>4, <2>1
<1>6. MemoryTyped'
  <2>1. handles' \in Seq(Handle') /\ actors' \in Seq(1 .. lastId')
    BY <1>2, EmptySeq
  <2>2. cached' \in [Basins -> 0 .. Len(handles')]
    BY <1>2, <1>3
  <2> QED BY <1>2, <2>1, <2>2 DEF MemoryTyped, Handle
<1>7. ASSUME NEW r \in Requests
      PROVE  RequestInv(r)' /\ StreamInitOf(r)'
  <2>1. r # 0
    BY DirectoryAssumption DEF Requests
  <2>2. req'[r].pc \notin BasinLocked /\ req'[r].pc \notin WithHandle /\ req'[r].pc \notin StreamLocked
        /\ req'[r].pc \notin Holding
    BY <1>4 DEF Running, Storing, BasinLocked, WithHandle, OnStream, StreamLocked, Holding
  <2>3. NamesFit(r)'
    BY <1>4 DEF NamesFit
  <2>4. LocksHeld(r)'
    BY <1>2, <2>1, <2>2 DEF LocksHeld
  <2>5. IdsHeld(r)'
    BY <1>4, <2>2 DEF IdsHeld, Holding, At
  <2> QED BY <1>3, <2>3, <2>4, <2>5 DEF RequestInv, StreamInitOf
<1>8. HandlesCached'
  BY <1>2, <1>3 DEF HandlesCached
<1>9. ASSUME NEW key, NEW id
      PROVE  ~Remembers(key, id)'
  <2>1. \A r \in Requests : req'[r].pc \notin Holding
    BY <1>4 DEF Running, Storing, Holding
  <2> QED BY <1>2, <1>3, <2>1 DEF Remembers, Holding, At
<1> QED BY <1>4, <1>5, <1>6, <1>7, <1>8, <1>9

LEMMA CrashClaims ==
  ASSUME MemoryInv, Crash
  PROVE  \A key, id : Claims(key, id)' => Claims(key, id)
<1>1. late' = << >> /\ meta' = meta
  BY DEF Crash
<1> QED BY <1>1, CrashTyped DEF Claims, Stores

LEMMA MemoryInvInit ==
  ASSUME Init
  PROVE  MemoryInv
<1>1. DOMAIN meta = {} /\ DOMAIN late = {} /\ DOMAIN handles = {} /\ Len(handles) = 0
  BY DEF Init
<1>2. \A r \in Requests : r # 0 /\ req[r] = NotArrived /\ NotArrived.pc = "new" /\ NotArrived.actor = 0
  BY DirectoryAssumption DEF Init, Requests, NotArrived
<1>3. Typed
  <2>1. NotArrived \in Request
    <3> HIDE DEF Running, Ended
    <3> QED BY DEF Request, NotArrived, Kinds
  <2>2. req \in [Requests -> Request]
    BY <2>1 DEF Init
  <2>3. handles \in Seq(Handle) /\ late \in Seq(Write) /\ actors \in Seq(1 .. lastId)
    BY EmptySeq DEF Init
  <2>4. cached \in [Basins -> 0 .. Len(handles)]
    BY <1>1 DEF Init
  <2> QED BY <1>1, <2>2, <2>3, <2>4 DEF Init, Typed
<1>4. ASSUME NEW r \in Requests
      PROVE  RequestInv(r) /\ StreamInitOf(r)
  <2>1. req[r].pc = "new" /\ req[r].actor = 0 /\ basinInit # r
    BY <1>2 DEF Init
  <2> QED
    BY <1>1, <2>1
       DEF RequestInv, NamesFit, LocksHeld, IdsHeld, StreamInitOf, At, Running, Storing,
           BasinLocked, WithHandle, OnStream, StreamLocked
<1>5. HandlesCached /\ GivenTyped
  BY <1>1 DEF HandlesCached, GivenTyped, Init
<1>6. \A key, id : ~Claims(key, id)
  BY <1>1, <1>2 DEF Claims, Stores, Remembers, At, Init
<1>7. OneKeyPerId
  BY <1>6 DEF OneKeyPerId
<1>8. TypeOK
  BY <1>3, <1>4, TypeOKIs
<1> QED BY <1>3, <1>4, <1>5, <1>7, <1>8 DEF MemoryInv, Typed

LEMMA MemoryInvKept ==
  ASSUME MemoryInv, [Next]_vars
  PROVE  MemoryInv'
<1>1. /\ Typed /\ lastId \in Nat /\ HandlesCached /\ GivenTyped /\ OneKeyPerId
      /\ \A r \in Requests : RequestInv(r) /\ StreamInitOf(r)
  BY TypedFacts DEF MemoryInv, Typed
<1>2. /\ \A k \in DOMAIN meta' : k \in Keys' /\ meta'[k] \in 1 .. lastId'
      /\ late' \in Seq(Write') /\ lastId' \in Nat
      /\ lastId' \in {lastId, lastId + 1}
  BY StorageTyped
<1>3. ASSUME NEW r \in Requests, Handler(r)
      PROVE  MemoryInv'
  <2>1. Keeps(r)
    BY <1>3, HandlerKeeps
  <2>2. req' \in [Requests -> Request]
    BY <1>1, <2>1, MovesFacts DEF Keeps
  <2>3. Typed'
    BY <1>2, <2>1, <2>2 DEF Typed, Keeps, MemoryTyped
  <2>4. \A q \in Requests : RequestInv(q)' /\ StreamInitOf(q)'
    <3>1. \A q \in Requests \ {r} : RequestInv(q)' /\ StreamInitOf(q)'
      BY <2>1, OthersKeep DEF Keeps
    <3> QED BY <2>1, <3>1 DEF Keeps
  <2>5. GivenTyped'
    BY <1>2, <1>3, GivenStays
  <2>6. OneKeyPerId'
    BY <1>1, <1>2, <1>3, HandlerClaims, OneKeyKept
  <2> QED BY <2>1, <2>3, <2>4, <2>5, <2>6, MemoryInvFrom DEF Keeps
<1>4. CASE LateWrite
  <2>1. UNCHANGED <<lastId, memory, req, given>>
    BY <1>4 DEF LateWrite
  <2>2. Typed'
    BY <1>1, <1>2, <2>1 DEF Typed, memory
  <2>3. \A r \in Requests : RequestInv(r)' /\ StreamInitOf(r)'
    BY <1>1, <2>1
       DEF memory, RequestInv, NamesFit, LocksHeld, IdsHeld, StreamInitOf, At, Mine
  <2>4. HandlesCached' /\ GivenTyped'
    BY <1>1, <2>1 DEF memory, HandlesCached, GivenTyped
  <2>5. OneKeyPerId'
    BY <1>1, <1>4, <2>1, LateWriteClaims DEF OneKeyPerId
  <2> QED BY <2>2, <2>3, <2>4, <2>5, MemoryInvFrom
<1>5. CASE Crash
  <2>1. lastId' = lastId /\ given' = given
    BY <1>5 DEF Crash
  <2>2. Typed'
    BY <1>2, <1>5, CrashTyped DEF Typed, MemoryTyped
  <2>3. GivenTyped'
    BY <1>1, <2>1 DEF GivenTyped
  <2>4. OneKeyPerId'
    BY <1>1, <1>5, <2>1, CrashClaims DEF OneKeyPerId
  <2> QED BY <1>5, <2>2, <2>3, <2>4, CrashTyped, MemoryInvFrom
<1>6. CASE UNCHANGED vars
  <2>1. UNCHANGED <<meta, late, lastId, cached, basinInit, handles, actors, req, given>>
    BY <1>6 DEF vars, stored, memory
  <2>2. Typed'
    BY <1>1, <1>2, <2>1 DEF Typed
  <2>3. \A r \in Requests : RequestInv(r)' /\ StreamInitOf(r)'
    BY <1>1, <2>1
       DEF RequestInv, NamesFit, LocksHeld, IdsHeld, StreamInitOf, At, Mine
  <2>4. HandlesCached' /\ GivenTyped'
    BY <1>1, <2>1 DEF HandlesCached, GivenTyped
  <2>5. \A key, id : Claims(key, id)' => Claims(key, id)
    BY <2>1 DEF Claims, Stores, Remembers, At, Key, Mine
  <2>6. OneKeyPerId'
    BY <1>1, <2>1, <2>5 DEF OneKeyPerId
  <2> QED BY <2>2, <2>3, <2>4, <2>6, MemoryInvFrom
<1> QED BY <1>3, <1>4, <1>5, <1>6 DEF Next, Handler, AllEnded

\* Every reachable state has memory in order: who holds a lock works under it,
\* what is made under a lock is missing, and each id was drawn for one key.
THEOREM MemoryInvHolds == Spec => []MemoryInv
<1>1. MemoryInv /\ [Next]_vars => MemoryInv'
  BY MemoryInvKept
<1> QED BY MemoryInvInit, <1>1, PTL DEF Spec

\* The directory's state has its types, and a lock is held where the code holds
\* its guard: basin_init while a basin is loaded or made and cached, stream_init
\* while a stream is.
THEOREM DirectoryTypeCorrect == Spec => []TypeOK
<1>1. MemoryInv => TypeOK
  BY DEF MemoryInv
<1> QED BY <1>1, MemoryInvHolds, PTL

\* Actors that serve one stream are one.
LEMMA OneActorIfOneKey ==
  ASSUME MemoryInv
  PROVE  OneActorPerStream
<1>1. /\ Typed /\ HandlesCached /\ OneKeyPerId
      /\ \A r \in Requests : RequestInv(r)
  BY TypedFacts DEF MemoryInv
<1>2. ASSUME NEW a \in Reachable \ {0}
      PROVE  \E h \in DOMAIN handles, s \in Streams : handles[h].streams[s] = a
  BY <1>1, <1>2 DEF Reachable, RequestInv, IdsHeld, At
<1>3. ASSUME NEW a \in Reachable \ {0}, NEW b \in Reachable \ {0}, actors[a] = actors[b]
      PROVE  a = b
  <2>1. PICK h \in DOMAIN handles, s \in Streams : handles[h].streams[s] = a
    BY <1>2
  <2>2. PICK g \in DOMAIN handles, t \in Streams : handles[g].streams[t] = b
    BY <1>2, <1>3
  <2>3. Remembers(<<handles[h].basin_id, s>>, actors[a])
        /\ Remembers(<<handles[g].basin_id, t>>, actors[a])
    BY <1>3, <2>1, <2>2 DEF Remembers
  <2>4. <<handles[h].basin_id, s>> = <<handles[g].basin_id, t>>
    BY <1>1, <2>3 DEF OneKeyPerId, Claims
  <2>5. PICK c \in Basins, d \in Basins : cached[c] = h /\ cached[d] = g
    BY <1>1 DEF HandlesCached
  <2>6. h # 0 /\ g # 0
    BY <1>1, HandleFacts
  <2>7. Remembers(c, handles[h].basin_id) /\ Remembers(d, handles[g].basin_id)
    BY <2>5, <2>6 DEF Remembers
  <2>8. c = d
    BY <1>1, <2>4, <2>7 DEF OneKeyPerId, Claims
  <2> QED BY <2>1, <2>2, <2>4, <2>5, <2>8
<1> QED BY <1>3 DEF OneActorPerStream

\* No two actors serve one stream, whatever is dropped, fails or stops, and
\* however many writes are late: an id was drawn for one key, and get_stream
\* caches one actor under it.
THEOREM StreamsHaveOneActor == Spec => []OneActorPerStream
<1>1. MemoryInv => OneActorPerStream
  BY OneActorIfOneKey
<1> QED BY <1>1, MemoryInvHolds, PTL

-----------------------------------------------------------------------------
(* A writer is alone with its key. *)

\* The key of a basin is not the key of a stream.
LEMMA KeysDiffer ==
  ASSUME MemoryInv, NEW h \in DOMAIN handles, NEW s \in Streams, NEW b \in Basins
  PROVE  <<handles[h].basin_id, s>> # b
<1>1. handles[h].basin_id \in Nat
  BY TypedFacts, HandleFacts DEF Handle
<1> QED BY <1>1, DirectoryAssumption

\* There is one handle for each basin id.
LEMMA HandlesDiffer ==
  ASSUME MemoryInv, NEW g \in DOMAIN handles, NEW h \in DOMAIN handles,
         handles[g].basin_id = handles[h].basin_id
  PROVE  g = h
<1>1. Typed /\ HandlesCached /\ OneKeyPerId /\ g # 0 /\ h # 0
  BY TypedFacts, HandleFacts DEF MemoryInv
<1>2. PICK c \in Basins, d \in Basins : cached[c] = g /\ cached[d] = h
  BY <1>1 DEF HandlesCached
<1>3. Remembers(c, handles[g].basin_id) /\ Remembers(d, handles[g].basin_id)
  BY <1>1, <1>2 DEF Remembers
<1>4. c = d
  BY <1>1, <1>3 DEF OneKeyPerId, Claims
<1> QED BY <1>2, <1>4

\* A request that works on a stream has its key to itself.
LEMMA OnKey ==
  ASSUME MemoryInv, NEW r \in Requests, req[r].pc \in StreamLocked
  PROVE  /\ req[r].handle \in DOMAIN handles /\ req[r].stream \in Streams
         /\ Key(r) = <<handles[req[r].handle].basin_id, req[r].stream>>
         /\ handles[req[r].handle].stream_init = r
         /\ handles[req[r].handle].streams[req[r].stream] = 0
BY RequestFacts DEF WithHandle, OnStream, Key, Mine, RequestInv, LocksHeld

LEMMA WriterForgets ==
  ASSUME MemoryInv, NEW r \in Requests, NEW key, Writes(r, key), NEW id
  PROVE  ~Remembers(key, id)
<1>1. /\ \A q \in Requests : RequestInv(q)
      /\ RequestInv(r)
  BY DEF MemoryInv
<1>2. CASE At(r, "new_basin") /\ key = req[r].basin
  <2>1. /\ key \in Basins /\ cached[key] = 0 /\ basinInit = r
    BY <1>1, <1>2, RequestFacts DEF At, BasinLocked, RequestInv, LocksHeld
  <2>2. \A q \in Requests : ~At(q, "cache_basin")
    BY <1>1, <1>2, <2>1 DEF At, BasinLocked, RequestInv, LocksHeld
  <2>3. \A q \in Requests : req[q].pc \in StreamLocked => Key(q) # key
    BY <2>1, OnKey, KeysDiffer
  <2> QED BY <2>1, <2>2, <2>3, KeysDiffer DEF Remembers, StreamLocked
<1>3. CASE At(r, "new_metadata") /\ key = Key(r)
  <2> DEFINE h == req[r].handle
             s == req[r].stream
  <2>1. /\ h \in DOMAIN handles /\ s \in Streams /\ key = <<handles[h].basin_id, s>>
        /\ handles[h].stream_init = r /\ handles[h].streams[s] = 0
    BY <1>3, OnKey DEF At, StreamLocked
  <2>2. \A b \in Basins : key # b
    BY <2>1, KeysDiffer
  <2>3. \A q \in Requests : At(q, "cache_basin") => req[q].basin \in Basins
    BY RequestFacts DEF At, BasinLocked
  <2>4. ASSUME NEW q \in Requests, req[q].pc \in StreamLocked, Key(q) = key
        PROVE  q = r
    BY <2>1, <2>4, OnKey, HandlesDiffer
  <2>5. ASSUME NEW g \in DOMAIN handles, NEW t \in Streams, key = <<handles[g].basin_id, t>>
        PROVE  handles[g].streams[t] = 0
    BY <2>1, <2>5, HandlesDiffer
  <2>6. \A q \in Requests : req[q].pc \in {"load_block", "new_block", "cache_stream"} => Key(q) # key
    BY <1>3, <2>4 DEF StreamLocked, At
  <2> QED BY <2>2, <2>3, <2>5, <2>6 DEF Remembers
<1> QED BY <1>2, <1>3 DEF Writes

LEMMA WritersDiffer ==
  ASSUME MemoryInv, NEW q \in Requests, NEW r \in Requests, NEW key,
         Writes(q, key), Writes(r, key)
  PROVE  q = r
<1>1. RequestInv(q) /\ RequestInv(r)
  BY DEF MemoryInv
<1>2. At(q, "new_basin") /\ At(r, "new_basin") => q = r
  BY <1>1 DEF At, BasinLocked, RequestInv, LocksHeld
<1>3. ASSUME NEW p \in Requests, NEW o \in Requests, At(p, "new_basin"), key = req[p].basin,
             At(o, "new_metadata"), key = Key(o)
      PROVE  FALSE
  <2>1. key \in Basins
    BY <1>3, RequestFacts DEF At, BasinLocked
  <2> QED BY <1>3, <2>1, OnKey, KeysDiffer DEF At, StreamLocked
<1>4. At(q, "new_metadata") /\ At(r, "new_metadata") /\ Key(q) = Key(r) => q = r
  BY OnKey, HandlesDiffer DEF At, StreamLocked
<1> QED BY <1>2, <1>3, <1>4 DEF Writes

\* No handler moves a request that has ended.
LEMMA HandlersRun ==
  ASSUME Typed, NEW r \in Requests, Handler(r)
  PROVE  req[r].pc \notin Ended
<1>1. At(r, "new") \/ req[r].pc \in Running
  BY DEF Handler, Advance, AppendArrives, ReadArrives, ListBasinsArrives, ListStreamsArrives,
         Arrive, FindBasin, LockBasin, LoadBasin, NewBasin, CacheBasin, FindStream, LockStream,
         LoadMetadata, LoadBlock, NewMetadata, NewBlock, CacheStream, ScanBasins, ScanStreams,
         StorageError, Drop, DropWriting, Writes, At, Running, Storing
<1> QED BY <1>1 DEF At, Running, Storing, Ended

\* The names and lists of a request stay with it.
Walks(r) == SameNames(r) /\ req'[r].known = req[r].known /\ req'[r].shown = req[r].shown

\* A request ended with an empty record.
Cleared(r) == /\ req'[r].kind = "list_basins" /\ req'[r].known = {} /\ req'[r].shown = {}
              /\ req'[r].pc \in {"ok", "internal", "dropped", "invalid_argument"}

\* A request arrived, and knows what appends had been given under its names.
Arrived(r) ==
  /\ req'[r].pc \in {"scan_basins", "find_basin"} /\ given' = given
  /\ req'[r].known = IF req'[r].kind = "list_basins" THEN {g.basin : g \in given}
                     ELSE {g.stream : g \in {h \in given : h.basin = req'[r].basin}}

\* Where an action takes its request.
LEMMA ArriveGoes ==
  ASSUME MemoryInv, NEW r \in Requests, NEW kind \in Kinds,
         NEW basin \in Basins \cup {Blank}, NEW stream \in Streams \cup {Blank},
         Arrive(r, kind, basin, stream)
  PROVE  Arrived(r) \/ (Cleared(r) /\ req'[r].pc = "invalid_argument")
<1>1. Typed /\ req[r] \in Request
  BY RequestFacts
<1>2. CASE NamesValid(kind, basin, stream)
  <2> DEFINE known == IF kind = "list_basins" THEN {g.basin : g \in given}
                      ELSE {g.stream : g \in {h \in given : h.basin = basin}}
             pc == IF kind = "list_basins" THEN "scan_basins" ELSE "find_basin"
  <2>1. req' = [req EXCEPT ![r].kind = kind, ![r].basin = basin, ![r].stream = stream,
                           ![r].known = known, ![r].pc = pc]
    BY <1>2 DEF Arrive
  <2> HIDE DEF known, pc
  <2>2. /\ req'[r].kind = kind /\ req'[r].basin = basin /\ req'[r].known = known
        /\ req'[r].pc = pc
    BY <1>1, <2>1 DEF Typed, Request
  <2>3. given' = given
    BY DEF Arrive
  <2> USE DEF known, pc
  <2> QED BY <2>2, <2>3 DEF Arrived
<1>3. CASE ~NamesValid(kind, basin, stream)
  <2>1. req'[r] = [NotArrived EXCEPT !.pc = "invalid_argument"]
    BY <1>1, <1>3 DEF Arrive, End, Status, Typed
  <2> QED BY <2>1 DEF Cleared, NotArrived
<1> QED BY <1>2, <1>3

LEMMA GoToGoes ==
  ASSUME Typed, NEW r \in Requests, NEW pc, GoTo(r, pc)
  PROVE  Walks(r) /\ req'[r].pc = pc
<1>1. req[r] \in Request
  BY DEF Typed
<1>2. req'[r] = [req[r] EXCEPT !.pc = pc]
  BY DEF GoTo, Typed
<1> QED BY <1>1, <1>2 DEF Walks, SameNames, Request

LEMMA HasBasinGoes ==
  ASSUME Typed, NEW r \in Requests, NEW h, HasBasin(r, h)
  PROVE  Walks(r) /\ req'[r].pc \in {"scan_streams", "find_stream"}
<1> DEFINE pc == IF req[r].kind = "list_streams" THEN "scan_streams" ELSE "find_stream"
<1>1. req[r] \in Request
  BY DEF Typed
<1>2. req'[r] = [req[r] EXCEPT !.handle = h, !.pc = pc]
  BY DEF HasBasin, Typed
<1>3. pc \in {"scan_streams", "find_stream"}
  OBVIOUS
<1> HIDE DEF pc
<1> QED BY <1>1, <1>2, <1>3 DEF Walks, SameNames, Request

LEMMA IdGoes ==
  ASSUME Typed, NEW r \in Requests, NEW n, NEW pc,
         req' = [req EXCEPT ![r].id = n, ![r].pc = pc]
  PROVE  Walks(r) /\ req'[r].pc = pc
<1>1. req[r] \in Request
  BY DEF Typed
<1>2. req'[r] = [req[r] EXCEPT !.id = n, !.pc = pc]
  BY DEF Typed
<1>3. req'[r].kind = req[r].kind /\ req'[r].basin = req[r].basin
  BY <1>1, <1>2, Zenon DEF Request
<1>4. req'[r].stream = req[r].stream /\ req'[r].known = req[r].known
  BY <1>1, <1>2, Zenon DEF Request
<1>5. req'[r].shown = req[r].shown /\ req'[r].pc = pc
  BY <1>1, <1>2, Zenon DEF Request
<1> QED BY <1>3, <1>4, <1>5 DEF Walks, SameNames

LEMMA SpawnGoes ==
  ASSUME Typed, NEW r \in Requests, NEW id, Spawn(r, id)
  PROVE  Walks(r) /\ req'[r].pc = "cache_stream"
<1>1. req[r] \in Request
  BY DEF Typed
<1>2. req'[r] = [req[r] EXCEPT !.id = id, !.actor = Len(actors'), !.pc = "cache_stream"]
  BY DEF Typed, Spawn
<1>3. req'[r].kind = req[r].kind /\ req'[r].basin = req[r].basin
  BY <1>1, <1>2, Zenon DEF Request
<1>4. req'[r].stream = req[r].stream /\ req'[r].known = req[r].known
  BY <1>1, <1>2, Zenon DEF Request
<1>5. req'[r].shown = req[r].shown /\ req'[r].pc = "cache_stream"
  BY <1>1, <1>2, Zenon DEF Request
<1> QED BY <1>3, <1>4, <1>5 DEF Walks, SameNames

LEMMA EndNotFoundGoes ==
  ASSUME Typed, NEW r \in Requests, EndNotFound(r, "NotFound")
  PROVE  Walks(r) /\ req'[r].pc = "not_found"
<1>1. req[r] \in Request
  BY DEF Typed
<1>2. req'[r] = [req[r] EXCEPT !.pc = "not_found", !.handle = 0, !.id = 0]
  BY DEF Typed, EndNotFound, Status
<1>3. req'[r].kind = req[r].kind /\ req'[r].basin = req[r].basin
  BY <1>1, <1>2, Zenon DEF Request
<1>4. req'[r].stream = req[r].stream /\ req'[r].known = req[r].known
  BY <1>1, <1>2, Zenon DEF Request
<1>5. req'[r].shown = req[r].shown /\ req'[r].pc = "not_found"
  BY <1>1, <1>2, Zenon DEF Request
<1> QED BY <1>3, <1>4, <1>5 DEF Walks, SameNames

\* Only Basin::load and Stream::load_metadata send a request to write, or away
\* with NotFound.
Found(r) ==
  \/ Walks(r) /\ req'[r].pc \notin {"new_basin", "new_metadata", "not_found", "ok"}
  \/ LoadBasin(r) /\ Walks(r) /\ req'[r].pc \in {"cache_basin", "new_basin", "not_found"}
  \/ LoadMetadata(r) /\ Walks(r) /\ req'[r].pc \in {"load_block", "new_metadata", "not_found"}
  \/ Cleared(r) \/ Arrived(r)
  \/ ScanBasins(r) \/ ScanStreams(r)

LEMMA HandlerGoes ==
  ASSUME MemoryInv, NEW r \in Requests, Handler(r)
  PROVE  Found(r)
<1>1. Typed /\ req[r] \in Request
  BY RequestFacts
<1>2. \/ AppendArrives(r) \/ ReadArrives(r) \/ ListBasinsArrives(r) \/ ListStreamsArrives(r)
        => Found(r)
  BY ArriveGoes
     DEF Found, AppendArrives, ReadArrives, ListBasinsArrives, ListStreamsArrives, Names, Kinds
<1>3. FindBasin(r) \/ LockBasin(r) \/ CacheBasin(r) => Found(r)
  BY <1>1, GoToGoes, HasBasinGoes DEF Found, FindBasin, LockBasin, CacheBasin
<1>4. LoadBasin(r) => Found(r)
  <2> SUFFICES ASSUME LoadBasin(r)
               PROVE  Walks(r) /\ req'[r].pc \in {"cache_basin", "new_basin", "not_found"}
    BY DEF Found
  <2>1. \/ req' = [req EXCEPT ![r].id = meta[req[r].basin], ![r].pc = "cache_basin"]
        \/ GoTo(r, "new_basin") \/ EndNotFound(r, "NotFound")
    BY DEF LoadBasin
  <2>2. req' = [req EXCEPT ![r].id = meta[req[r].basin], ![r].pc = "cache_basin"]
          => Walks(r) /\ req'[r].pc = "cache_basin"
    BY <1>1, IdGoes
  <2>3. GoTo(r, "new_basin") => Walks(r) /\ req'[r].pc = "new_basin"
    BY <1>1, GoToGoes
  <2>4. EndNotFound(r, "NotFound") => Walks(r) /\ req'[r].pc = "not_found"
    BY <1>1, EndNotFoundGoes
  <2> QED BY <2>1, <2>2, <2>3, <2>4
<1>5. NewBasin(r) \/ NewMetadata(r) => Found(r)
  BY <1>1, IdGoes DEF Found, NewBasin, NewMetadata
<1>6. ASSUME NEW a, HasStream(r, a)
      PROVE  Found(r)
  <2>1. req'[r] = [NotArrived EXCEPT !.pc = "ok", !.actor = a]
    BY <1>1, <1>6 DEF HasStream, Typed
  <2> QED BY <2>1 DEF Found, Cleared, NotArrived
<1>7. FindStream(r) \/ LockStream(r) \/ CacheStream(r) => Found(r)
  BY <1>1, <1>6, GoToGoes DEF Found, FindStream, LockStream, CacheStream
<1>8. LoadMetadata(r) => Found(r)
  <2> SUFFICES ASSUME LoadMetadata(r)
               PROVE  Walks(r) /\ req'[r].pc \in {"load_block", "new_metadata", "not_found"}
    BY DEF Found
  <2>1. \/ req' = [req EXCEPT ![r].id = meta[Key(r)], ![r].pc = "load_block"]
        \/ GoTo(r, "new_metadata") \/ EndNotFound(r, "NotFound")
    BY DEF LoadMetadata, MapStreamNotFound
  <2>2. req' = [req EXCEPT ![r].id = meta[Key(r)], ![r].pc = "load_block"]
          => Walks(r) /\ req'[r].pc = "load_block"
    BY <1>1, IdGoes
  <2>3. GoTo(r, "new_metadata") => Walks(r) /\ req'[r].pc = "new_metadata"
    BY <1>1, GoToGoes
  <2>4. EndNotFound(r, "NotFound") => Walks(r) /\ req'[r].pc = "not_found"
    BY <1>1, EndNotFoundGoes
  <2> QED BY <2>1, <2>2, <2>3, <2>4
<1>9. LoadBlock(r) \/ NewBlock(r) => Found(r)
  BY <1>1, SpawnGoes DEF Found, LoadBlock, NewBlock
<1>10. StorageError(r) \/ Drop(r) \/ DropWriting(r) => Found(r)
  <2>1. ASSUME NEW id, NEW pc \in {"internal", "dropped"},
               \/ req'[r] = [NotArrived EXCEPT !.pc = pc]
               \/ req'[r] = [NotArrived EXCEPT !.pc = pc, !.id = id]
        PROVE  Cleared(r)
    BY <2>1 DEF Cleared, NotArrived
  <2>2. StorageError(r) \/ Drop(r) => \E pc \in {"internal", "dropped"} :
                                        req'[r] = [NotArrived EXCEPT !.pc = pc]
    BY <1>1 DEF StorageError, Drop, End, Status, Typed
  <2>3. DropWriting(r) => req'[r] = [NotArrived EXCEPT !.pc = "dropped", !.id = lastId']
    BY <1>1 DEF DropWriting, Typed
  <2> QED BY <2>1, <2>2, <2>3 DEF Found
<1> QED
  BY <1>2, <1>3, <1>4, <1>5, <1>7, <1>8, <1>9, <1>10 DEF Handler, Advance, Found

-----------------------------------------------------------------------------
(* StorageInv is inductive if at most one write outlives its handler. *)

\* A scan ends its request; it keeps what it knew.
LEMMA ScanGoes ==
  ASSUME Typed, NEW r \in Requests, ScanBasins(r) \/ ScanStreams(r)
  PROVE  /\ SameNames(r) /\ req'[r].known = req[r].known /\ req'[r].pc = "ok"
         /\ ScanBasins(r) => req'[r].shown = Basins \cap DOMAIN meta
         /\ ScanStreams(r) =>
              req'[r].shown = {s \in Streams : <<Mine(r).basin_id, s>> \in DOMAIN meta}
<1>1. req[r] \in Request
  BY DEF Typed
<1>2. CASE ScanBasins(r)
  <2> DEFINE found == Basins \cap DOMAIN meta
  <2>1. req'[r] = [req[r] EXCEPT !.shown = found, !.pc = "ok"]
    BY <1>2 DEF ScanBasins, Typed
  <2>2. ~ScanStreams(r)
    BY <1>2 DEF ScanBasins, ScanStreams, At
  <2> HIDE DEF found
  <2>3. /\ SameNames(r) /\ req'[r].known = req[r].known /\ req'[r].pc = "ok"
        /\ req'[r].shown = found
    BY <1>1, <2>1 DEF SameNames, Request
  <2> QED BY <2>2, <2>3 DEF found
<1>3. CASE ScanStreams(r)
  <2> DEFINE found == {s \in Streams : <<Mine(r).basin_id, s>> \in DOMAIN meta}
  <2>1. req'[r] = [req[r] EXCEPT !.shown = found, !.pc = "ok", !.handle = 0, !.id = 0]
    BY <1>3 DEF ScanStreams, Typed
  <2>2. ~ScanBasins(r)
    BY <1>3 DEF ScanBasins, ScanStreams, At
  <2> HIDE DEF found
  <2>3. /\ SameNames(r) /\ req'[r].known = req[r].known /\ req'[r].pc = "ok"
        /\ req'[r].shown = found
    BY <1>1, <2>1 DEF SameNames, Request
  <2> QED BY <2>2, <2>3 DEF found
<1> QED BY <1>2, <1>3

\* A request is about to write what it found missing.
LEMMA BecomesWriter ==
  ASSUME MemoryInv, NEW r \in Requests, Handler(r), NEW key, Writes(r, key)'
  PROVE  key \notin DOMAIN meta /\ UNCHANGED stored /\ given' = given
<1>1. /\ Grows(r) /\ Typed /\ req[r] \in Request
  BY HandlerKeeps, RequestFacts DEF Keeps
<1>2. req'[r].pc \in {"new_basin", "new_metadata"}
  BY DEF Writes, At
<1>3. ~ScanBasins(r) /\ ~ScanStreams(r)
  BY <1>1, <1>2, ScanGoes
<1>4. \/ LoadBasin(r) /\ Walks(r) /\ req'[r].pc = "new_basin"
      \/ LoadMetadata(r) /\ Walks(r) /\ req'[r].pc = "new_metadata"
  BY <1>2, <1>3, HandlerGoes DEF Found, Cleared, Arrived
<1>5. CASE LoadBasin(r) /\ Walks(r) /\ req'[r].pc = "new_basin"
  <2>1. key = req[r].basin
    BY <1>5 DEF Writes, At, Walks, SameNames
  <2>2. key \notin DOMAIN meta
    <3>1. req[r].basin \in DOMAIN meta => req'[r].pc = "cache_basin"
      <4>1. req[r].basin \in DOMAIN meta =>
              req' = [req EXCEPT ![r].id = meta[req[r].basin], ![r].pc = "cache_basin"]
        BY <1>5 DEF LoadBasin
      <4> QED BY <1>1, <4>1, IdGoes
    <3> QED BY <1>5, <2>1, <3>1
  <2> QED BY <1>5, <2>2 DEF LoadBasin
<1>6. CASE LoadMetadata(r) /\ Walks(r) /\ req'[r].pc = "new_metadata"
  <2>1. Key(r) \notin DOMAIN meta /\ UNCHANGED stored /\ given' = given /\ handles' = handles
        /\ GoTo(r, "new_metadata")
    <3>1. Key(r) \in DOMAIN meta => req'[r].pc = "load_block"
      <4>1. Key(r) \in DOMAIN meta =>
              req' = [req EXCEPT ![r].id = meta[Key(r)], ![r].pc = "load_block"]
        BY <1>6 DEF LoadMetadata
      <4> QED BY <1>1, <4>1, IdGoes
    <3>2. req[r].kind # "append" /\ Key(r) \notin DOMAIN meta => req'[r].pc = "not_found"
      <4>1. req[r].kind # "append" /\ Key(r) \notin DOMAIN meta => EndNotFound(r, "NotFound")
        BY <1>6 DEF LoadMetadata, MapStreamNotFound
      <4> QED BY <1>1, <4>1, EndNotFoundGoes
    <3> QED BY <1>6, <3>1, <3>2 DEF LoadMetadata
  <2>2. req'[r].handle = req[r].handle /\ req'[r].stream = req[r].stream
    BY <1>1, <2>1 DEF GoTo, Typed, Request
  <2>3. key = Key(r)'
    BY <1>6 DEF Writes, At
  <2>4. Key(r)' = Key(r)
    BY <2>1, <2>2 DEF Key, Mine
  <2> QED BY <2>1, <2>3, <2>4
<1> QED BY <1>4, <1>5, <1>6

\* What another request is about to write, it was.
LEMMA OthersWrite ==
  ASSUME MemoryInv, NEW r \in Requests, Handler(r), NEW q \in Requests \ {r},
         NEW key, Writes(q, key)'
  PROVE  Writes(q, key)
<1>1. /\ Grows(r) /\ req'[q] = req[q]
  BY HandlerKeeps DEF Keeps, Grows
<1>2. req[q].pc = "new_metadata" => Key(q)' = Key(q)
  BY <1>1, HeldByOthers DEF OnStream, StreamLocked
<1> QED BY <1>1, <1>2 DEF Writes, At

\* What an append was given, or is being given, memory or the past knew.
LEMMA WasGivenKnown ==
  ASSUME MemoryInv, NEW r \in Requests, Handler(r), NEW key, NEW id, WasGiven(key, id)'
  PROVE  \/ WasGiven(key, id)
         \/ Remembers(key, id) /\ UNCHANGED stored
<1>1. CASE given' = given
  BY <1>1 DEF WasGiven
<1>2. ASSUME UNCHANGED stored, NEW i,
             given' = given \cup {[basin |-> req[r].basin, stream |-> req[r].stream,
                                   basin_id |-> Mine(r).basin_id, stream_id |-> i]},
             Remembers(req[r].basin, Mine(r).basin_id), Remembers(Key(r), i)
      PROVE  WasGiven(key, id) \/ Remembers(key, id)
  <2>1. PICK g \in given' : \/ key = g.basin /\ id = g.basin_id
                            \/ key = <<g.basin_id, g.stream>> /\ id = g.stream_id
    BY DEF WasGiven
  <2>2. CASE g \in given
    BY <2>1, <2>2 DEF WasGiven
  <2>3. CASE g = [basin |-> req[r].basin, stream |-> req[r].stream,
                  basin_id |-> Mine(r).basin_id, stream_id |-> i]
    <3>1. /\ g.basin = req[r].basin /\ g.basin_id = Mine(r).basin_id
          /\ <<g.basin_id, g.stream>> = Key(r) /\ g.stream_id = i
      BY <2>3 DEF Key
    <3> QED BY <1>2, <2>1, <3>1
  <2> QED BY <1>2, <2>1, <2>2, <2>3
<1> QED BY <1>1, <1>2, GivesRemembered

\* A write that outlived its handler is remembered.
LEMMA LateSpentStays ==
  ASSUME MemoryInv, NEW r \in Requests, Handler(r), LateSpent
  PROVE  LateSpent'
<1>1. PICK q \in Requests : At(q, "dropped") /\ req[q].id # 0
  BY DEF LateSpent
<1>2. q # r
  BY <1>1, TypedFacts, HandlersRun DEF At, Ended
<1>3. req'[q] = req[q]
  BY <1>2, HandlerKeeps DEF Keeps, Grows
<1> QED BY <1>1, <1>3 DEF LateSpent, At

\* The one late write allowed is the first.
LEMMA LateOnce ==
  ASSUME MaxLate <= 1, MemoryInv, NEW r \in Requests, PutsLate(r)
  PROVE  ~LateSpent
<1> DEFINE D == {q \in Requests : At(q, "dropped") /\ req[q].id # 0}
<1>1. IsFiniteSet(Requests)
  BY FS_Interval, DirectoryAssumption DEF Requests
<1>2. D \in SUBSET Requests
  OBVIOUS
<1>3. IsFiniteSet(D)
  BY <1>1, <1>2, FS_Subset
<1>4. Cardinality(D) \in Nat
  BY <1>3, FS_CardinalityType
<1>5. Cardinality(D) < MaxLate
  BY DEF PutsLate
<1> HIDE DEF D
<1>6. Cardinality(D) = 0
  BY <1>4, <1>5, DirectoryAssumption
<1>7. D = {}
  BY <1>3, <1>6, FS_EmptySet
<1> QED BY <1>7 DEF LateSpent, D

LEMMA KnownKept ==
  ASSUME MemoryInv, NEW r \in Requests, Handler(r), NEW q \in Requests, KnownWasGiven(q)
  PROVE  KnownWasGiven(q)'
<1>1. given \subseteq given'
  BY GivesRemembered
<1>2. CASE q # r
  <2>1. req'[q] = req[q]
    BY <1>2, HandlerKeeps DEF Keeps, Grows
  <2> QED BY <1>1, <2>1 DEF KnownWasGiven
<1>3. CASE q = r
  <2>1. SUFFICES ASSUME req'[r].pc \in Running
                 PROVE  KnownWasGiven(r)'
    BY <1>3 DEF KnownWasGiven
  <2>2. req'[r].pc \notin {"ok", "internal", "dropped", "invalid_argument", "not_found"}
    BY <2>1 DEF Running, Storing
  <2>3. ~ScanBasins(r) /\ ~ScanStreams(r)
    BY <2>2, TypedFacts, ScanGoes
  <2>4. Walks(r) \/ Arrived(r)
    BY <2>2, <2>3, HandlerGoes DEF Found, Cleared
  <2>5. CASE Arrived(r)
    BY <2>5 DEF Arrived, KnownWasGiven
  <2>6. CASE Walks(r) /\ ~Arrived(r)
    <3>1. req[r].pc \in Running
      <4>1. ASSUME NEW kind \in Kinds, NEW basin \in Basins \cup {Blank},
                   NEW stream \in Streams \cup {Blank}, Arrive(r, kind, basin, stream)
            PROVE  FALSE
        BY <2>2, <2>6, <4>1, ArriveGoes
      <4>2. ~(AppendArrives(r) \/ ReadArrives(r) \/ ListBasinsArrives(r) \/ ListStreamsArrives(r))
        BY <4>1
           DEF AppendArrives, ReadArrives, ListBasinsArrives, ListStreamsArrives, Names, Kinds
      <4> QED
        BY <4>2
           DEF Handler, Advance, FindBasin, LockBasin, LoadBasin, NewBasin, CacheBasin,
               FindStream, LockStream, LoadMetadata, LoadBlock, NewMetadata, NewBlock,
               CacheStream, ScanBasins, ScanStreams, StorageError, Drop, DropWriting, Writes,
               At, Running, Storing
    <3> QED BY <1>1, <1>3, <2>6, <3>1 DEF KnownWasGiven, Walks, SameNames
  <2> QED BY <2>4, <2>5, <2>6
<1> QED BY <1>2, <1>3

LEMMA StorageInvHandler ==
  ASSUME MaxLate <= 1, MemoryInv, StorageInv, NEW r \in Requests, Handler(r)
  PROVE  StorageInv'
<1>1. /\ Typed /\ lastId \in Nat /\ LateIsNew /\ WritersMakeNew /\ StorageAgrees
      /\ LateSpent => LateSpent'
      /\ \A q \in Requests : KnownWasGiven(q)'
  BY TypedFacts, LateSpentStays, KnownKept DEF StorageInv, Typed
<1>2. \A q \in Requests : \A key : Writes(q, key) => key \in Keys
  BY WritesKeys
<1>3. \A q \in Requests : \A key : Writes(q, key) =>
        /\ \A id : ~WasGiven(key, id)
        /\ key \notin DOMAIN meta \/ LateSpent
  BY <1>1, <1>2 DEF WritersMakeNew
<1>4. CASE UNCHANGED stored
  <2>1. meta' = meta /\ late' = late /\ lastId' = lastId
    BY <1>4 DEF stored
  <2>2. LateIsNew'
    BY <1>1, <2>1 DEF LateIsNew
  <2>3. ASSUME NEW q \in Requests, NEW key, Writes(q, key)'
        PROVE  (\A id : ~WasGiven(key, id)') /\ (key \notin DOMAIN meta' \/ LateSpent')
    <3>1. CASE q = r
      <4>1. key \notin DOMAIN meta /\ given' = given
        BY <2>3, <3>1, BecomesWriter
      <4>2. \A id : ~WasGiven(key, id)
        BY <1>1, <4>1 DEF StorageAgrees, Stores
      <4> QED BY <2>1, <4>1, <4>2 DEF WasGiven
    <3>2. CASE q # r
      <4>1. Writes(q, key)
        BY <2>3, <3>2, OthersWrite
      <4>2. \A id : ~WasGiven(key, id) /\ ~Remembers(key, id)
        BY <1>3, <4>1, WriterForgets
      <4> QED BY <1>1, <1>3, <2>1, <4>1, <4>2, WasGivenKnown
    <3> QED BY <3>1, <3>2
  <2>4. WritersMakeNew'
    BY <2>3 DEF WritersMakeNew
  <2>5. ASSUME NEW key, NEW id, Remembers(key, id)' \/ WasGiven(key, id)'
        PROVE  Stores(key, id)'
    <3>1. \A k : ~PutNewId(k)
      BY <1>1, <2>1 DEF PutNewId
    <3>2. Remembers(key, id) \/ WasGiven(key, id) \/ Stores(key, id)
      BY <2>5, <3>1, RemembersOrLearns, WasGivenKnown DEF Learns
    <3>3. Stores(key, id)
      BY <1>1, <3>2 DEF StorageAgrees
    <3> QED BY <2>1, <3>3 DEF Stores
  <2> QED BY <1>1, <2>2, <2>4, <2>5 DEF StorageInv, StorageAgrees
<1>5. CASE PutsNow(r) /\ req'[r].pc \notin {"new_basin", "new_metadata"}
  <2>1. PICK key0 : Writes(r, key0) /\ PutNewId(key0)
    BY <1>5 DEF PutsNow
  <2>2. /\ late = << >> /\ late' = late /\ lastId' = lastId + 1
        /\ meta' = [k \in DOMAIN meta \cup {key0} |-> IF k = key0 THEN lastId' ELSE meta[k]]
    BY <2>1 DEF PutNewId, Put
  <2>3. ~UNCHANGED stored
    BY <1>1, <2>2 DEF stored
  <2>4. LateIsNew'
    BY <2>2 DEF LateIsNew
  <2>5. ASSUME NEW key, NEW id, WasGiven(key, id)'
        PROVE  WasGiven(key, id)
    BY <2>3, <2>5, WasGivenKnown
  <2>6. ASSUME NEW q \in Requests, NEW key, Writes(q, key)'
        PROVE  (\A id : ~WasGiven(key, id)') /\ (key \notin DOMAIN meta' \/ LateSpent')
    <3>1. q # r
      BY <1>5, <2>6 DEF Writes, At
    <3>2. Writes(q, key)
      BY <2>6, <3>1, OthersWrite
    <3>3. key # key0
      BY <2>1, <3>1, <3>2, WritersDiffer
    <3> QED BY <1>1, <1>3, <2>2, <2>5, <3>2, <3>3
  <2>7. WritersMakeNew'
    BY <2>6 DEF WritersMakeNew
  <2>8. ASSUME NEW key, NEW id, Remembers(key, id) \/ WasGiven(key, id)
        PROVE  Stores(key, id)'
    <3>1. key # key0
      BY <1>3, <2>1, <2>8, WriterForgets
    <3>2. Stores(key, id)
      BY <1>1, <2>8 DEF StorageAgrees
    <3> QED BY <2>2, <3>1, <3>2 DEF Stores
  <2>9. ASSUME NEW key, NEW id, PutNewId(key), id = lastId'
        PROVE  Stores(key, id)'
    BY <2>9 DEF PutNewId, Put, Stores
  <2>10. \A key, id : Remembers(key, id)' \/ WasGiven(key, id)' => Stores(key, id)'
    BY <2>3, <2>5, <2>8, <2>9, RemembersOrLearns DEF Learns
  <2> QED BY <1>1, <2>4, <2>7, <2>10 DEF StorageInv, StorageAgrees
<1>6. CASE PutsLate(r) /\ req'[r].pc \notin {"new_basin", "new_metadata"}
  <2>1. PICK key0 : /\ Writes(r, key0)
                    /\ late' = Append(late, [key |-> key0, id |-> lastId + 1])
    BY <1>6 DEF PutsLate
  <2>2. ~LateSpent
    BY <1>6, LateOnce
  <2>3. late = << >>
    BY <1>1, <2>2 DEF LateIsNew
  <2>4. lastId' = lastId + 1 /\ meta' = meta /\ req'[r].pc = "dropped" /\ req'[r].id = lastId + 1
    BY <1>6 DEF PutsLate
  <2>5. LateSpent'
    <3>1. lastId + 1 # 0
      BY <1>1
    <3> QED BY <2>4, <3>1 DEF LateSpent, At
  <2>6. late' = << [key |-> key0, id |-> lastId + 1] >>
    BY <2>1, <2>3
  <2>7. Len(late') = 1 /\ DOMAIN late' = {1} /\ late'[1].key = key0 /\ late' # late
    BY <2>3, <2>6
  <2>8. key0 \notin DOMAIN meta
    BY <1>3, <2>1, <2>2
  <2>9. LateIsNew'
    BY <2>4, <2>5, <2>7, <2>8 DEF LateIsNew
  <2>10. ~UNCHANGED stored /\ \A k : ~PutNewId(k)
    BY <2>7 DEF stored, PutNewId
  <2>11. ASSUME NEW key, NEW id, WasGiven(key, id)'
         PROVE  WasGiven(key, id)
    BY <2>10, <2>11, WasGivenKnown
  <2>12. ASSUME NEW q \in Requests, NEW key, Writes(q, key)'
         PROVE  \A id : ~WasGiven(key, id)'
    <3>1. q # r
      BY <1>6, <2>12 DEF Writes, At
    <3> QED BY <1>3, <2>11, <2>12, <3>1, OthersWrite
  <2>13. WritersMakeNew'
    BY <2>5, <2>12 DEF WritersMakeNew
  <2>14. ASSUME NEW key, NEW id, Remembers(key, id)' \/ WasGiven(key, id)'
         PROVE  Stores(key, id)'
    <3>1. Remembers(key, id) \/ WasGiven(key, id)
      BY <2>10, <2>11, <2>14, RemembersOrLearns DEF Learns
    <3>2. Stores(key, id)
      BY <1>1, <3>1 DEF StorageAgrees
    <3> QED BY <2>4, <3>2 DEF Stores
  <2> QED BY <1>1, <2>9, <2>13, <2>14 DEF StorageInv, StorageAgrees
<1> QED BY <1>1, <1>4, <1>5, <1>6, HandlerStores

LEMMA StorageInvKept ==
  ASSUME MaxLate <= 1, MemoryInv, StorageInv, [Next]_vars
  PROVE  StorageInv'
<1>1. /\ Typed /\ LateIsNew /\ WritersMakeNew /\ StorageAgrees
      /\ \A r \in Requests : KnownWasGiven(r)
  BY TypedFacts DEF StorageInv
<1>2. ASSUME NEW r \in Requests, Handler(r)
      PROVE  StorageInv'
  BY <1>2, StorageInvHandler
<1>3. CASE LateWrite
  <2>1. UNCHANGED <<lastId, memory, req, given>>
    BY <1>3 DEF LateWrite
  <2>2. /\ late \in Seq(Write) /\ late # << >> /\ Len(late) \in Nat \ {0}
        /\ DOMAIN late = 1 .. Len(late)
    BY <1>1, <1>3, LenProperties, EmptySeq DEF LateWrite, Typed
  <2>3. Len(late) = 1 /\ late[1].key \notin DOMAIN meta /\ LateSpent
    BY <1>1, <2>2 DEF LateIsNew
  <2>4. /\ late' = Tail(late)
        /\ meta' = [k \in DOMAIN meta \cup {late[1].key} |->
                      IF k = late[1].key THEN late[1].id ELSE meta[k]]
    BY <1>3, <2>2 DEF LateWrite, Put
  <2>5. late' = << >>
    <3>1. late' \in Seq(Write) /\ Len(late') = 0
      BY <2>2, <2>3, <2>4, HeadTailProperties
    <3> QED BY <3>1, EmptySeq
  <2>6. LateSpent'
    BY <2>1, <2>3 DEF LateSpent, At
  <2>7. \A key, id : Stores(key, id) => Stores(key, id)'
    BY <2>3, <2>4 DEF Stores
  <2>8. \A key, id : WasGiven(key, id)' <=> WasGiven(key, id)
    BY <2>1 DEF WasGiven
  <2>9. StorageAgrees'
    BY <1>1, <1>3, <2>7, <2>8, LateWriteClaims DEF StorageAgrees
  <2>10. WritersMakeNew'
    <3>1. \A q \in Requests : \A key : Writes(q, key)' => Writes(q, key)
      BY <2>1 DEF Writes, At, Key, Mine, memory
    <3>2. \A q \in Requests : \A key : Writes(q, key) => key \in Keys
      BY WritesKeys
    <3> QED BY <1>1, <2>6, <2>8, <3>1, <3>2 DEF WritersMakeNew
  <2>11. LateIsNew'
    BY <2>5 DEF LateIsNew
  <2>12. \A r \in Requests : KnownWasGiven(r)'
    BY <1>1, <2>1 DEF KnownWasGiven
  <2> QED BY <2>9, <2>10, <2>11, <2>12 DEF StorageInv
<1>4. CASE Crash
  <2>1. late' = << >> /\ UNCHANGED <<meta, lastId, given>>
    BY <1>4 DEF Crash
  <2>2. \A r \in Requests : req'[r].pc \notin Running
    BY <1>4, CrashTyped
  <2>3. LateIsNew'
    BY <2>1 DEF LateIsNew
  <2>4. WritersMakeNew'
    BY <2>2 DEF WritersMakeNew, Writes, At, Running, Storing
  <2>5. StorageAgrees'
    BY <1>1, <1>4, <2>1, CrashTyped DEF StorageAgrees, WasGiven, Stores
  <2>6. \A r \in Requests : KnownWasGiven(r)'
    BY <2>2 DEF KnownWasGiven
  <2> QED BY <2>3, <2>4, <2>5, <2>6 DEF StorageInv
<1>5. CASE UNCHANGED vars
  <2>1. UNCHANGED <<meta, late, lastId, cached, basinInit, handles, actors, req, given>>
    BY <1>5 DEF vars, stored, memory
  <2>2. LateIsNew' /\ StorageAgrees' /\ \A r \in Requests : KnownWasGiven(r)'
    BY <1>1, <2>1
       DEF LateIsNew, LateSpent, StorageAgrees, Remembers, WasGiven, Stores, KnownWasGiven, At,
           Key, Mine
  <2>3. WritersMakeNew'
    BY <1>1, <2>1 DEF WritersMakeNew, Writes, WasGiven, LateSpent, At, Key, Mine, Keys
  <2> QED BY <2>2, <2>3 DEF StorageInv
<1> QED BY <1>2, <1>3, <1>4, <1>5 DEF Next, Handler, AllEnded

LEMMA StorageInvInit ==
  ASSUME Init
  PROVE  StorageInv
<1>1. DOMAIN meta = {} /\ DOMAIN late = {} /\ Len(late) = 0 /\ DOMAIN handles = {} /\ given = {}
  BY DEF Init
<1>2. \A r \in Requests : req[r].pc = "new"
  BY DEF Init, NotArrived
<1>3. LateIsNew
  BY <1>1 DEF LateIsNew, Init
<1>4. WritersMakeNew /\ \A r \in Requests : KnownWasGiven(r)
  BY <1>2 DEF WritersMakeNew, Writes, At, KnownWasGiven, Running, Storing
<1>5. StorageAgrees
  BY <1>1, <1>2 DEF StorageAgrees, Remembers, WasGiven, At, Init
<1> QED BY <1>3, <1>4, <1>5 DEF StorageInv

\* If at most one write outlives its handler, what is cached, held by a request
\* or was given to an append is what storage has, and a writer's key is free.
THEOREM StorageInvHolds == ASSUME MaxLate <= 1 PROVE Spec => []StorageInv
<1>1. Init => StorageInv
  BY StorageInvInit
<1>2. MemoryInv /\ StorageInv /\ [Next]_vars => StorageInv'
  BY StorageInvKept
<1> QED BY <1>1, <1>2, MemoryInvHolds, PTL DEF Spec

\* What is cached is what a restart would load under the same names, if at most
\* one write outlives its handler.
THEOREM CachesAgree == ASSUME MaxLate <= 1 PROVE Spec => []CachesMatchStorage
<1>1. MemoryInv /\ StorageInv => CachesMatchStorage
  <2> SUFFICES ASSUME MemoryInv, StorageInv, NEW b \in Basins, cached[b] # 0
               PROVE  LET h == handles[cached[b]]
                      IN /\ b \in DOMAIN meta /\ h.basin_id = meta[b]
                         /\ \A s \in Streams : h.streams[s] # 0 =>
                              /\ <<h.basin_id, s>> \in DOMAIN meta
                              /\ actors[h.streams[s]] = meta[<<h.basin_id, s>>]
    BY DEF CachesMatchStorage
  <2> DEFINE h == handles[cached[b]]
  <2>1. cached[b] \in DOMAIN handles
    <3>1. cached[b] \in 0 .. Len(handles) /\ Len(handles) \in Nat /\ DOMAIN handles = 1 .. Len(handles)
      BY TypedFacts, LenProperties DEF Typed
    <3> QED BY <3>1
  <2>2. Remembers(b, h.basin_id)
    BY DEF Remembers
  <2>3. \A s \in Streams : h.streams[s] # 0 =>
          Remembers(<<h.basin_id, s>>, actors[h.streams[s]])
    BY <2>1 DEF Remembers
  <2> QED BY <2>2, <2>3 DEF StorageInv, StorageAgrees, Stores
<1> QED BY <1>1, MemoryInvHolds, StorageInvHolds, PTL

\* What an append was given stays under its names, in this process, after a
\* restart and when a late write lands, if at most one write outlives its
\* handler: get_stream makes no second basin or stream under a name.
THEOREM GivenIsKept == ASSUME MaxLate <= 1 PROVE Spec => []GivenStaysFound
<1>1. StorageInv => GivenStaysFound
  <2> SUFFICES ASSUME StorageInv, NEW g \in given
               PROVE  /\ g.basin \in DOMAIN meta /\ meta[g.basin] = g.basin_id
                      /\ <<g.basin_id, g.stream>> \in DOMAIN meta
                      /\ meta[<<g.basin_id, g.stream>>] = g.stream_id
    BY DEF GivenStaysFound
  <2>1. WasGiven(g.basin, g.basin_id) /\ WasGiven(<<g.basin_id, g.stream>>, g.stream_id)
    BY DEF WasGiven
  <2> QED BY <2>1 DEF StorageInv, StorageAgrees, Stores
<1> QED BY <1>1, StorageInvHolds, PTL

-----------------------------------------------------------------------------
(* The answers. *)

\* What is missing from storage where a request looks was not given when the
\* request arrived.
LEMMA LoadBasinHonest ==
  ASSUME MemoryInv, StorageInv, NEW r \in Requests, LoadBasin(r), req'[r].pc = "not_found"
  PROVE  req[r].known = {} /\ req[r].kind # "list_basins"
<1>1. Typed /\ req[r] \in Request /\ NamesFit(r) /\ At(r, "load_basin") /\ KnownWasGiven(r)
  BY RequestFacts DEF RequestInv, LoadBasin, StorageInv
<1>2. req[r].basin \notin DOMAIN meta
  <2>1. req[r].basin \in DOMAIN meta =>
          req' = [req EXCEPT ![r].id = meta[req[r].basin], ![r].pc = "cache_basin"]
    BY DEF LoadBasin
  <2> QED BY <1>1, <2>1, IdGoes
<1>3. req[r].kind # "list_basins"
  BY <1>1 DEF NamesFit, At, Running, Storing
<1>4. req[r].known \subseteq {g.stream : g \in {h \in given : h.basin = req[r].basin}}
  BY <1>1, <1>3 DEF KnownWasGiven, At, Running, Storing
<1>5. ASSUME NEW g \in given, g.basin = req[r].basin
      PROVE  FALSE
  <2>1. WasGiven(req[r].basin, g.basin_id)
    BY <1>5 DEF WasGiven
  <2> QED BY <1>2, <2>1 DEF StorageInv, StorageAgrees, Stores
<1> QED BY <1>3, <1>4, <1>5

\* A stream that was given by its name is under the id the basin is cached with.
LEMMA GivenUnderHandle ==
  ASSUME MemoryInv, StorageInv, NEW r \in Requests, req[r].pc \in WithHandle,
         NEW g \in given, g.basin = req[r].basin
  PROVE  <<Mine(r).basin_id, g.stream>> \in DOMAIN meta
<1>1. /\ req[r].handle \in DOMAIN handles /\ cached[req[r].basin] = req[r].handle
      /\ req[r].handle # 0 /\ req[r].basin \in Basins
  BY RequestFacts DEF RequestInv, LocksHeld
<1>2. Remembers(g.basin, Mine(r).basin_id)
  BY <1>1 DEF Remembers, Mine
<1>3. WasGiven(g.basin, g.basin_id) /\ WasGiven(<<g.basin_id, g.stream>>, g.stream_id)
  BY DEF WasGiven
<1>4. meta[g.basin] = Mine(r).basin_id /\ meta[g.basin] = g.basin_id
  BY <1>2, <1>3 DEF StorageInv, StorageAgrees, Stores
<1> QED BY <1>3, <1>4 DEF StorageInv, StorageAgrees, Stores

LEMMA LoadMetadataHonest ==
  ASSUME MemoryInv, StorageInv, NEW r \in Requests, LoadMetadata(r), req'[r].pc = "not_found"
  PROVE  req[r].stream \notin req[r].known /\ req[r].kind = "read"
<1>1. Typed /\ req[r] \in Request /\ NamesFit(r) /\ At(r, "load_metadata") /\ KnownWasGiven(r)
  BY RequestFacts DEF RequestInv, LoadMetadata, StorageInv
<1>2. Key(r) \notin DOMAIN meta
  <2>1. Key(r) \in DOMAIN meta =>
          req' = [req EXCEPT ![r].id = meta[Key(r)], ![r].pc = "load_block"]
    BY DEF LoadMetadata
  <2> QED BY <1>1, <2>1, IdGoes
<1>3. req[r].kind = "read"
  <2>1. req[r].kind = "append" => GoTo(r, "new_metadata")
    BY <1>2 DEF LoadMetadata
  <2>2. req[r].kind # "append"
    BY <1>1, <2>1, GoToGoes
  <2> QED BY <1>1, <2>2 DEF NamesFit, At, Running, Storing, OnStream, StreamLocked
<1>4. req[r].known \subseteq {g.stream : g \in {h \in given : h.basin = req[r].basin}}
  BY <1>1, <1>3 DEF KnownWasGiven, At, Running, Storing
<1>5. ASSUME req[r].stream \in req[r].known
      PROVE  FALSE
  <2>1. PICK g \in given : g.basin = req[r].basin /\ g.stream = req[r].stream
    BY <1>4, <1>5
  <2>2. <<Mine(r).basin_id, g.stream>> \in DOMAIN meta
    BY <1>1, <2>1, GivenUnderHandle DEF At, WithHandle, OnStream, StreamLocked
  <2> QED BY <1>2, <2>1, <2>2 DEF Key
<1> QED BY <1>3, <1>5

\* The answers of a request that has ended.
Honest(r) ==
  At(r, "not_found") => IF req[r].kind = "read" THEN req[r].stream \notin req[r].known
                        ELSE req[r].known = {}

Shown(r) ==
  At(r, "ok") /\ req[r].kind \in {"list_basins", "list_streams"} => req[r].known \subseteq req[r].shown

LEMMA ScansShow ==
  ASSUME MemoryInv, StorageInv, NEW r \in Requests, ScanBasins(r) \/ ScanStreams(r)
  PROVE  Honest(r)' /\ Shown(r)'
<1>1. Typed /\ req[r] \in Request /\ NamesFit(r) /\ KnownWasGiven(r) /\ GivenTyped
  BY RequestFacts DEF RequestInv, StorageInv, MemoryInv
<1>2. /\ SameNames(r) /\ req'[r].known = req[r].known /\ req'[r].pc = "ok"
      /\ ScanBasins(r) => req'[r].shown = Basins \cap DOMAIN meta
      /\ ScanStreams(r) =>
           req'[r].shown = {s \in Streams : <<Mine(r).basin_id, s>> \in DOMAIN meta}
  BY <1>1, ScanGoes
<1>3. CASE ScanBasins(r)
  <2>1. At(r, "scan_basins")
    BY <1>3 DEF ScanBasins
  <2>2. req[r].known \subseteq {g.basin : g \in given}
    BY <1>1, <2>1 DEF NamesFit, KnownWasGiven, At, Running, Storing
  <2>3. ASSUME NEW g \in given
        PROVE  g.basin \in Basins \cap DOMAIN meta
    <3>1. WasGiven(g.basin, g.basin_id)
      BY DEF WasGiven
    <3> QED BY <1>1, <3>1 DEF GivenTyped, StorageInv, StorageAgrees, Stores
  <2> QED BY <1>2, <1>3, <2>2, <2>3 DEF Honest, Shown, At
<1>4. CASE ScanStreams(r)
  <2>1. At(r, "scan_streams")
    BY <1>4 DEF ScanStreams
  <2>2. req[r].known \subseteq {g.stream : g \in {h \in given : h.basin = req[r].basin}}
    BY <1>1, <2>1 DEF NamesFit, KnownWasGiven, At, Running, Storing
  <2>3. ASSUME NEW g \in given, g.basin = req[r].basin
        PROVE  g.stream \in Streams /\ <<Mine(r).basin_id, g.stream>> \in DOMAIN meta
    BY <1>1, <2>1, <2>3, GivenUnderHandle DEF GivenTyped, At, WithHandle
  <2>4. req[r].known \subseteq {s \in Streams : <<Mine(r).basin_id, s>> \in DOMAIN meta}
    BY <2>2, <2>3
  <2>5. req'[r].known \subseteq req'[r].shown
    BY <1>2, <1>4, <2>4
  <2> QED BY <1>2, <2>5 DEF Honest, Shown, At
<1> QED BY <1>3, <1>4

LEMMA AnswersKept ==
  ASSUME MemoryInv, StorageInv, [Next]_vars, NEW q \in Requests, Honest(q), Shown(q)
  PROVE  Honest(q)' /\ Shown(q)'
<1>1. Typed /\ req[q] \in Request
  BY RequestFacts
<1>2. ASSUME NEW r \in Requests, Handler(r)
      PROVE  Honest(q)' /\ Shown(q)'
  <2>1. CASE q # r
    <3>1. req'[q] = req[q]
      BY <1>2, <2>1, HandlerKeeps DEF Keeps, Grows
    <3> QED BY <3>1 DEF Honest, Shown, At
  <2>2. CASE q = r
    <3>1. Found(r)
      BY <1>2, HandlerGoes
    <3>2. CASE Walks(r) /\ req'[r].pc \notin {"new_basin", "new_metadata", "not_found", "ok"}
      BY <2>2, <3>2 DEF Honest, Shown, At
    <3>3. CASE LoadBasin(r) /\ Walks(r) /\ req'[r].pc \in {"cache_basin", "new_basin", "not_found"}
      <4>1. req'[r].pc = "not_found" => req[r].known = {}
        BY <3>3, LoadBasinHonest
      <4> QED BY <2>2, <3>3, <4>1 DEF Honest, Shown, At, Walks, SameNames
    <3>4. CASE LoadMetadata(r) /\ Walks(r)
               /\ req'[r].pc \in {"load_block", "new_metadata", "not_found"}
      <4>1. req'[r].pc = "not_found" =>
              req[r].stream \notin req[r].known /\ req[r].kind = "read"
        BY <3>4, LoadMetadataHonest
      <4> QED BY <2>2, <3>4, <4>1 DEF Honest, Shown, At, Walks, SameNames
    <3>5. CASE Cleared(r)
      BY <2>2, <3>5 DEF Cleared, Honest, Shown, At
    <3>6. CASE Arrived(r)
      BY <2>2, <3>6 DEF Arrived, Honest, Shown, At
    <3>7. CASE ScanBasins(r) \/ ScanStreams(r)
      BY <2>2, <3>7, ScansShow
    <3> QED BY <3>1, <3>2, <3>3, <3>4, <3>5, <3>6, <3>7 DEF Found
  <2> QED BY <2>1, <2>2
<1>3. CASE LateWrite
  BY <1>3 DEF LateWrite, Honest, Shown, At
<1>4. CASE Crash
  <2>1. req'[q] = [req[q] EXCEPT !.actor = 0] \/ req'[q] = [NotArrived EXCEPT !.pc = "dropped"]
    BY <1>4, CrashTyped
  <2>2. CASE req'[q] = [req[q] EXCEPT !.actor = 0]
    <3>1. /\ req'[q].pc = req[q].pc /\ req'[q].kind = req[q].kind
          /\ req'[q].stream = req[q].stream /\ req'[q].known = req[q].known
          /\ req'[q].shown = req[q].shown
      BY <1>1, <2>2 DEF Request
    <3> QED BY <3>1 DEF Honest, Shown, At
  <2>3. CASE req'[q] = [NotArrived EXCEPT !.pc = "dropped"]
    BY <2>3 DEF NotArrived, Honest, Shown, At
  <2> QED BY <2>1, <2>2, <2>3
<1>5. CASE UNCHANGED vars
  BY <1>5 DEF vars, Honest, Shown, At
<1> QED BY <1>2, <1>3, <1>4, <1>5 DEF Next, Handler, AllEnded

LEMMA AnswersHold == ASSUME MaxLate <= 1
                     PROVE  Spec => [](\A r \in Requests : Honest(r) /\ Shown(r))
<1> DEFINE Answers == \A r \in Requests : Honest(r) /\ Shown(r)
<1>1. Init => Answers
  BY DEF Init, NotArrived, Honest, Shown, At
<1>2. MemoryInv /\ StorageInv /\ Answers /\ [Next]_vars => Answers'
  BY AnswersKept
<1> QED BY <1>1, <1>2, MemoryInvHolds, StorageInvHolds, PTL DEF Spec

\* A read or a list is answered NotFound only if nothing had been appended under
\* its names when it arrived, if at most one write outlives its handler.
THEOREM NotFoundMeansAbsent == ASSUME MaxLate <= 1 PROVE Spec => []NotFoundIsHonest
<1>1. (\A r \in Requests : Honest(r) /\ Shown(r)) => NotFoundIsHonest
  BY DEF Honest, NotFoundIsHonest
<1> QED BY <1>1, AnswersHold, PTL

\* A list shows each basin or stream appended to before it arrived, if at most
\* one write outlives its handler.
THEOREM ListsAreComplete == ASSUME MaxLate <= 1 PROVE Spec => []ListsShowAppended
<1>1. (\A r \in Requests : Honest(r) /\ Shown(r)) => ListsShowAppended
  BY DEF Shown, ListsShowAppended
<1> QED BY <1>1, AnswersHold, PTL
=============================================================================
