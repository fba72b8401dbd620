----------------------------- MODULE Directory -----------------------------
(***************************************************************************)
(* The four requests of the gRPC service, from their names to the stream   *)
(* actor they are given or to the status or list they are answered with    *)
(* (grpc.rs, StreamController, BasinHandle::get_stream), with what Basin   *)
(* and Stream read and write on the way.                                   *)
(*                                                                         *)
(* Requests are handler futures that run concurrently and may be dropped   *)
(* at any await.  A basin is cached by name, a stream by name in the       *)
(* handle of its basin; a missing entry is made under a lock, basin_init   *)
(* for all basins, stream_init for the streams of one basin, after a       *)
(* second look.  Making one takes several storage operations, each a step  *)
(* of its own here.  Guards are dropped with the future, however it ends.  *)
(*                                                                         *)
(* meta_storage applies writes in the order they are issued.  A write may  *)
(* outlive the handler that issued it: late holds those still under way.   *)
(* A scan sees storage as it is when the scan begins.                      *)
(*                                                                         *)
(* Uuid::new_v4 is a fresh number.  Handles and actors are numbered as     *)
(* they are made, requests as they arrive; 0 stands for none.              *)
(***************************************************************************)
EXTENDS Naturals, Sequences, FiniteSets

CONSTANTS
  MaxRequests,       \* bound: how many requests arrive
  MaxLate,           \* bound: how many writes outlive their handlers
  Basins, Streams,   \* the names requests give
  Blank,             \* a name that is empty but for white space
  StorageFails,      \* may an operation of storage return an error?
  Cancels,           \* may a request be dropped while it runs?
  Crashes            \* may the process stop?

ASSUME DirectoryAssumption ==
  /\ StorageFails \in BOOLEAN /\ Cancels \in BOOLEAN /\ Crashes \in BOOLEAN
  /\ MaxRequests \in Nat /\ MaxLate \in Nat /\ Blank \notin Basins \cup Streams
  \* The key of a basin is not the key of a stream (Keys).
  /\ \A b \in Basins : b \notin Nat \X Streams

VARIABLES
  meta,       \* meta_storage: the id under each key
  late,       \* the writes to it that outlived their handlers
  lastId,     \* the last id drawn
  cached,     \* StreamController.basins: a handle for each name, or 0
  basinInit,  \* the request that holds basin_init, or 0
  handles,    \* the BasinHandles made
  actors,     \* the StreamActors spawned: the stream each one owns
  req,        \* the requests
  given       \* history: names and ids of the streams appends were given

stored == <<meta, late, lastId>>
memory == <<cached, basinInit, handles, actors>>
vars == <<stored, memory, req, given>>

Requests == 1 .. MaxRequests

\* Keys of meta_storage: a basin's name, or a basin's id with a stream's name
\* (module Keys shows that their bytes differ).
Keys == Basins \cup (1 .. lastId) \X Streams
Write == [key : Keys, id : 1 .. lastId]

\* streams maps names to actors.
Handle == [basin_id : Nat, streams : [Streams -> Nat], stream_init : Requests \cup {0}]

\* The await a request is at, or the status it ended with.
Storing == {"load_basin", "new_basin", "load_metadata", "load_block",
            "new_metadata", "new_block", "scan_basins", "scan_streams"}
Running == Storing \cup {"find_basin", "lock_basin", "cache_basin", "find_stream",
                         "lock_stream", "cache_stream"}
Ended == {"ok", "invalid_argument", "not_found", "internal", "dropped"}

Kinds == {"append", "read", "list_basins", "list_streams"}

\* handle and actor are what the request holds, id what it last read or drew,
\* shown the names it lists; known is history: the names that appends had been
\* given when it arrived.
Request ==
  [pc : {"new"} \cup Running \cup Ended, kind : Kinds,
   basin : Basins \cup {Blank}, stream : Streams \cup {Blank},
   handle : Nat, id : Nat, actor : Nat,
   known : SUBSET (Basins \cup Streams), shown : SUBSET (Basins \cup Streams)]

NotArrived ==
  [pc |-> "new", kind |-> "list_basins", basin |-> Blank, stream |-> Blank,
   handle |-> 0, id |-> 0, actor |-> 0, known |-> {}, shown |-> {}]

\* Types, and who holds a lock is where the code holds it.
TypeOK ==
  /\ \A k \in DOMAIN meta : [key |-> k, id |-> meta[k]] \in Write
  /\ late \in Seq(Write) /\ lastId \in Nat
  /\ cached \in [Basins -> 0 .. Len(handles)]
  /\ handles \in Seq(Handle)
  /\ actors \in Seq(1 .. lastId)
  /\ req \in [Requests -> Request]
  /\ basinInit # 0 =>
       req[basinInit].pc \in {"load_basin", "new_basin", "cache_basin"}
  /\ \A h \in DOMAIN handles : handles[h].stream_init # 0 =>
       LET r == handles[h].stream_init
       IN /\ req[r].handle = h
          /\ req[r].pc \in {"load_metadata", "load_block", "new_metadata",
                            "new_block", "cache_stream"}

Init ==
  /\ meta = << >> /\ late = << >> /\ lastId = 0
  /\ cached = [b \in Basins |-> 0]
  /\ basinInit = 0 /\ handles = << >> /\ actors = << >>
  /\ req = [r \in Requests |-> NotArrived]
  /\ given = {}

At(r, pc) == req[r].pc = pc
GoTo(r, pc) == req' = [req EXCEPT ![r].pc = pc]

\* controller_error_to_status.
Status(error) ==
  CASE error = "InvalidArgument" -> "invalid_argument"
    [] error \in {"NotFound", "StreamDoesNotExist"} -> "not_found"
    [] OTHER -> "internal"

\* map_stream_not_found.
MapStreamNotFound(error) == IF error = "StreamDoesNotExist" THEN "NotFound" ELSE error

\* A request ends; what it held is dropped.
End(r, status) == req' = [req EXCEPT ![r] = [NotArrived EXCEPT !.pc = status]]

\* ... with its names kept beside the answer NotFound.
EndNotFound(r, error) ==
  req' = [req EXCEPT ![r].pc = Status(error), ![r].handle = 0, ![r].id = 0]

\* Locks are guards: they go when the request leaves the function or ends.
ReleaseBasinInit(r) == basinInit' = IF basinInit = r THEN 0 ELSE basinInit

\* Mutant: the lock on a basin's streams stays with a request that is gone.
ReleaseStreamInit_Forgotten(r) == handles

ReleaseStreamInit(r) ==
  [h \in DOMAIN handles |->
     IF handles[h].stream_init = r
     THEN [handles[h] EXCEPT !.stream_init = 0] ELSE handles[h]]

-----------------------------------------------------------------------------
(* Arrival and the basin. *)

\* validate_name, for the names a kind of request gives.
NamesValid(kind, basin, stream) ==
  /\ kind # "list_basins" => basin # Blank
  /\ kind \in {"append", "read"} => stream # Blank

\* The handler has its message and the controller looks at the names.
Arrive(r, kind, basin, stream) ==
  /\ At(r, "new") /\ \A q \in 1 .. r - 1 : ~At(q, "new")
  /\ IF NamesValid(kind, basin, stream)
     THEN req' = [req EXCEPT
            ![r].kind = kind, ![r].basin = basin, ![r].stream = stream,
            ![r].known = IF kind = "list_basins" THEN {g.basin : g \in given}
                         ELSE {g.stream : g \in {h \in given : h.basin = basin}},
            ![r].pc = IF kind = "list_basins" THEN "scan_basins" ELSE "find_basin"]
     ELSE End(r, Status("InvalidArgument"))
  /\ UNCHANGED <<stored, memory, given>>

Names == (Basins \cup {Blank}) \X (Streams \cup {Blank})

AppendArrives(r) == \E n \in Names : Arrive(r, "append", n[1], n[2])
ReadArrives(r) == \E n \in Names : Arrive(r, "read", n[1], n[2])
ListBasinsArrives(r) == Arrive(r, "list_basins", Blank, Blank)
ListStreamsArrives(r) ==
  \E basin \in Basins \cup {Blank} : Arrive(r, "list_streams", basin, Blank)

\* A request with its basin goes on to its stream or to list the streams.
HasBasin(r, h) ==
  req' = [req EXCEPT ![r].handle = h,
                     ![r].pc = IF req[r].kind = "list_streams" THEN "scan_streams"
                               ELSE "find_stream"]

FindBasin(r) ==
  /\ At(r, "find_basin")
  /\ IF cached[req[r].basin] # 0
     THEN HasBasin(r, cached[req[r].basin]) ELSE GoTo(r, "lock_basin")
  /\ UNCHANGED <<stored, memory, given>>

\* Mutant: basin_init does not exclude.
BasinInitFree_Always == TRUE

BasinInitFree == basinInit = 0

\* Mutant: no second look under the lock.
LockBasin_NoSecondLook(r) ==
  /\ At(r, "lock_basin") /\ BasinInitFree
  /\ basinInit' = r /\ GoTo(r, "load_basin")
  /\ UNCHANGED <<stored, cached, handles, actors, given>>

\* basin_init is taken; with a second look, as the basin may be there by now.
LockBasin(r) ==
  /\ At(r, "lock_basin") /\ BasinInitFree
  /\ IF cached[req[r].basin] # 0
     THEN HasBasin(r, cached[req[r].basin]) /\ UNCHANGED basinInit
     ELSE GoTo(r, "load_basin") /\ basinInit' = r
  /\ UNCHANGED <<stored, cached, handles, actors, given>>

\* Mutant: what a former process stored is not found.
LoadBasin_FindsNone(r) ==
  /\ At(r, "load_basin")
  /\ IF req[r].kind = "append"
     THEN GoTo(r, "new_basin") /\ UNCHANGED basinInit
     ELSE EndNotFound(r, "NotFound") /\ ReleaseBasinInit(r)
  /\ UNCHANGED <<stored, cached, handles, actors, given>>

\* Basin::load; only an append goes on without a basin.
LoadBasin(r) ==
  /\ At(r, "load_basin")
  /\ LET b == req[r].basin
     IN \/ /\ b \in DOMAIN meta
           /\ req' = [req EXCEPT ![r].id = meta[b], ![r].pc = "cache_basin"]
           /\ UNCHANGED basinInit
        \/ /\ b \notin DOMAIN meta /\ req[r].kind = "append"
           /\ GoTo(r, "new_basin")
           /\ UNCHANGED basinInit
        \/ /\ b \notin DOMAIN meta /\ req[r].kind # "append"
           /\ EndNotFound(r, "NotFound")
           /\ ReleaseBasinInit(r)
  /\ UNCHANGED <<stored, cached, handles, actors, given>>

\* A write reaches meta_storage: puts replace what the key held.
Put(w) ==
  meta' = [k \in DOMAIN meta \cup {w.key} |-> IF k = w.key THEN w.id ELSE meta[k]]

\* An id is drawn and put under the key, after all that was written before.
PutNewId(key) ==
  /\ late = << >>
  /\ lastId' = lastId + 1
  /\ Put([key |-> key, id |-> lastId'])
  /\ UNCHANGED late

\* Basin::new.
NewBasin(r) ==
  /\ At(r, "new_basin")
  /\ PutNewId(req[r].basin)
  /\ req' = [req EXCEPT ![r].id = lastId', ![r].pc = "cache_basin"]
  /\ UNCHANGED <<memory, given>>

\* A handle is made and inserted under the name.
CacheBasin(r) ==
  /\ At(r, "cache_basin")
  /\ handles' = Append(handles, [basin_id    |-> req[r].id,
                                 streams     |-> [s \in Streams |-> 0],
                                 stream_init |-> 0])
  /\ cached' = [cached EXCEPT ![req[r].basin] = Len(handles')]
  /\ HasBasin(r, Len(handles'))
  /\ ReleaseBasinInit(r)
  /\ UNCHANGED <<stored, actors, given>>

-----------------------------------------------------------------------------
(* The stream: BasinHandle::get_stream. *)

Mine(r) == handles[req[r].handle]

\* The key of the stream's metadata, by the id its basin was cached with.
Key(r) == <<Mine(r).basin_id, req[r].stream>>

\* The request has its actor, and goes on in StreamActor.
HasStream(r, a) ==
  /\ req' = [req EXCEPT ![r] = [NotArrived EXCEPT !.pc = "ok", !.actor = a]]
  /\ given' = IF req[r].kind # "append" THEN given
              ELSE given \cup {[basin     |-> req[r].basin, stream |-> req[r].stream,
                                basin_id  |-> Mine(r).basin_id,
                                stream_id |-> actors'[a]]}

FindStream(r) ==
  /\ At(r, "find_stream")
  /\ UNCHANGED <<stored, memory>>
  /\ LET a == Mine(r).streams[req[r].stream]
     IN IF a # 0 THEN HasStream(r, a) ELSE GoTo(r, "lock_stream") /\ UNCHANGED given

LockStream(r) ==
  /\ At(r, "lock_stream") /\ Mine(r).stream_init = 0
  /\ UNCHANGED <<stored, cached, basinInit, actors>>
  /\ LET a == Mine(r).streams[req[r].stream]
     IN IF a # 0
        THEN HasStream(r, a) /\ UNCHANGED handles
        ELSE /\ GoTo(r, "load_metadata")
             /\ handles' = [handles EXCEPT ![req[r].handle].stream_init = r]
             /\ UNCHANGED given

\* Stream::load_metadata; only an append goes on without a stream.
LoadMetadata(r) ==
  /\ At(r, "load_metadata")
  /\ \/ /\ Key(r) \in DOMAIN meta
        /\ req' = [req EXCEPT ![r].id = meta[Key(r)], ![r].pc = "load_block"]
        /\ UNCHANGED handles
     \/ /\ Key(r) \notin DOMAIN meta /\ req[r].kind = "append"
        /\ GoTo(r, "new_metadata")
        /\ UNCHANGED handles
     \/ /\ Key(r) \notin DOMAIN meta /\ req[r].kind # "append"
        /\ EndNotFound(r, MapStreamNotFound("StreamDoesNotExist"))
        /\ handles' = ReleaseStreamInit(r)
  /\ UNCHANGED <<stored, cached, basinInit, actors, given>>

\* StreamHandle::spawn, without an await before it.
Spawn(r, id) ==
  /\ actors' = Append(actors, id)
  /\ req' = [req EXCEPT ![r].id = id, ![r].actor = Len(actors'), ![r].pc = "cache_stream"]

\* Stream::load gets the block, or makes do without one, and the actor starts.
LoadBlock(r) ==
  /\ At(r, "load_block")
  /\ Spawn(r, req[r].id)
  /\ UNCHANGED <<stored, cached, basinInit, handles, given>>

\* Stream::new, first write.
NewMetadata(r) ==
  /\ At(r, "new_metadata")
  /\ PutNewId(Key(r))
  /\ req' = [req EXCEPT ![r].id = lastId', ![r].pc = "new_block"]
  /\ UNCHANGED <<memory, given>>

\* Stream::new, second write (the block: see DurableStream), and the actor starts.
NewBlock(r) ==
  /\ At(r, "new_block")
  /\ Spawn(r, req[r].id)
  /\ UNCHANGED <<stored, cached, basinInit, handles, given>>

\* The handle is inserted under the name.
CacheStream(r) ==
  /\ At(r, "cache_stream")
  /\ UNCHANGED <<stored, cached, basinInit, actors>>
  /\ handles' = [ReleaseStreamInit(r)
                   EXCEPT ![req[r].handle].streams[req[r].stream] = req[r].actor]
  /\ HasStream(r, req[r].actor)

-----------------------------------------------------------------------------
(* Lists. *)

\* Mutant: the basins this process has met.
ScanBasins_Cached(r) ==
  /\ At(r, "scan_basins")
  /\ req' = [req EXCEPT ![r].shown = {b \in Basins : cached[b] # 0}, ![r].pc = "ok"]
  /\ UNCHANGED <<stored, memory, given>>

\* Basin::list needs neither cache nor lock.
ScanBasins(r) ==
  /\ At(r, "scan_basins")
  /\ req' = [req EXCEPT ![r].shown = Basins \cap DOMAIN meta, ![r].pc = "ok"]
  /\ UNCHANGED <<stored, memory, given>>

\* Stream::list, by the basin id of the handle.
ScanStreams(r) ==
  /\ At(r, "scan_streams")
  /\ req' = [req EXCEPT ![r].shown = {s \in Streams : <<Mine(r).basin_id, s>> \in DOMAIN meta},
                        ![r].pc = "ok", ![r].handle = 0, ![r].id = 0]
  /\ UNCHANGED <<stored, memory, given>>

-----------------------------------------------------------------------------
(* What goes wrong. *)

\* The key a request is about to write, if it is.
Writes(r, key) ==
  \/ At(r, "new_basin") /\ key = req[r].basin
  \/ At(r, "new_metadata") /\ key = Key(r)

\* The request's guards are dropped.
Abandon(r) ==
  /\ handles' = ReleaseStreamInit(r)
  /\ ReleaseBasinInit(r)
  /\ UNCHANGED <<cached, actors, given>>

\* Storage returned an error; what was being written is stored or is not.
StorageError(r) ==
  /\ StorageFails /\ req[r].pc \in Storing
  /\ \/ UNCHANGED stored
     \/ \E key \in Keys : Writes(r, key) /\ PutNewId(key)
  /\ End(r, Status("StorageError"))
  /\ Abandon(r)

\* The client is gone and the future is dropped where it awaits; what it was
\* writing is stored or is not ...
Drop(r) ==
  /\ Cancels /\ req[r].pc \in Running
  /\ \/ UNCHANGED stored
     \/ \E key \in Keys : Writes(r, key) /\ PutNewId(key)
  /\ End(r, "dropped")
  /\ Abandon(r)

\* ... or is still under way; the request keeps its id, to count it.
DropWriting(r) ==
  /\ Cancels
  /\ Cardinality({q \in Requests : At(q, "dropped") /\ req[q].id # 0}) < MaxLate
  /\ lastId' = lastId + 1
  /\ \E key \in Keys : Writes(r, key) /\ late' = Append(late, [key |-> key, id |-> lastId'])
  /\ req' = [req EXCEPT ![r] = [NotArrived EXCEPT !.pc = "dropped", !.id = lastId']]
  /\ Abandon(r)
  /\ UNCHANGED meta

\* A write that outlived its handler reaches storage.
LateWrite ==
  /\ late # << >>
  /\ Put(Head(late))
  /\ late' = Tail(late)
  /\ UNCHANGED <<lastId, memory, req, given>>

\* The process stops; requests that have not arrived find a new one.
Crash ==
  /\ Crashes
  /\ \E r \in Requests : req[r].pc # "new"
  /\ cached' = [b \in Basins |-> 0]
  /\ basinInit' = 0 /\ handles' = << >> /\ actors' = << >> /\ late' = << >>
  /\ req' = [r \in Requests |->
               IF req[r].pc \in Running THEN [NotArrived EXCEPT !.pc = "dropped"]
               ELSE [req[r] EXCEPT !.actor = 0]]
  /\ UNCHANGED <<meta, lastId, given>>

AllEnded ==
  (\A r \in Requests : req[r].pc \in Ended) /\ late = << >> /\ UNCHANGED vars

Advance(r) ==
  \/ FindBasin(r) \/ LockBasin(r) \/ LoadBasin(r) \/ NewBasin(r) \/ CacheBasin(r)
  \/ FindStream(r) \/ LockStream(r) \/ LoadMetadata(r) \/ LoadBlock(r)
  \/ NewMetadata(r) \/ NewBlock(r) \/ CacheStream(r)
  \/ ScanBasins(r) \/ ScanStreams(r)

Next ==
  \/ \E r \in Requests :
       \/ AppendArrives(r) \/ ReadArrives(r) \/ ListBasinsArrives(r) \/ ListStreamsArrives(r)
       \/ Advance(r) \/ StorageError(r) \/ Drop(r) \/ DropWriting(r)
  \/ LateWrite \/ Crash \/ AllEnded

Spec == Init /\ [][Next]_vars

\* The runtime polls each handler while it can go on; storage answers and ends
\* what it was given to write.
LiveSpec == Spec /\ WF_vars(LateWrite) /\ \A r \in Requests : WF_vars(Advance(r))

-----------------------------------------------------------------------------
(* Properties. *)

\* The actors a request talks to or will be given.
Reachable ==
  {req[r].actor : r \in {q \in Requests : At(q, "ok")}}
    \cup {handles[h].streams[s] : h \in DOMAIN handles, s \in Streams}

\* No two actors serve one stream: each would have its own allocator, and both
\* would issue the same numbers.
OneActorPerStream ==
  \A a, b \in Reachable \ {0} : actors[a] = actors[b] => a = b

\* What an append was given stays under its names, in this process, after a
\* restart and when late writes land: its records stay in reach.
GivenStaysFound ==
  \A g \in given :
    /\ g.basin \in DOMAIN meta /\ meta[g.basin] = g.basin_id
    /\ <<g.basin_id, g.stream>> \in DOMAIN meta
    /\ meta[<<g.basin_id, g.stream>>] = g.stream_id

\* What is cached is what a restart would load under the same names.
CachesMatchStorage ==
  \A b \in Basins : cached[b] # 0 =>
    LET h == handles[cached[b]]
    IN /\ b \in DOMAIN meta /\ h.basin_id = meta[b]
       /\ \A s \in Streams : h.streams[s] # 0 =>
            /\ <<h.basin_id, s>> \in DOMAIN meta
            /\ actors[h.streams[s]] = meta[<<h.basin_id, s>>]

\* A read or a list is answered NotFound only if nothing was appended under its
\* names before it arrived: the client may take the answer at its word.
NotFoundIsHonest ==
  \A r \in Requests : At(r, "not_found") =>
    IF req[r].kind = "read" THEN req[r].stream \notin req[r].known
    ELSE req[r].known = {}

\* A list shows every basin or stream appended to before it arrived, whichever
\* handle it went by.
ListsShowAppended ==
  \A r \in Requests :
    At(r, "ok") /\ req[r].kind \in {"list_basins", "list_streams"}
      => req[r].known \subseteq req[r].shown

\* Every request that arrived ends, whatever fails or is dropped while it waits
\* for a lock (it runs once, so from some time on none runs).
EveryRequestEnds == <>[](\A r \in Requests : req[r].pc \notin Running)
=============================================================================
