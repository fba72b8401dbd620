# A verification of Concrete (slatestreams)

TLA+ models of the `concrete` repository: what they say of the code, what TLC
checks of them on small instances, and what TLAPS proves of them for every
value of their constants. Paths are relative to `src/`; `core/` stands for
`crates/slatestreams/src/`, `video/` for `examples/video-conferencing/`.

`PROJECT.json` lists components, runs, mutants, findings, hazards and theorems,
and maps each definition to the lines it models. To repeat a run:
`tlc -config <run>.cfg <module>.tla`; a proof: `tlapm <module>.tla`.

## 1. The system

Concrete keeps named, append-only, ordered logs (streams, grouped in basins) in
an object store through SlateDB, and serves them over gRPC. The repository has
a video conferencing example on top of it.

| Component | State | Operations | Interacts with |
|---|---|---|---|
| `SequenceAllocator` (`core/storage/sequence.rs`) | the block of numbers reserved, the next number | `allocate`, `new`, `default`, `next_base` | its caller must store the block it returns |
| `Stream` (`core/stream.rs`, `core/record.rs`) | metadata, allocator, storage handle | `new`, `load`, `append`, `read`, `list` | two databases, `meta_storage` and `record_storage` |
| `StreamActor`, `StreamHandle`, `read_follow` (`core/stream_controller.rs`) | mailbox (1024), broadcast ring (1024), a task and a channel per follower | append, read, subscribe; backfill then live | requests by mpsc and oneshot, followers by broadcast |
| `StreamController`, `BasinHandle` (`core/stream_controller.rs`, `core/basin/basin.rs`) | cached basins and streams, two init locks | get or create, get existing, list | `Basin`, `Stream`, spawns the actors |
| Key schema and values (`core/key/key.rs`, key builders and encodings of `Stream`, `Basin`, `Record`, `SeqBlock`) | none | build a key, `prefix_range`, encode, decode | both databases; scans |
| Storage (`core/storage/*.rs`) | an ordered map | `apply` (atomic batch), `get`, `scan_iter` | SlateDB or a `BTreeMap` |
| gRPC service and client library (`core/grpc.rs`, `crates/slatestreams-client`) | none beyond the connection | conversions, status codes | the controller |
| Conferencing server (`video/server/main.go`) | rooms, participants, sockets, one follower per room; three kinds of locks | join, leave, `/ws`, follow and fan out | browsers; Concrete over gRPC |
| Conferencing client, playback (`video/client/...`) | a `MediaSource` and a queue per peer | feed a chunk, `sourceopen`, `updateend` | the browser's media pipeline |
| Conferencing client, visit of a room (`video/client/...`) | camera, join, socket, recorder, peers shown | mount, answers, record and send, Leave, unmount | the server; React's rendering and effects |

Hard behaviours, by component, and what makes them correct:

- *Allocation and append.* Numbers are reserved by the block; the allocator in
  memory moves before the write, the write may fail, be lost, or succeed and
  report an error, and the process may stop anywhere. Correct: no number is
  used for two records, an acknowledged record stays, a restart continues above
  everything stored and wastes at most a block.
- *Follow.* A follower subscribes, reads what was there, and then relays what
  is broadcast, while appends go on and its client may be slow or gone.
  Correct: each record once and in order, none acknowledged skipped, nothing
  shown that is not stored; nobody but the actor decides when an append is
  answered.
- *Directory.* Handlers look up, create and cache with awaits in between, may
  fail at each storage call and may be dropped at each await, with a write under
  way. Correct: what an append was given stays under its names, a stream has one
  actor, NotFound and lists agree with what was appended, no lock stays behind.
- *Keys and values.* Several kinds of keys in one ordered key space, scans by
  prefix, values of fixed layout. Correct: a key stands for one thing; a scan
  finds exactly what has the prefix; what is decoded is what was encoded.
- *Rooms.* Handlers and followers under `s.mu`, `room.mu` and `p.mu`. Correct:
  only empty rooms are torn down, frames reach the others in order, no two wait
  for each other.
- *Playback.* Tasks of one event loop around an asynchronous buffer. Correct:
  every chunk is played, once, in order.
- *Visit.* Answers that come late, in any order, to a page that may have been
  rendered again, left or closed; in development each effect runs twice.
  Correct: nothing the page asked for outlives it, frames name their sender, a
  Leave is final.

`PROJECT.json` lists the hazards one by one with their lines.

## 2. The modules

| Module | Models | Extends or instantiates |
|---|---|---|
| `SequenceAllocator` | `SeqBlock`, `SequenceAllocator` as operators on records | |
| `AppendOnlyLog` | the abstract promise of a stream | |
| `DurableStream` | `Stream` over storage with failures and restarts | extends `SequenceAllocator`; instance `Log` of `AppendOnlyLog` |
| `FollowedLog` | the abstract promise of `read_follow` | instance `Log` of `AppendOnlyLog` |
| `StreamActor` | actor, requests, `read_follow`, clients | instances `S` of `DurableStream`, `FL` of `FollowedLog` |
| `Directory` | the four gRPC requests, controller and basin handles, at their awaits | |
| `Keys`, `Values`, `KeySpace` | key schema and prefix ranges; encodings; the databases behind them | `KeySpace` extends `Values`, which extends `Keys` |
| `MeetingRooms` | the conferencing server under one room id | |
| `PeerPlayback` | one peer's queue and `SourceBuffer` | |
| `RoomClient` | one visit of the room page | |
| `MC...` | constants for TLC | |
| `..._proofs` | theorems | the module they are about, `TLAPS`; `DurableStream_proofs` has those of `SequenceAllocator` too; `KeySpace_proofs` extends `Keys_proofs`, which is about `Keys` and `Values`; `StreamActor_proofs` has an instance `D` of `DurableStream_proofs` |

### DurableStream

`metadata`, `seqBlock` and `records` are what the two databases hold under the
keys of one stream; `pc` and `alloc` are the `Stream` object in memory (absent
when no process has it), `batch` the append whose `apply` has not returned.
`acked` is history. One action per write: `NewMetadata` and `NewBlock` are the
two writes of `Stream::new`, `Load` is `Stream::load`, `StartAppend` is
`append` up to its `await`, `AppendOk` and `AppendFailed` what follows it.
`Faults` names the failures switched on (the list is in the module's header),
so that each run says what it needs. A payload is a model value. Sequence
numbers are natural numbers: a `u64` does not run out in the life of a stream
(the overflow in `allocate` is not modelled). `ImplementsLog` is the refinement:
`records` is the log, its `Enter` is `apply`; blocks, batches and restarts are
not visible.

### StreamActor

Adds to the stream the actor's mailbox, the broadcast ring (the list `bcast`
with a position per receiver; a receiver that is more than `BroadcastBuffer`
behind has lagged), the state of each append request, and each follower's task
and channel. The actor awaits the write of an append before it serves anyone
else, so a read or a subscription is one step. `Crash` is a restart: followers
and pending requests are gone, storage stays.

`FollowedLog` says what a follow promises without mailbox, ring or channel: its
records come from the log, in order, each at most once; before a record come all
those from the start on that were in the log below the tail, or were
acknowledged; records below the start come only if the start lay beyond the
tail. `ImplementsFollowedLog` maps `records` to the log and, for each task that
runs, its start, `next_seq_num` and the records it sent to the promise. It is
stronger than `NoAckedRecordSkipped` in two points: what was sent is in the log,
and a record whose append failed after its write was made counts like any other
for who subscribed later.

### Directory

A request arrives as one of the four gRPC methods (`AppendArrives`,
`ReadArrives`, ...), with names that may be blank, and ends with its actor or
list or with the status of `controller_error_to_status`. Each await is a program
counter (`req[r].pc`), each storage call a step. `cached`, `basinInit` and
`handles` are `StreamController.basins`, `basin_init` and the `BasinHandle`s
with their `streams` and `stream_init`. Guards go with the future: an error of
storage (`StorageError`) or a dropped handler (`Drop`, `DropWriting`) releases
what the request held. `meta` is one database; `late` are writes that outlive
the handler that issued them. `given` and `known` are history: what appends were
given, and what of it was there when a request arrived. The short `RwLock`
sections of the maps are part of the steps.

### Keys, Values and KeySpace

A key is a sequence of bytes `0 .. MaxByte`; widths are constants. `NextPrefix`
finds the last byte that can be incremented, increments it and cuts the rest
off, as `next_prefix` does; `InRange` is `BytesRange::contains`. `SeqNumBytes`
shifts and masks as `put_u64` does, and `SeqNum` are the numbers that have the
width. `Values` has the encodings: ids and numbers big endian and of fixed
width, data to the end of the value; a value too short is `Malformed`. `Number`
is `from_be_bytes`. Both are recursive functions and not operators, so that they
can be reasoned about. `Scan` is the list of the keys found that is in order, by
`CHOOSE`: `ScanIsExact` proves that there is one. `KeySpace` puts basins, streams, blocks
and records as bytes under their keys, keeps beside the databases what was
meant, and compares lists and reads with that. An append builds its keys from
the ids that `load` read in the metadata, as the code does.

### MeetingRooms

One room id: rooms with other ids share nothing but the short sections of
`s.mu`. Every critical section is a step; the two sections that may wait for a
client, the fan-out under `room.mu` and the write under `p.mu`, are states
(`follower = "fan"`, `connMu`) that block those who need the lock. Room objects
are numbered, as a room may be replaced while handlers still hold the old one.
`due` is history: who had an open socket when the frame at hand was taken.
Concrete is external: its stream exists from the first frame on, a read before
is refused, as `get_existing_basin` and `get_stream(create = false)` do.

### PeerPlayback

Handlers run to completion. The browser ends an append (`AppendDone`) before it
runs `updateend`, so other tasks can come between, and between `sourceopen` and
the first append.

### RoomClient

State that handlers set is `queued` until React renders it (`Render`, which also
runs the effects); a click is rendered at once, as React does, so `HandleLeave`
is one step. `Mounts = 2` is React's double run of effects in development; run
`m` has its own `getUserMedia`, join, socket and participant, and only the last
is not cancelled. A production page is the same with a first run that nothing
answers. The closures of the code show in the model: handlers see `shown`, a
chunk carries the participant of the recorder that recorded it, and
`sendMediaChunk` the socket `wsRef` holds when it runs. React and the browser
are external and modelled from what the code relies on.

## 3. The runs

"pass" runs finish without error; "violation" runs show a disagreement of the
code with its own text (section 4). Each property of a passing run has a mutant
of the code, kept beside the definition it changes, that TLC finds violated.

| Run | Shows | Bounds, and why they are enough |
|---|---|---|
| `restarts` | durability, reservation, append-only, refinement, with restarts and failing or unreported writes | blocks of 3, numbers 0..6: two roll-overs and a number in the middle of a block, two payloads to tell a replacement |
| `follow_restarts` | order, completeness, durability of what was shown, reported ends, right answers, and the refinement of `FollowedLog`, through restarts | two followers, two appends, numbers 0..5: every mix of backfill and live, a start beyond the tail; ring of 1 so that lag happens, mailbox of 2 so that it fills |
| `catch_up` | every queued append is answered, whatever followers and clients do; a client that reads gets what was acknowledged, with lag, holes, late starts, failing reads and every kind of failed write; the task of a client that is gone ends with the next record | one follower, three appends on a ring of 1, starts 0 and 3 (beyond the tail) |
| `directory` | one actor per stream, what was given stays found, honest NotFound and lists, cache as stored; every request ends | three requests: one that is dropped or fails, one that retries, one that interferes; two basins, each with a stream of the same name; one late write |
| `key_space` | lists and reads return what was put | bytes 0..4 with 4 for 0xff: neighbouring basin ids, the second all 0xff; two-byte numbers with equal low bytes; two records, with no data or data that looks like a number |
| `rooms` | frames in order, at most once, not to the sender, and to all who still read; locks where the code holds them; joins and leaves end, followers take every frame, those of dead rooms end | three participants: a sender, one who reads, one who vanishes or comes back to a new room; one leave (two are in `torn_down`), two frames |
| `playback` | chunks are kept, the queue keeps its order and is played out once started | five chunks |
| `visit` | no socket or camera is left behind, frames name their sender, a Leave with a connection is final, recording starts | two runs of the effects, two peers, four chunks: one waiting, one last and one sent of two recorders |
| `lost_block`, `cut_creation`, `torn_down`, `fan_out` | section 4 | the smallest instances that show it |

Liveness is stated as `<>[]` where the actors are finite and run once (requests
of `Directory`, handlers of `MeetingRooms`, appends and follows of a process):
from some time on none is left waiting.

*Late writes.* `MaxLate = 1` is an assumption on SlateDB and not only a bound.
If two handlers in a row are dropped with their writes of one key under way, a
third can load the first id and be answered, and then the second write lands and
replaces it: with `MaxLate = 2` TLC finds `GivenStaysFound` violated so. Whether
a write goes on after its future is dropped is up to SlateDB, which is not in
this repository; the hazard is listed, and no finding is drawn from it.

Deadlock is checked wherever the system should always have a step; where it may
be done, that is a named stuttering action (`BoundReached`, `Settled`,
`AllEnded`, `Quiet`), so that a real deadlock still shows. Only `KeySpace`,
`PeerPlayback` and `RoomClient`, which simply run out of input, switch the check
off.

### Fairness

- `StreamActor`: weak fairness of the actor's step alone (tokio polls a ready
  task, and a storage call returns). That a follower's task is polled and its
  client keeps reading is the premise of `FollowersCatchUp`, not of the
  specification, so that `AppendsAnswered` does not rest on it. Requests,
  cancellations, disconnects and crashes are never forced.
- `Directory`: weak fairness of each request's next step and of late writes. `tokio::sync::Mutex`
  is first come, first served, which weak fairness with finitely many requests
  stands for.
- `MeetingRooms`: weak fairness of handlers and followers, and that every write
  to a socket returns. The code sets no write deadline: a client that does not
  read holds its room up until TCP gives up. Joining, sending and leaving are
  not forced. Go's `RWMutex` does not starve writers; frames are finite here.
- `PeerPlayback`: weak fairness of the browser; peers need not send.
- `RoomClient`: weak fairness of rendering alone; camera, server, user and
  network need not answer.

## 4. Findings

1. `lost_block` (`core/stream.rs:177`). `append` advances the allocator before
   the write and does not go back. If the failed write carried the next block,
   the process goes on in a block that storage does not know; after a restart
   the same numbers are given out again and stored records are replaced.
2. `cut_creation` (`core/stream.rs:144`). Creation cut between its two writes
   leaves metadata without a block. `load` then takes the default allocator and
   stores nothing, so the first block is not reserved; a restart starts at 0
   again, over acknowledged records.
3. `torn_down` (`video/server/main.go:232`). A join between the count of the
   last leave and the deletion is left in a room nobody finds, with a follower
   that is cancelled. Two leaves of one participant can also delete the room
   that came after.
4. `fan_out` (`video/server/main.go:296`). The follower of a new room starts
   before the first frame, is refused, and is not started again.

Three more disagreements are visible in the models and have no run:

- A follow whose start is beyond the tail is sent the records below its start
  (`core/stream_controller.rs:142`; `Deliver` of `FollowedLog` has to allow it).
  The client library says "starting at `start_seq_num`".
- A read follows until an error (`core/stream_controller.rs:140`;
  `EndIsReported`), so that `collect` never returns the records; the client
  library says "Returns all records as a collected Vec".
- Chunks queued before `sourceopen` are not played until another chunk arrives,
  which then goes first
  (`video/client/app/components/video-room.tsx:112`; `SourceOpen`).

## 5. What is proved

No theorem bounds a constant: block size, payloads, failures, byte range and
widths, the numbers of appends, followers, requests, participants, leaves,
frames, chunks and runs of effects, and the sizes of mailbox, ring and channels
are any that the modules' assumptions allow. The assumptions (`...Assumption`,
`NoneIsNoBlock`) give types, and in four places more:

- `StreamActorAssumption`: every append finds a number, so that the bound of
  `DurableStream` is never what stops the actor; the code has no such bound.
- `StreamAssumption` and `NoneIsNoBlock`: the markers for "none" and "error" are
  no blocks and no records, as Rust's types have it.
- `DirectoryAssumption`: the key of a basin is not the key of a stream. The
  tags of the keys see to that, as `MetaKeysAreUnique` proves of the bytes.
- `KeySpaceAssumption`: sequence numbers, and the blocks that `MaxPuts` appends
  can reach, fit into a `u64`; ids have their width and names are not empty
  (`validate_name`).

Each safety proof goes by one inductive invariant per layer, which TLC checked
on the bounds of the runs before it was proved: the properties the runs check
are not inductive by themselves.

`DurableStream_proofs`: first the allocator, `AllocateTakesCount` and
`BlockToPersistIsTheNewBlock`, for every count that the code's assertion lets
through. Then the stream: the induction needs, besides types, where the stored
block came from. `StoreInv` says so, whatever fails: records sit under their own
numbers, creation comes in order, blocks have the default size, the batch in
flight carries the allocator's latest number and block, and the stored block is
the first or was stored with the number just below it. It gives `TypeCorrect`
and, as its last part says how far the block can be ahead, `WasteIsBounded`.
`OrderInv` adds what only holds under `SafeFaults` (no restart, or no block
lost): the allocator is above every record, and, while no block is lost, storage
has the allocator's block. The two are needed together: that `apply` takes a
free key rests on the allocator, and that the allocator is still ahead after
`Load` rests on the stored block. They give `AcknowledgedIsDurable`,
`RestartIsAbove` (under `NoBlockLost`), `RecordsAreAppendOnly` and
`StreamImplementsLog`, the refinement step by step. Findings 1 and 2 are why
`SafeFaults` cannot be dropped.

`StreamActor_proofs`: `ActorImplementsStream` is a refinement without a mapping:
each step is a step of `DurableStream` or leaves its variables alone. So the
stream's invariants hold behind the actor and are the first part of the actor's.
`ActorInv` holds whatever fails. It puts everything that concerns a running
follower in one order of numbers: what it was sent, what its task waits to send,
where its backfill stands, what of the broadcast it has not received, the number
of the next broadcast. Why a follower never gets a record twice is not visible
in any smaller part of it: the backfill ends at the tail that was read when the
subscription was made, and what is broadcast below `next_seq_num` is dropped.
It gives `ActorTypeCorrect`, `FollowersAreOrdered` and `EndsAreReported`.
`ActorRestartWastesABlock` is the stream's bound on wasted numbers, behind the
actor.
`LogInv`, under `SafeFaults`, says that nothing is missing in that order: what
is broadcast was acknowledged, what was sent is stored, and what is stored from
the start up to the cursor, or was acknowledged since, was sent, is held, or is
still in the ring. It gives `AcknowledgedStaysStored`, `ActorNeverRewrites` (no
step of anybody replaces or removes a record), `AcksNameTheirRecord`,
`NothingAckedIsSkipped`, and with `ActorInv` the refinement
`ActorImplementsFollowedLog`. `SafeFaults` is needed: where numbers are given out
twice, an acknowledgement names two records.

`Directory_proofs`: `MemoryInv` says who works under which lock, that what is
made under a lock is not in the map yet, that every id drawn is claimed by one
key only (it is stored or late under that key, or cached there, or about to be),
and that handles and actors fit the maps. It holds for any number of late
writes, and gives `DirectoryTypeCorrect` (the mutual exclusion of `basin_init`
and `stream_init`) and `StreamsHaveOneActor`: two actors of one stream would be
two keys of one id, or two cached under one lock. `StorageInv` ties memory to
storage: what is cached, held by a request or was given is what storage has, and
what is being made under a key was never given and is stored at most by the one
late write. It needs `MaxLate <= 1`, the assumption on
SlateDB of section 3: with two late writes TLC finds `GivenStaysFound` violated.
It gives `CachesAgree`, `GivenIsKept`, and, with what a request may still answer
at each await, `NotFoundMeansAbsent` and `ListsAreComplete`.

`Keys_proofs`: `PrefixRangeIsExact`, a key is in the range of a prefix exactly
if it starts with it: the argument takes the first byte in which the two differ,
and the last byte of the prefix that is not the greatest. `NumbersReadBack`, a
number is read back from its bytes: the digits read so far are the number
without its lower digits, by induction over their count. With it
`RecordKeysAreUnique` says that records with one key agree in basin, stream and
number, and that no block has a record's key; `MetaKeysAreUnique` and
`StreamsListUnderTheirBasin` say the like of basins and streams. Ids of fixed
width are needed for all three, and the tags.

`KeySpace_proofs`: `KeySpaceInv` says that the keys of each database are exactly
the keys of what was put, each with its value serialised, that streams are made
in basins that exist, and how far a block can be. That a put replaces nothing
else is that keys are unique; that an append uses the ids its stream was made
with is that metadata reads back. `ScanIsExact` says of any finite database that
a scan by prefix returns the keys with the prefix, each once and in order: a
finite set of keys has a last one, so it can be listed in order, by induction
over its size, and such a list misses none. They give `KeySpaceTypeCorrect`
(two things never share a key), `KeySpaceGetsAreExact` and
`KeySpaceListsAreExact`. Names are bytes here: that a `String` is read back from
its bytes is Rust's promise.

`MeetingRooms_proofs`: several rooms may follow the one stream, one after the
other or at once, each from number 0. `RoomsInv` says why order
holds all the same: a participant is only ever in the room that its join found,
and has received nothing that this room's follower has not taken, nor the frame
it is still to be offered. Who was there when a frame was taken is still in the
fan-out, has the frame, or is gone. It gives `RoomsTypeCorrect`,
`FramesAreFannedInOrder` and `ReadersGetFrames`.

`PeerPlayback_proofs`: `PlayInv` counts: each append and `updateend` comes from a
chunk that was played, and no more are played and queued than arrived. The order
is kept in three parts, within what was played, within the queue and between the
two, as a step moves a chunk from the one to the other. It gives `PlaybackTypeCorrect`, `NoChunkIsForgotten` and
`OnlyArrivalsOvertake`.

`RoomClient_proofs`: `ClientInv` says that whatever an undone run of the effects
asked for is answered into nothing, that nothing names a participant before the
last run's join has answered, and that a stream that is rendered is the one
queued. So there is one socket, one stream and one participant to hold on to,
and Leave and the end of the page find them. It gives `ClientTypeCorrect`,
`SocketsAreClosed`, `CamerasAreStopped` and the action property
`LeavingIsFinal`.

The induction theorems of the library take an operator as a parameter, which the
provers cannot instantiate. Where an induction is over numbers or sizes, as in
`NumbersReadBack` and `ScanIsExact`, the proof names the set of numbers for which
the statement holds and shows it closed (`InductionBySet`, by the least number
outside it, from the well-foundedness of `<`).

Only model-checked: the liveness properties (`AppendsAnswered`,
`FollowersCatchUp`, `GoneTasksEnd`, `EveryRequestEnds` and those of
`MeetingRooms`, `PeerPlayback` and `RoomClient`), which rest on fairness and are
out of the prover's reach. Every invariant and every action property that a
passing run checks is a theorem.

## 6. What is not modelled

- Retention, TTL and fencing tokens (`README.md`), and all of
  `ARCHITECTURE.md` and `TUTORIAL.md`, which describe another system: no code.
- SlateDB and object storage: external; `apply` is atomic, `get` reads the
  latest, as the `Storage` trait promises.
- Field by field conversions of the gRPC service and the client library, error
  types and their wording, server start-up: no state.
- Generated protobuf code.
- The conferencing client's display, its microphone and camera toggles, and what
  a `SourceBuffer` still does after `removePeer`; the layout of media frames and
  the message types the conferencing server refuses.
- Overflow of `u64` sequence numbers: not in the life of a stream.

## 7. Plan

Done: the modules of section 2, core first, and a theorem for each safety
property that a passing run checks.

What could follow is a composition of `Directory` with `DurableStream` for one
name, so that "one actor per stream" is what lets `DurableStream` assume one
allocator; a second step of it would take the keys of `KeySpace` for those of
`Directory`.
