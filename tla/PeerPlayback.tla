---------------------------- MODULE PeerPlayback ----------------------------
(***************************************************************************)
(* Playback of one peer in the browser (addPeer and feedPeerChunk of       *)
(* video-room.tsx): chunks that arrive on the WebSocket are appended to a  *)
(* SourceBuffer, or queued while there is none or it is updating.          *)
(*                                                                         *)
(* Handlers are tasks of one event loop and run to their end.  The browser *)
(* opens the MediaSource, finishes an append, and only then queues the     *)
(* task of updateend: other tasks may run in between.  appendBuffer may    *)
(* throw although the buffer is not updating (its quota is used up).       *)
(***************************************************************************)
EXTENDS Naturals, SequencesExt

CONSTANTS
  MaxChunks,   \* bound: the chunks a peer sends
  MayThrow     \* may appendBuffer and addSourceBuffer throw?

ASSUME PeerPlaybackAssumption == MaxChunks \in Nat /\ MayThrow \in BOOLEAN

VARIABLES
  source,         \* the MediaSource: not opened yet, or open
  buffer,         \* peer.sourceBuffer: null, idle or updating
  updateEnds,     \* updateend tasks queued
  pendingChunks,  \* peer.pendingChunks
  received,       \* chunks that arrived: 1 .. received, in this order
  appended,       \* history: the chunks given to the SourceBuffer, in order
  direct,         \* history: those of them that never were in the queue
  lost            \* history: chunks dropped by an append that threw

vars == <<source, buffer, updateEnds, pendingChunks, received, appended, direct, lost>>

Chunk == 1 .. MaxChunks

\* Types, and there is a buffer only in an open source.
TypeOK ==
  /\ source \in {"closed", "open"}
  /\ buffer \in {"null", "idle", "updating"}
  /\ buffer # "null" => source = "open"
  /\ updateEnds \in 0 .. MaxChunks
  /\ pendingChunks \in Seq(Chunk) /\ appended \in Seq(Chunk)
  /\ received \in 0 .. MaxChunks
  /\ direct \subseteq Chunk /\ lost \subseteq Chunk

Init ==
  /\ source = "closed" /\ buffer = "null" /\ updateEnds = 0
  /\ pendingChunks = << >> /\ received = 0
  /\ appended = << >> /\ direct = {} /\ lost = {}

\* The handler of sourceopen; what is queued by then stays queued.
SourceOpen ==
  /\ source = "closed"
  /\ source' = "open"
  /\ \/ buffer' = "idle"
     \/ MayThrow /\ UNCHANGED buffer
  /\ UNCHANGED <<updateEnds, pendingChunks, received, appended, direct, lost>>

\* appendBuffer: updating from now on.
AppendBuffer(chunk) ==
  /\ buffer' = "updating"
  /\ appended' = Append(appended, chunk)

\* Mutant: no check that there is a buffer.
CanAppend_Unchecked == buffer # "updating"

\* There is a SourceBuffer and it is not updating.
CanAppend == buffer = "idle"

\* Mutant: a chunk whose append has thrown is not queued.
Enqueue_IfWaiting(chunk) ==
  pendingChunks' = IF CanAppend THEN pendingChunks ELSE Append(pendingChunks, chunk)

\* Mutant: queued in front, as if to be tried again first.
Enqueue_InFront(chunk) == pendingChunks' = <<chunk>> \o pendingChunks

Enqueue(chunk) == pendingChunks' = Append(pendingChunks, chunk)

\* feedPeerChunk.
Feed(chunk) ==
  \/ /\ CanAppend
     /\ AppendBuffer(chunk) /\ direct' = direct \cup {chunk}
     /\ UNCHANGED pendingChunks
  \/ /\ ~CanAppend \/ MayThrow
     /\ Enqueue(chunk)
     /\ UNCHANGED <<buffer, appended, direct>>

\* A message of the peer.
Message ==
  /\ received < MaxChunks
  /\ received' = received + 1
  /\ Feed(received')
  /\ UNCHANGED <<source, updateEnds, lost>>

\* The browser has taken the chunk in: not updating any more, updateend queued.
AppendDone ==
  /\ buffer = "updating"
  /\ buffer' = "idle" /\ updateEnds' = updateEnds + 1
  /\ UNCHANGED <<source, pendingChunks, received, appended, direct, lost>>

\* Mutant: the last chunk stays in the queue.
HasPending_OffByOne == Len(pendingChunks) > 1

HasPending == Len(pendingChunks) > 0

\* The handler of updateend.  shift comes before appendBuffer.
UpdateEnd ==
  /\ updateEnds > 0 /\ updateEnds' = updateEnds - 1
  /\ IF HasPending /\ CanAppend
     THEN /\ pendingChunks' = Tail(pendingChunks)
          /\ \/ AppendBuffer(Head(pendingChunks)) /\ UNCHANGED lost
             \/ /\ MayThrow /\ lost' = lost \cup {Head(pendingChunks)}
                /\ UNCHANGED <<buffer, appended>>
     ELSE UNCHANGED <<buffer, appended, pendingChunks, lost>>
  /\ UNCHANGED <<source, received, direct>>

\* The browser's own steps.
Browser == SourceOpen \/ AppendDone \/ UpdateEnd

Next == Message \/ Browser

Spec == Init /\ [][Next]_vars

\* The browser goes on; nothing says that the peer sends another chunk.
LiveSpec == Spec /\ WF_vars(SourceOpen) /\ WF_vars(AppendDone) /\ WF_vars(UpdateEnd)

-----------------------------------------------------------------------------
(* Properties. *)

\* A chunk that arrived is played, queued or was in the hands of an append
\* that threw: one of them, and once.
ChunksAreKept ==
  /\ IsInjective(appended) /\ IsInjective(pendingChunks)
  /\ ToSet(appended) \cup ToSet(pendingChunks) \cup lost = 1 .. received
  /\ ToSet(appended) \cap ToSet(pendingChunks) = {}
  /\ lost \cap (ToSet(appended) \cup ToSet(pendingChunks)) = {}

\* A chunk is overtaken only by one that arrived while the buffer was idle, and
\* queued chunks never overtake each other.
OvertakenByArrivalsOnly ==
  /\ \A i, j \in DOMAIN appended :
       i < j /\ appended[i] > appended[j] => appended[i] \in direct
  /\ \A i, j \in DOMAIN pendingChunks : i < j => pendingChunks[i] < pendingChunks[j]
  /\ \A c \in ToSet(appended) \ direct, d \in ToSet(pendingChunks) : c < d

\* Once appends are under way, each updateend starts the next one: a queued
\* chunk is played, whether or not the peer sends another, unless the append
\* that an updateend started has thrown.
QueueDrains ==
  \A c \in Chunk :
    c \in ToSet(pendingChunks) /\ buffer = "updating"
      ~> c \in ToSet(appended) \/ lost # {}
=============================================================================
