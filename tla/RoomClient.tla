----------------------------- MODULE RoomClient -----------------------------
(***************************************************************************)
(* One visit to a room in the browser (VideoRoom of video-room.tsx): the   *)
(* camera it asks for, the join and the WebSocket, the recorder, the       *)
(* peers shown, the Leave button and the end of the page.                  *)
(*                                                                         *)
(* Handlers and what follows an await are tasks of one event loop.  A set  *)
(* state of such a task is queued and takes effect when React renders      *)
(* (Render), which also runs the effects; until then the handlers see the  *)
(* old state.  A click is rendered at once.  In development React runs     *)
(* the effects of a new page, undoes them and runs them again: Mounts = 2. *)
(* Run m of them has its own getUserMedia, join, socket and participant m. *)
(*                                                                         *)
(* Playback of a peer's chunks is in PeerPlayback, the server in           *)
(* MeetingRooms.  Left out: microphone and camera toggles, the display.    *)
(***************************************************************************)
EXTENDS Naturals

CONSTANTS
  Mounts,       \* how often React runs the effects of a new page
  Senders,      \* the other participants
  Supported,    \* can this browser record MEDIA_MIME?
  MaxChunks     \* bound: the chunks recorded

ASSUME RoomClientAssumption ==
  /\ Mounts \in Nat \ {0}
  /\ Supported \in BOOLEAN
  /\ MaxChunks \in Nat

VARIABLES
  page,        \* shown, or gone: unmounted
  media,       \* getUserMedia of each run, then the tracks it gave
  join,        \* the join request of each run
  socket,      \* the WebSocket of each run
  wsRef,       \* wsRef.current: whose socket, 0 for null
  shown,       \* the rendered localStream and participantId, 0 for none
  queued,      \* the same with the state updates not rendered yet
  recorder,    \* whose chunks the recorder at work records, 0 for none
  stopped,     \* recorders that stopped and owe their last chunk, by whose
  recorded,    \* chunks recorded so far
  waiting,     \* dataavailable handlers that await arrayBuffer
  sent,        \* the frames sent: chunk, sender named in it, socket
  peers,       \* the keys of peersRef.current
  leave,       \* Leave pressed: not yet, before there was a socket, with one
  leaves,      \* the participants a leave request was sent for
  slipped      \* history: streams whose update Leave or the end overtook

connection == <<join, socket, wsRef>>
state == <<shown, queued>>
recording == <<recorder, stopped, recorded, waiting>>
left == <<leave, leaves, slipped>>
vars == <<page, media, connection, state, recording, sent, peers, left>>

Mount == 1 .. Mounts
State == [localStream : 0 .. Mounts, participantId : 0 .. Mounts]
Chunk == [n : 1 .. MaxChunks, id : Mount]

\* A recorder works only with a stream and a participant rendered.
TypeOK ==
  /\ page \in {"shown", "gone"}
  /\ media \in [Mount -> {"asked", "refused", "live", "stopped"}]
  /\ join \in [Mount -> {"asked", "failed", "joined"}]
  /\ socket \in [Mount -> {"none", "connecting", "open", "closed"}]
  /\ wsRef \in 0 .. Mounts
  /\ shown \in State /\ queued \in State
  /\ recorder \in 0 .. Mounts
  /\ recorder # 0 => shown.localStream # 0 /\ shown.participantId = recorder
  /\ stopped \in [Mount -> Nat]
  /\ recorded \in 0 .. MaxChunks /\ waiting \subseteq Chunk
  /\ sent \subseteq [n : 1 .. MaxChunks, id : Mount, socket : Mount]
  /\ peers \subseteq Senders
  /\ leave \in {"no", "early", "connected"}
  /\ leaves \subseteq {m \in Mount : join[m] = "joined"}
  /\ slipped \subseteq Mount

\* The effects ran: every run asked for a camera and joins, the last counts.
Init ==
  /\ page = "shown"
  /\ media = [m \in Mount |-> "asked"] /\ join = [m \in Mount |-> "asked"]
  /\ socket = [m \in Mount |-> "none"] /\ wsRef = 0
  /\ shown = [localStream |-> 0, participantId |-> 0] /\ queued = shown
  /\ recorder = 0 /\ stopped = [m \in Mount |-> 0]
  /\ recorded = 0 /\ waiting = {} /\ sent = {}
  /\ peers = {} /\ leave = "no" /\ leaves = {} /\ slipped = {}

\* Mutant: a run that was undone goes on.
Current_Always(m) == TRUE

\* mounted, and not cancelled: run m was not undone.
Current(m) == page = "shown" /\ m = Mounts

-----------------------------------------------------------------------------
(* Camera and connection. *)

\* Mutant: the stream is kept whether or not anybody waits for it.
CameraGiven_NotStopped(m) ==
  /\ media[m] = "asked"
  /\ media' = [media EXCEPT ![m] = "live"]
  /\ queued' = IF Current(m) THEN [queued EXCEPT !.localStream = m] ELSE queued
  /\ UNCHANGED <<page, connection, shown, recording, sent, peers, left>>

\* getUserMedia answers; nobody waits for the stream of a run undone.
CameraGiven(m) ==
  /\ media[m] = "asked"
  /\ media' = [media EXCEPT ![m] = IF Current(m) THEN "live" ELSE "stopped"]
  /\ queued' = IF Current(m) THEN [queued EXCEPT !.localStream = m] ELSE queued
  /\ UNCHANGED <<page, connection, shown, recording, sent, peers, left>>

CameraRefused(m) ==
  /\ media[m] = "asked"
  /\ media' = [media EXCEPT ![m] = "refused"]
  /\ UNCHANGED <<page, connection, state, recording, sent, peers, left>>

\* joinRoom answers: connect goes on, unless it was cancelled.
Joined(m) ==
  /\ join[m] = "asked"
  /\ join' = [join EXCEPT ![m] = "joined"]
  /\ IF Current(m)
     THEN /\ queued' = [queued EXCEPT !.participantId = m]
          /\ socket' = [socket EXCEPT ![m] = "connecting"]
          /\ wsRef' = m
     ELSE UNCHANGED <<socket, wsRef, queued>>
  /\ UNCHANGED <<page, media, shown, recording, sent, peers, left>>

\* Mutant: joinRoom does not look at res.ok.
JoinFailed_Unchecked(m) ==
  /\ join[m] = "asked"
  /\ join' = [join EXCEPT ![m] = "failed"]
  /\ IF Current(m)
     THEN /\ queued' = [queued EXCEPT !.participantId = m]
          /\ socket' = [socket EXCEPT ![m] = "connecting"]
          /\ wsRef' = m
     ELSE UNCHANGED <<socket, wsRef, queued>>
  /\ UNCHANGED <<page, media, shown, recording, sent, peers, left>>

\* The server refuses the join, or cannot be reached.
JoinFailed(m) ==
  /\ join[m] = "asked"
  /\ join' = [join EXCEPT ![m] = "failed"]
  /\ UNCHANGED <<page, media, socket, wsRef, state, recording, sent, peers, left>>

\* The server accepts the socket; or refuses it, closes it, or is out of reach.
SocketChanges(m) ==
  /\ \/ socket[m] = "connecting" /\ socket' = [socket EXCEPT ![m] = "open"]
     \/ /\ socket[m] \in {"connecting", "open"}
        /\ socket' = [socket EXCEPT ![m] = "closed"]
  /\ UNCHANGED <<page, media, join, wsRef, state, recording, sent, peers, left>>

\* A frame of a peer: feedPeerChunk adds who is not shown yet.
Message(m, sender) ==
  /\ socket[m] = "open"
  /\ peers' = peers \cup {sender}
  /\ UNCHANGED <<page, media, connection, state, recording, sent, left>>

-----------------------------------------------------------------------------
(* Recording. *)

\* Mutant: the effect looks at the stream only.
RecorderDeps_Stream(old, new) == old.localStream # new.localStream

\* The dependencies of the recorder's effect.
RecorderDeps(old, new) == old # new

\* recorder.stop(): the last chunk is still to come.
StopRecorder ==
  stopped' = IF recorder = 0 THEN stopped
             ELSE [stopped EXCEPT ![recorder] = @ + 1]

\* The tracks of the stream rendered.
StopTracks ==
  media' = IF shown.localStream = 0 THEN media
           ELSE [media EXCEPT ![shown.localStream] = "stopped"]

\* React renders what is queued and runs the effects whose dependencies
\* changed: cleanup, then a recorder if there are a stream and an id.
Render ==
  /\ page = "shown" /\ queued # shown
  /\ shown' = queued
  /\ IF shown.localStream # queued.localStream THEN StopTracks ELSE UNCHANGED media
  /\ IF RecorderDeps(shown, queued)
     THEN /\ StopRecorder
          /\ recorder' = IF Supported /\ queued.localStream # 0
                         THEN queued.participantId ELSE 0
     ELSE UNCHANGED <<recorder, stopped>>
  /\ UNCHANGED <<page, connection, queued, recorded, waiting, sent, peers, left>>

\* dataavailable, by time or the last one; its handler awaits arrayBuffer.
DataAvailable(m) ==
  /\ recorded < MaxChunks
  /\ \/ recorder = m /\ UNCHANGED stopped
     \/ stopped[m] > 0 /\ stopped' = [stopped EXCEPT ![m] = @ - 1]
  /\ recorded' = recorded + 1
  /\ waiting' = waiting \cup {[n |-> recorded', id |-> m]}
  /\ UNCHANGED <<page, media, connection, state, recorder, sent, peers, left>>

\* Mutant: whatever the state of the socket.
CanSend_AnyState == wsRef # 0

CanSend == wsRef # 0 /\ socket[wsRef] = "open"

\* arrayBuffer resolves, in any order: sendMediaChunk, or nothing.
SendMediaChunk(chunk) ==
  /\ chunk \in waiting
  /\ waiting' = waiting \ {chunk}
  /\ sent' = IF CanSend
             THEN sent \cup {[n |-> chunk.n, id |-> chunk.id, socket |-> wsRef]}
             ELSE sent
  /\ UNCHANGED <<page, media, connection, state, recorder, stopped, recorded,
                 peers, left>>

-----------------------------------------------------------------------------
(* Leave, and the end of the page. *)

CloseSocket ==
  socket' = IF wsRef = 0 THEN socket ELSE [socket EXCEPT ![wsRef] = "closed"]

Overtake ==
  slipped' = IF queued.localStream = shown.localStream THEN slipped
             ELSE slipped \cup {queued.localStream}

\* handleLeave, and the rendering of its setLocalStream(null).  An update of
\* the stream that was queued before has no effect any more.
HandleLeave ==
  /\ page = "shown"
  /\ StopRecorder /\ recorder' = 0
  /\ CloseSocket /\ StopTracks
  /\ queued' = [queued EXCEPT !.localStream = 0]
  /\ shown' = [shown EXCEPT !.localStream = 0]
  /\ peers' = {}
  /\ leaves' = leaves \cup ({shown.participantId} \ {0})
  /\ leave' = IF wsRef = 0 THEN "early" ELSE "connected"
  /\ Overtake
  /\ UNCHANGED <<page, join, wsRef, recorded, waiting, sent>>

\* The page goes: the cleanups of all effects.  No leave request is sent, and
\* updates that were queued are dropped.
Unmount ==
  /\ page = "shown" /\ page' = "gone"
  /\ StopTracks /\ StopRecorder /\ recorder' = 0
  /\ CloseSocket /\ wsRef' = 0
  /\ Overtake
  /\ UNCHANGED <<join, state, recorded, waiting, sent, peers, leave, leaves>>

Next ==
  \/ Render \/ HandleLeave \/ Unmount
  \/ \E m \in Mount :
       \/ CameraGiven(m) \/ CameraRefused(m) \/ Joined(m) \/ JoinFailed(m)
       \/ SocketChanges(m) \/ DataAvailable(m)
       \/ \E sender \in Senders : Message(m, sender)
  \/ \E chunk \in waiting : SendMediaChunk(chunk)

Spec == Init /\ [][Next]_vars

\* React renders; camera, server, user and network may keep it waiting.
LiveSpec == Spec /\ WF_vars(Render)

-----------------------------------------------------------------------------
(* Properties. *)

\* No join answered late leaves a socket behind that the page cannot close, and
\* a frame names the participant whose socket carries it, also when it was
\* recorded long before: the server would else send it back or to nobody.
ConnectionIsOwn ==
  /\ \A m \in Mount :
       socket[m] \in {"connecting", "open"} => page = "shown" /\ wsRef = m
  /\ \A frame \in sent : frame.id = frame.socket

\* A camera at work is one the page holds and will stop when it goes, or its
\* stream came just before Leave or the end, between two renderings.
CameraIsHeld ==
  \A m \in Mount \ slipped :
    media[m] = "live" => page = "shown" /\ queued.localStream = m

\* Who has left with a connection sends nothing more and is shown nobody,
\* whatever chunks and frames were on their way.
LeftStaysLeft ==
  [][leave = "connected" => sent' = sent /\ peers' = {}]_vars

Wanted ==
  /\ page = "shown" /\ leave = "no"
  /\ media[Mounts] = "live" /\ join[Mounts] = "joined"

\* Camera and participant may come in either order: recording starts.
RecordingStarts ==
  Supported => <>[](Wanted => recorder = Mounts)
=============================================================================
