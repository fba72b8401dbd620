-------------------------- MODULE RoomClient_proofs --------------------------
(***************************************************************************)
(* Proofs about RoomClient, for any number of runs of the effects, any set *)
(* of peers and any number of chunks.                                      *)
(*                                                                         *)
(* The argument: whatever a run of the effects that was undone asked for   *)
(* is answered into nothing (LastRunOnly), and nothing names a participant *)
(* before the join of the last run has answered (JoinedFirst).  So there   *)
(* is one socket, one stream and one participant to hold on to, and Leave  *)
(* and the end of the page find them.                                      *)
(***************************************************************************)
EXTENDS RoomClient, TLAPS

-----------------------------------------------------------------------------
(* The inductive invariant. *)

IsLast(x) == x \in {0, Mounts}

\* A run of the effects that was undone leaves nothing at work.
LastRunOnly ==
  /\ \A m \in Mount \ {Mounts} :
       media[m] # "live" /\ socket[m] = "none" /\ stopped[m] = 0
  /\ IsLast(wsRef) /\ IsLast(recorder)
  /\ IsLast(shown.localStream) /\ IsLast(shown.participantId)
  /\ IsLast(queued.localStream) /\ IsLast(queued.participantId)
  /\ \A chunk \in waiting : chunk.id = Mounts
  /\ \A frame \in sent : frame.id = Mounts /\ frame.socket = Mounts

\* Before the last join has answered there is no socket and no participant.
JoinedFirst ==
  \/ join[Mounts] = "joined"
  \/ /\ wsRef = 0 /\ socket[Mounts] = "none" /\ leave # "connected"
     /\ shown.participantId = 0 /\ queued.participantId = 0

\* The page holds the socket that carries frames.
SocketIsHeld ==
  socket[Mounts] \in {"connecting", "open"} => page = "shown" /\ wsRef = Mounts

\* A stream that is rendered is replaced by none before it is replaced.
RenderedIsQueued == shown.localStream # 0 => queued.localStream = shown.localStream

\* Leave with a connection is the end of it.
LeftIsSilent == leave = "connected" => peers = {} /\ socket[Mounts] = "closed"

ClientInv ==
  /\ TypeOK /\ LastRunOnly /\ JoinedFirst
  /\ SocketIsHeld /\ RenderedIsQueued /\ LeftIsSilent /\ CameraIsHeld

-----------------------------------------------------------------------------
(* Facts the steps share. *)

LEMMA MountFacts ==
  /\ Mount \subseteq 0 .. Mounts /\ Mounts \in Mount /\ Mounts # 0 /\ 0 \notin Mount
  /\ \A x : IsLast(x) /\ x # 0 => x = Mounts
BY RoomClientAssumption DEF Mount, IsLast

\* The fields of the two states React keeps.
LEMMA StateFacts ==
  ASSUME TypeOK
  PROVE  /\ shown.localStream \in 0 .. Mounts /\ shown.participantId \in 0 .. Mounts
         /\ queued.localStream \in 0 .. Mounts /\ queued.participantId \in 0 .. Mounts
BY DEF TypeOK, State

\* Setting one field of a state.
LEMMA SetState ==
  ASSUME NEW old \in State, NEW x \in 0 .. Mounts
  PROVE  /\ [old EXCEPT !.localStream = x] \in State
         /\ [old EXCEPT !.localStream = x].localStream = x
         /\ [old EXCEPT !.localStream = x].participantId = old.participantId
         /\ [old EXCEPT !.participantId = x] \in State
         /\ [old EXCEPT !.participantId = x].participantId = x
         /\ [old EXCEPT !.participantId = x].localStream = old.localStream
BY DEF State

\* StopTracks stops the camera that is rendered and touches no other.
LEMMA TracksStop ==
  ASSUME TypeOK, StopTracks
  PROVE  /\ media' \in [Mount -> {"asked", "refused", "live", "stopped"}]
         /\ \A m \in Mount :
              media'[m] = IF m = shown.localStream THEN "stopped" ELSE media[m]
BY StateFacts, MountFacts DEF StopTracks, TypeOK, Mount

\* StopRecorder owes one more chunk of the recorder at work.
LEMMA RecorderStops ==
  ASSUME TypeOK, LastRunOnly, StopRecorder
  PROVE  /\ stopped' \in [Mount -> Nat]
         /\ \A m \in Mount \ {Mounts} : stopped'[m] = 0
<1>1. recorder = 0 \/ recorder = Mounts
  BY DEF LastRunOnly, IsLast
<1>2. CASE recorder = 0
  BY <1>2 DEF StopRecorder, TypeOK, LastRunOnly
<1>3. CASE recorder = Mounts
  BY <1>3, MountFacts DEF StopRecorder, TypeOK, LastRunOnly
<1> QED BY <1>1, <1>2, <1>3

\* CloseSocket closes the socket the page holds, which is the only one.
LEMMA SocketCloses ==
  ASSUME ClientInv, CloseSocket
  PROVE  /\ socket' \in [Mount -> {"none", "connecting", "open", "closed"}]
         /\ socket'[Mounts] \in {"none", "closed"}
         /\ \A m \in Mount \ {Mounts} : socket'[m] = "none"
         /\ wsRef # 0 => socket'[Mounts] = "closed"
         /\ socket[Mounts] = "none" /\ wsRef = 0 => socket'[Mounts] = "none"
         /\ socket[Mounts] = "closed" => socket'[Mounts] = "closed"
<1>1. wsRef = 0 \/ wsRef = Mounts
  BY DEF ClientInv, LastRunOnly, IsLast
<1>2. CASE wsRef = 0
  BY <1>2, MountFacts DEF CloseSocket, ClientInv, TypeOK, LastRunOnly, SocketIsHeld
<1>3. CASE wsRef = Mounts
  BY <1>3, MountFacts DEF CloseSocket, ClientInv, TypeOK, LastRunOnly
<1> QED BY <1>1, <1>2, <1>3

\* Who overtakes an update of the stream notes whose it was.
LEMMA Overtaken ==
  ASSUME ClientInv, Overtake
  PROVE  /\ slipped' \subseteq Mount /\ slipped \subseteq slipped'
         /\ queued.localStream # 0 /\ queued.localStream # shown.localStream
              => queued.localStream \in slipped'
<1>1. queued.localStream = 0 \/ queued.localStream \in Mount
  BY StateFacts, RoomClientAssumption DEF ClientInv, Mount
<1>2. queued.localStream # shown.localStream => queued.localStream # 0
  BY DEF ClientInv, RenderedIsQueued
<1> QED BY <1>1, <1>2 DEF Overtake, ClientInv, TypeOK

\* Leave and the end of the page let go of every camera that is not slipped.
LEMMA CamerasStop ==
  ASSUME ClientInv, StopTracks, Overtake
  PROVE  \A m \in Mount \ slipped' : media'[m] # "live"
<1> SUFFICES ASSUME NEW m \in Mount \ slipped', media'[m] = "live"
             PROVE  FALSE
  OBVIOUS
<1>1. m # shown.localStream /\ media[m] = "live" /\ m \notin slipped
  BY TracksStop, Overtaken DEF ClientInv
<1>2. queued.localStream = m /\ m # 0
  BY <1>1, MountFacts DEF ClientInv, CameraIsHeld
<1> QED BY <1>1, <1>2, Overtaken

-----------------------------------------------------------------------------
(* Camera and connection. *)

LEMMA CameraGivenKeeps ==
  ASSUME ClientInv, NEW m \in Mount, CameraGiven(m)
  PROVE  ClientInv'
<1> USE MountFacts DEF ClientInv
<1>1. /\ media[m] = "asked" /\ media' = [media EXCEPT ![m] = IF Current(m) THEN "live" ELSE "stopped"]
      /\ UNCHANGED <<page, join, socket, wsRef, shown, recorder, stopped, recorded,
                     waiting, sent, peers, leave, leaves, slipped>>
  BY DEF CameraGiven, connection, recording, left
<1>2. /\ queued' \in State /\ queued'.participantId = queued.participantId
      /\ queued'.localStream = IF Current(m) THEN m ELSE queued.localStream
  <2>1. m \in 0 .. Mounts /\ queued \in State
    BY DEF TypeOK
  <2>2. CASE Current(m)
    <3>1. queued' = [queued EXCEPT !.localStream = m]
      BY <2>2 DEF CameraGiven
    <3> QED BY <2>1, <2>2, <3>1, SetState
  <2>3. CASE ~ Current(m)
    BY <2>1, <2>3 DEF CameraGiven
  <2> QED BY <2>2, <2>3
<1>3. TypeOK'
  BY <1>1, <1>2 DEF TypeOK
<1>4. \A k \in Mount : media'[k] = "live" =>
        \/ media[k] = "live" /\ k # m
        \/ k = m /\ Current(m)
  BY <1>1 DEF TypeOK
<1>5. LastRunOnly'
  BY <1>1, <1>2, <1>4 DEF LastRunOnly, Current, IsLast
<1>6. RenderedIsQueued'
  BY <1>1, <1>2 DEF RenderedIsQueued, LastRunOnly, Current, IsLast
<1>7. CameraIsHeld'
  BY <1>1, <1>2, <1>4 DEF CameraIsHeld, LastRunOnly, Current
<1>8. JoinedFirst' /\ SocketIsHeld' /\ LeftIsSilent'
  BY <1>1, <1>2 DEF JoinedFirst, SocketIsHeld, LeftIsSilent
<1> QED BY <1>3, <1>5, <1>6, <1>7, <1>8

LEMMA CameraRefusedKeeps ==
  ASSUME ClientInv, NEW m \in Mount, CameraRefused(m)
  PROVE  ClientInv'
<1> USE MountFacts DEF ClientInv
<1>1. /\ media' = [media EXCEPT ![m] = "refused"]
      /\ UNCHANGED <<page, join, socket, wsRef, shown, queued, recorder, stopped, recorded,
                     waiting, sent, peers, leave, leaves, slipped>>
  BY DEF CameraRefused, connection, state, recording, left
<1>2. TypeOK'
  BY <1>1 DEF TypeOK
<1>3. \A k \in Mount : media'[k] = "live" => media[k] = "live"
  BY <1>1 DEF TypeOK
<1>4. LastRunOnly' /\ CameraIsHeld'
  BY <1>1, <1>3 DEF LastRunOnly, CameraIsHeld, IsLast
<1>5. JoinedFirst' /\ SocketIsHeld' /\ RenderedIsQueued' /\ LeftIsSilent'
  BY <1>1 DEF JoinedFirst, SocketIsHeld, RenderedIsQueued, LeftIsSilent
<1> QED BY <1>2, <1>4, <1>5

LEMMA JoinedKeeps ==
  ASSUME ClientInv, NEW m \in Mount, Joined(m)
  PROVE  ClientInv'
<1> USE MountFacts DEF ClientInv
<1>1. /\ join[m] = "asked" /\ join' = [join EXCEPT ![m] = "joined"]
      /\ UNCHANGED <<page, media, shown, recorder, stopped, recorded,
                     waiting, sent, peers, leave, leaves, slipped>>
  BY DEF Joined, recording, left
<1>2. /\ join' \in [Mount -> {"asked", "failed", "joined"}] /\ join'[m] = "joined"
      /\ \A k \in Mount : k # m => join'[k] = join[k]
  BY <1>1 DEF TypeOK
<1>3. leaves' \subseteq {k \in Mount : join'[k] = "joined"}
  BY <1>1, <1>2 DEF TypeOK
<1>4. CASE ~ Current(m)
  <2>1. UNCHANGED <<socket, wsRef, queued>>
    BY <1>4 DEF Joined
  <2>2. TypeOK'
    BY <1>1, <1>2, <1>3, <2>1 DEF TypeOK
  <2>3. JoinedFirst'
    BY <1>1, <1>2, <2>1 DEF JoinedFirst
  <2>4. LastRunOnly' /\ CameraIsHeld'
    BY <1>1, <2>1 DEF LastRunOnly, CameraIsHeld, IsLast
  <2>5. SocketIsHeld' /\ RenderedIsQueued' /\ LeftIsSilent'
    BY <1>1, <2>1 DEF SocketIsHeld, RenderedIsQueued, LeftIsSilent
  <2> QED BY <2>2, <2>3, <2>4, <2>5
<1>5. CASE Current(m)
  <2>1. m = Mounts /\ page = "shown"
    BY <1>5 DEF Current
  <2>2. wsRef' = m /\ socket' = [socket EXCEPT ![m] = "connecting"]
    BY <1>5 DEF Joined
  <2>3. /\ socket' \in [Mount -> {"none", "connecting", "open", "closed"}]
        /\ \A k \in Mount : k # m => socket'[k] = socket[k]
    BY <2>2 DEF TypeOK
  <2>4. /\ queued' \in State /\ queued'.participantId = m
        /\ queued'.localStream = queued.localStream
    <3>1. m \in 0 .. Mounts /\ queued \in State
      BY DEF TypeOK
    <3>2. queued' = [queued EXCEPT !.participantId = m]
      BY <1>5 DEF Joined
    <3> QED BY <3>1, <3>2, SetState
  <2>5. leave # "connected"
    BY <1>1, <2>1 DEF JoinedFirst
  <2>6. TypeOK'
    BY <1>1, <1>2, <1>3, <2>2, <2>3, <2>4 DEF TypeOK, Mount
  <2>7. LastRunOnly' /\ CameraIsHeld'
    BY <1>1, <2>1, <2>2, <2>3, <2>4 DEF LastRunOnly, CameraIsHeld, IsLast
  <2>8. JoinedFirst' /\ SocketIsHeld' /\ RenderedIsQueued' /\ LeftIsSilent'
    BY <1>1, <1>2, <2>1, <2>2, <2>4, <2>5
       DEF JoinedFirst, SocketIsHeld, RenderedIsQueued, LeftIsSilent
  <2> QED BY <2>6, <2>7, <2>8
<1> QED BY <1>4, <1>5

LEMMA JoinFailedKeeps ==
  ASSUME ClientInv, NEW m \in Mount, JoinFailed(m)
  PROVE  ClientInv'
<1> USE MountFacts DEF ClientInv
<1>1. /\ join[m] = "asked" /\ join' = [join EXCEPT ![m] = "failed"]
      /\ UNCHANGED <<page, media, socket, wsRef, shown, queued, recorder, stopped, recorded,
                     waiting, sent, peers, leave, leaves, slipped>>
  BY DEF JoinFailed, state, recording, left
<1>2. /\ join' \in [Mount -> {"asked", "failed", "joined"}]
      /\ \A k \in Mount : join[k] = "joined" => join'[k] = "joined"
  BY <1>1 DEF TypeOK
<1>3. TypeOK'
  BY <1>1, <1>2 DEF TypeOK
<1>4. JoinedFirst'
  BY <1>1, <1>2 DEF JoinedFirst
<1>5. LastRunOnly' /\ CameraIsHeld'
  BY <1>1 DEF LastRunOnly, CameraIsHeld, IsLast
<1>6. SocketIsHeld' /\ RenderedIsQueued' /\ LeftIsSilent'
  BY <1>1 DEF SocketIsHeld, RenderedIsQueued, LeftIsSilent
<1> QED BY <1>3, <1>4, <1>5, <1>6

LEMMA SocketChangesKeeps ==
  ASSUME ClientInv, NEW m \in Mount, SocketChanges(m)
  PROVE  ClientInv'
<1> USE MountFacts DEF ClientInv
<1>1. /\ \/ socket[m] = "connecting" /\ socket' = [socket EXCEPT ![m] = "open"]
         \/ socket[m] \in {"connecting", "open"} /\ socket' = [socket EXCEPT ![m] = "closed"]
      /\ UNCHANGED <<page, media, join, wsRef, shown, queued, recorder, stopped, recorded,
                     waiting, sent, peers, leave, leaves, slipped>>
  BY DEF SocketChanges, state, recording, left
<1>2. m = Mounts
  BY <1>1 DEF LastRunOnly
<1>3. /\ socket' \in [Mount -> {"none", "connecting", "open", "closed"}]
      /\ \A k \in Mount : k # m => socket'[k] = socket[k]
  BY <1>1 DEF TypeOK
<1>4. TypeOK'
  BY <1>1, <1>3 DEF TypeOK
<1>5. LastRunOnly' /\ CameraIsHeld'
  BY <1>1, <1>2, <1>3 DEF LastRunOnly, CameraIsHeld, IsLast
<1>6. JoinedFirst' /\ SocketIsHeld' /\ RenderedIsQueued' /\ LeftIsSilent'
  BY <1>1, <1>2 DEF JoinedFirst, SocketIsHeld, RenderedIsQueued, LeftIsSilent
<1> QED BY <1>4, <1>5, <1>6

LEMMA MessageKeeps ==
  ASSUME ClientInv, NEW m \in Mount, NEW sender \in Senders, Message(m, sender)
  PROVE  ClientInv'
<1> USE MountFacts DEF ClientInv
<1>1. /\ socket[m] = "open" /\ peers' = peers \cup {sender}
      /\ UNCHANGED <<page, media, join, socket, wsRef, shown, queued, recorder, stopped,
                     recorded, waiting, sent, leave, leaves, slipped>>
  BY DEF Message, connection, state, recording, left
<1>2. m = Mounts /\ leave # "connected"
  BY <1>1 DEF LastRunOnly, LeftIsSilent
<1>3. TypeOK'
  BY <1>1 DEF TypeOK
<1>4. LastRunOnly' /\ CameraIsHeld'
  BY <1>1 DEF LastRunOnly, CameraIsHeld, IsLast
<1>5. JoinedFirst' /\ SocketIsHeld' /\ RenderedIsQueued' /\ LeftIsSilent'
  BY <1>1, <1>2 DEF JoinedFirst, SocketIsHeld, RenderedIsQueued, LeftIsSilent
<1> QED BY <1>3, <1>4, <1>5

-----------------------------------------------------------------------------
(* Recording. *)

LEMMA RenderKeeps ==
  ASSUME ClientInv, Render
  PROVE  ClientInv'
<1> USE MountFacts DEF ClientInv
<1>1. /\ page = "shown" /\ shown' = queued /\ StopRecorder
      /\ recorder' = IF Supported /\ queued.localStream # 0 THEN queued.participantId ELSE 0
      /\ UNCHANGED <<page, join, socket, wsRef, queued, recorded, waiting, sent, peers,
                     leave, leaves, slipped>>
  BY DEF Render, RecorderDeps, connection, left
<1>2. /\ media' \in [Mount -> {"asked", "refused", "live", "stopped"}]
      /\ \A m \in Mount : media'[m] = "live" => media[m] = "live"
  <2>1. CASE shown.localStream # queued.localStream
    BY <2>1, TracksStop DEF Render
  <2>2. CASE shown.localStream = queued.localStream
    BY <2>2 DEF Render, TypeOK
  <2> QED BY <2>1, <2>2
<1>3. TypeOK'
  BY <1>1, <1>2, StateFacts, RecorderStops DEF TypeOK
<1>4. LastRunOnly'
  BY <1>1, <1>2, RecorderStops DEF LastRunOnly, IsLast
<1>5. CameraIsHeld'
  BY <1>1, <1>2 DEF CameraIsHeld
<1>6. JoinedFirst' /\ SocketIsHeld' /\ RenderedIsQueued' /\ LeftIsSilent'
  BY <1>1 DEF JoinedFirst, SocketIsHeld, RenderedIsQueued, LeftIsSilent
<1> QED BY <1>3, <1>4, <1>5, <1>6

LEMMA DataAvailableKeeps ==
  ASSUME ClientInv, NEW m \in Mount, DataAvailable(m)
  PROVE  ClientInv'
<1> USE MountFacts DEF ClientInv
<1>1. /\ recorded < MaxChunks /\ recorded' = recorded + 1
      /\ waiting' = waiting \cup {[n |-> recorded', id |-> m]}
      /\ UNCHANGED <<page, media, join, socket, wsRef, shown, queued, recorder, sent, peers,
                     leave, leaves, slipped>>
  BY DEF DataAvailable, connection, state, left
<1>2. \/ recorder = m /\ UNCHANGED stopped
      \/ stopped[m] > 0 /\ stopped' = [stopped EXCEPT ![m] = @ - 1]
  BY DEF DataAvailable
<1>3. m = Mounts
  BY <1>2 DEF LastRunOnly, IsLast
<1>4. stopped' \in [Mount -> Nat] /\ \A k \in Mount \ {Mounts} : stopped'[k] = 0
  BY <1>2, <1>3 DEF TypeOK, LastRunOnly
<1>5. recorded' \in 1 .. MaxChunks /\ recorded' \in 0 .. MaxChunks
  BY <1>1, RoomClientAssumption DEF TypeOK
<1>6. TypeOK'
  BY <1>1, <1>4, <1>5 DEF TypeOK, Chunk
<1>7. LastRunOnly' /\ CameraIsHeld'
  BY <1>1, <1>3, <1>4 DEF LastRunOnly, CameraIsHeld, IsLast
<1>8. JoinedFirst' /\ SocketIsHeld' /\ RenderedIsQueued' /\ LeftIsSilent'
  BY <1>1 DEF JoinedFirst, SocketIsHeld, RenderedIsQueued, LeftIsSilent
<1> QED BY <1>6, <1>7, <1>8

LEMMA SendMediaChunkKeeps ==
  ASSUME ClientInv, NEW chunk \in waiting, SendMediaChunk(chunk)
  PROVE  ClientInv' /\ (leave = "connected" => sent' = sent)
<1> USE MountFacts DEF ClientInv
<1> DEFINE frame == [n |-> chunk.n, id |-> chunk.id, socket |-> wsRef]
<1>1. /\ waiting' = waiting \ {chunk}
      /\ sent' = IF CanSend THEN sent \cup {frame} ELSE sent
      /\ UNCHANGED <<page, media, join, socket, wsRef, shown, queued, recorder, stopped,
                     recorded, peers, leave, leaves, slipped>>
  BY DEF SendMediaChunk, connection, state, left
<1>2. CanSend => wsRef = Mounts /\ leave # "connected"
  BY DEF CanSend, LastRunOnly, IsLast, LeftIsSilent
<1>3. chunk.n \in 1 .. MaxChunks /\ chunk.id = Mounts
  BY DEF TypeOK, Chunk, LastRunOnly
<1>4. TypeOK'
  BY <1>1, <1>2, <1>3 DEF TypeOK
<1>5. LastRunOnly' /\ CameraIsHeld'
  BY <1>1, <1>2, <1>3 DEF LastRunOnly, CameraIsHeld, IsLast
<1>6. JoinedFirst' /\ SocketIsHeld' /\ RenderedIsQueued' /\ LeftIsSilent'
  BY <1>1 DEF JoinedFirst, SocketIsHeld, RenderedIsQueued, LeftIsSilent
<1> QED BY <1>1, <1>2, <1>4, <1>5, <1>6

-----------------------------------------------------------------------------
(* Leave, and the end of the page. *)

LEMMA HandleLeaveKeeps ==
  ASSUME ClientInv, HandleLeave
  PROVE  ClientInv'
<1> USE MountFacts DEF ClientInv
<1>1. /\ StopRecorder /\ recorder' = 0 /\ CloseSocket /\ StopTracks /\ Overtake
      /\ peers' = {} /\ leaves' = leaves \cup ({shown.participantId} \ {0})
      /\ leave' = IF wsRef = 0 THEN "early" ELSE "connected"
      /\ UNCHANGED <<page, join, wsRef, recorded, waiting, sent>>
  BY DEF HandleLeave
<1>2. /\ shown' \in State /\ shown'.localStream = 0
      /\ shown'.participantId = shown.participantId
      /\ queued' \in State /\ queued'.localStream = 0
      /\ queued'.participantId = queued.participantId
  <2>1. shown \in State /\ queued \in State /\ 0 \in 0 .. Mounts
    BY RoomClientAssumption DEF TypeOK
  <2>2. /\ shown' = [shown EXCEPT !.localStream = 0]
        /\ queued' = [queued EXCEPT !.localStream = 0]
    BY DEF HandleLeave
  <2> QED BY <2>1, <2>2, SetState
<1>3. leaves' \subseteq {m \in Mount : join[m] = "joined"}
  BY <1>1 DEF TypeOK, LastRunOnly, IsLast, JoinedFirst
<1>4. TypeOK'
  BY <1>1, <1>2, <1>3, TracksStop, RecorderStops, SocketCloses, Overtaken DEF TypeOK
<1>5. LastRunOnly'
  BY <1>1, <1>2, TracksStop, RecorderStops, SocketCloses DEF LastRunOnly, IsLast
<1>6. CameraIsHeld'
  BY <1>1, CamerasStop DEF CameraIsHeld
<1>7. JoinedFirst'
  BY <1>1, <1>2, SocketCloses DEF JoinedFirst
<1>8. SocketIsHeld' /\ RenderedIsQueued' /\ LeftIsSilent'
  BY <1>1, <1>2, SocketCloses DEF SocketIsHeld, RenderedIsQueued, LeftIsSilent
<1> QED BY <1>4, <1>5, <1>6, <1>7, <1>8

LEMMA UnmountKeeps ==
  ASSUME ClientInv, Unmount
  PROVE  ClientInv'
<1> USE MountFacts DEF ClientInv
<1>1. /\ StopTracks /\ StopRecorder /\ recorder' = 0 /\ CloseSocket /\ Overtake
      /\ page' = "gone" /\ wsRef' = 0
      /\ UNCHANGED <<join, shown, queued, recorded, waiting, sent, peers, leave, leaves>>
  BY DEF Unmount, state
<1>2. TypeOK'
  BY <1>1, TracksStop, RecorderStops, SocketCloses, Overtaken DEF TypeOK
<1>3. LastRunOnly'
  BY <1>1, TracksStop, RecorderStops, SocketCloses DEF LastRunOnly, IsLast
<1>4. CameraIsHeld'
  BY <1>1, CamerasStop DEF CameraIsHeld
<1>5. JoinedFirst'
  BY <1>1, SocketCloses DEF JoinedFirst
<1>6. SocketIsHeld' /\ RenderedIsQueued' /\ LeftIsSilent'
  BY <1>1, SocketCloses DEF SocketIsHeld, RenderedIsQueued, LeftIsSilent
<1> QED BY <1>2, <1>3, <1>4, <1>5, <1>6

-----------------------------------------------------------------------------
(* The theorems. *)

LEMMA ClientInit == Init => ClientInv
<1> SUFFICES ASSUME Init
             PROVE  ClientInv
  OBVIOUS
<1> USE MountFacts, RoomClientAssumption
<1>1. shown \in State /\ shown.localStream = 0 /\ shown.participantId = 0 /\ queued = shown
  BY DEF Init, State
<1>2. TypeOK
  BY <1>1 DEF Init, TypeOK, Chunk
<1>3. LastRunOnly /\ CameraIsHeld
  BY <1>1 DEF Init, LastRunOnly, CameraIsHeld, IsLast
<1>4. JoinedFirst /\ SocketIsHeld /\ RenderedIsQueued /\ LeftIsSilent
  BY <1>1 DEF Init, JoinedFirst, SocketIsHeld, RenderedIsQueued, LeftIsSilent
<1> QED BY <1>2, <1>3, <1>4 DEF ClientInv

\* A step keeps the invariant, and after Leave it sends nothing and shows nobody.
LEMMA ClientStep ==
  ClientInv /\ [Next]_vars
    => ClientInv' /\ (leave = "connected" /\ vars' # vars => sent' = sent /\ peers' = {})
<1> SUFFICES ASSUME ClientInv, [Next]_vars
             PROVE  /\ ClientInv'
                    /\ leave = "connected" /\ vars' # vars => sent' = sent /\ peers' = {}
  OBVIOUS
<1>1. CASE UNCHANGED vars
  <2>1. UNCHANGED <<page, media, join, socket, wsRef, shown, queued, recorder, stopped,
                    recorded, waiting, sent, peers, leave, leaves, slipped>>
    BY <1>1 DEF vars, connection, state, recording, left
  <2>2. TypeOK' /\ LastRunOnly' /\ CameraIsHeld'
    BY <2>1 DEF ClientInv, TypeOK, LastRunOnly, CameraIsHeld, IsLast
  <2>3. JoinedFirst' /\ SocketIsHeld' /\ RenderedIsQueued' /\ LeftIsSilent'
    BY <2>1 DEF ClientInv, JoinedFirst, SocketIsHeld, RenderedIsQueued, LeftIsSilent
  <2> QED BY <1>1, <2>2, <2>3 DEF ClientInv
<1>2. CASE Render
  BY <1>2, RenderKeeps DEF Render, ClientInv, LeftIsSilent
<1>3. CASE HandleLeave
  BY <1>3, HandleLeaveKeeps DEF HandleLeave
<1>4. CASE Unmount
  BY <1>4, UnmountKeeps DEF Unmount, ClientInv, LeftIsSilent
<1>5. ASSUME NEW m \in Mount,
             \/ CameraGiven(m) \/ CameraRefused(m) \/ Joined(m) \/ JoinFailed(m)
             \/ SocketChanges(m) \/ DataAvailable(m)
      PROVE  ClientInv' /\ sent' = sent /\ peers' = peers
  <2>1. ClientInv'
    BY <1>5, CameraGivenKeeps, CameraRefusedKeeps, JoinedKeeps, JoinFailedKeeps,
       SocketChangesKeeps, DataAvailableKeeps
  <2> QED BY <1>5, <2>1 DEF CameraGiven, CameraRefused, Joined, JoinFailed,
                            SocketChanges, DataAvailable
<1>6. ASSUME NEW m \in Mount, NEW sender \in Senders, Message(m, sender)
      PROVE  ClientInv' /\ leave # "connected"
  <2>1. leave # "connected"
    BY <1>6, MountFacts DEF Message, ClientInv, LastRunOnly, LeftIsSilent
  <2> QED BY <1>6, <2>1, MessageKeeps
<1>7. ASSUME NEW chunk \in waiting, SendMediaChunk(chunk)
      PROVE  ClientInv' /\ (leave = "connected" => sent' = sent) /\ peers' = peers
  BY <1>7, SendMediaChunkKeeps DEF SendMediaChunk
<1>8. leave = "connected" => peers = {}
  BY DEF ClientInv, LeftIsSilent
<1> QED BY <1>1, <1>2, <1>3, <1>4, <1>5, <1>6, <1>7, <1>8 DEF Next

\* ClientInv is an invariant of every visit.
THEOREM ClientInvHolds == Spec => []ClientInv
<1>1. ClientInv /\ [Next]_vars => ClientInv'
  BY ClientStep
<1> QED BY ClientInit, <1>1, PTL DEF Spec

\* Every variable keeps its type, and a recorder works only with a stream and a
\* participant rendered.
THEOREM ClientTypeCorrect == Spec => []TypeOK
<1>1. ClientInv => TypeOK
  BY DEF ClientInv
<1> QED BY ClientInvHolds, <1>1, PTL

\* No join answered late leaves a socket behind that the page cannot close, and
\* a frame names the participant whose socket carries it.
THEOREM SocketsAreClosed == Spec => []ConnectionIsOwn
<1>1. ClientInv => ConnectionIsOwn
  <2> SUFFICES ASSUME ClientInv
               PROVE  ConnectionIsOwn
    OBVIOUS
  <2>1. ASSUME NEW m \in Mount, socket[m] \in {"connecting", "open"}
        PROVE  page = "shown" /\ wsRef = m
    BY <2>1 DEF ClientInv, LastRunOnly, SocketIsHeld
  <2>2. \A frame \in sent : frame.id = frame.socket
    BY DEF ClientInv, LastRunOnly
  <2> QED BY <2>1, <2>2 DEF ConnectionIsOwn
<1> QED BY ClientInvHolds, <1>1, PTL

\* No camera is left on behind the page: one at work is held by the page, or
\* Leave or the end came between the answer and its rendering.
THEOREM CamerasAreStopped == Spec => []CameraIsHeld
<1>1. ClientInv => CameraIsHeld
  BY DEF ClientInv
<1> QED BY ClientInvHolds, <1>1, PTL

\* After Leave no frame goes out and no peer comes back, whatever was on its way.
THEOREM LeavingIsFinal == Spec => LeftStaysLeft
<1>1. ClientInv /\ [Next]_vars
        => [leave = "connected" => sent' = sent /\ peers' = {}]_vars
  BY ClientStep
<1> QED BY ClientInvHolds, <1>1, PTL DEF Spec, LeftStaysLeft
=============================================================================
