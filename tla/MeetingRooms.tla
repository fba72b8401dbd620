---------------------------- MODULE MeetingRooms ----------------------------
(***************************************************************************)
(* The rooms of the video conferencing server (main.go): participants who  *)
(* join and leave over HTTP, their WebSockets, and the goroutine of each   *)
(* room that follows the room's stream and fans its frames out.  All of it *)
(* under one room id: other ids share nothing but the server's lock.       *)
(*                                                                         *)
(* Locks: s.mu and the write side of room.mu are held for one step only.   *)
(* The follower keeps the read side of room.mu over a fan-out (fan) and    *)
(* p.mu over a write to a socket (connMu), which may have to wait for the  *)
(* client.                                                                 *)
(*                                                                         *)
(* Concrete is external: the room's stream exists from its first frame on, *)
(* a read of it before is refused, and one after gets every frame.         *)
(***************************************************************************)
EXTENDS Naturals, SequencesExt

CONSTANTS
  MaxParticipants,  \* bound: how many join
  MaxLeaves,        \* bound: the leave requests; a client may send several
  MaxFrames,        \* bound: the frames appended
  Vanishing,        \* the participants who may go without a word
  FollowBreaks      \* may a follow end with an error?

ASSUME MeetingRoomsAssumption ==
  /\ MaxParticipants \in Nat /\ MaxLeaves \in Nat /\ MaxFrames \in Nat
  /\ Vanishing \subseteq Nat /\ FollowBreaks \in BOOLEAN

VARIABLES
  frames,    \* Concrete: the senders of the frames in the room's stream
  current,   \* s.rooms[roomID], or 0
  rooms,     \* the Rooms made
  joins,     \* the join of each participant, and the room it is given
  sockets,   \* the /ws handler of each participant
  conn,      \* Participant.Conn: nil, open, or gone at the other end
  connMu,    \* Participant.mu: does a follower hold it, to write?
  leaves,    \* the leave requests
  received   \* history: the frames written to each participant

vars == <<frames, current, rooms, joins, sockets, conn, connMu, leaves, received>>

\* Participants and leaves are numbered as they ask to join and to leave.
Participants == 1 .. MaxParticipants
Leaves == 1 .. MaxLeaves

\* cursor counts the frames the follower took; fan are the participants the
\* last one still has to be offered to; due is history: those of them whose
\* socket was open when it was taken.
Room == [participants : SUBSET Participants, cancelled : BOOLEAN,
         follower : {"open", "recv", "fan", "ended"},
         cursor : Nat, fan : SUBSET Participants, due : SUBSET Participants]

Leave == [pc : {"new", "find_room", "close", "remove", "cancel", "delete", "done"},
          who : Participants \cup {0}, room : Nat]

\* Types, and locks are held where the code holds them.
TypeOK ==
  /\ frames \in Seq(Participants)
  /\ rooms \in Seq(Room)
  /\ current \in 0 .. Len(rooms)
  /\ joins \in [Participants -> [pc : {"new", "found", "done"}, room : 0 .. Len(rooms)]]
  /\ sockets \in [Participants -> {"new", "found", "reading", "ended"}]
  /\ conn \in [Participants -> {"nil", "open", "gone"}]
  /\ connMu \in [Participants -> BOOLEAN]
  /\ leaves \in [Leaves -> Leave]
  /\ received \in [Participants -> Seq(1 .. Len(frames))]
  /\ \A r \in DOMAIN rooms : rooms[r].fan # {} => rooms[r].follower = "fan"
  /\ \A p \in Participants : connMu[p] =>
       \E r \in DOMAIN rooms : p \in rooms[r].fan

Init ==
  /\ frames = << >> /\ current = 0 /\ rooms = << >>
  /\ joins = [p \in Participants |-> [pc |-> "new", room |-> 0]]
  /\ sockets = [p \in Participants |-> "new"]
  /\ conn = [p \in Participants |-> "nil"]
  /\ connMu = [p \in Participants |-> FALSE]
  /\ leaves = [l \in Leaves |-> [pc |-> "new", who |-> 0, room |-> 0]]
  /\ received = [p \in Participants |-> << >>]

Fanning(r) == rooms[r].follower = "fan"

-----------------------------------------------------------------------------
(* Joining: handleSignaling with JOIN, joinRoom. *)

NewRoom == [participants |-> {}, cancelled |-> FALSE, follower |-> "open",
            cursor |-> 0, fan |-> {}, due |-> {}]

\* Under s.mu: the room, made with its follower if there is none.
JoinFind(p) ==
  /\ joins[p].pc = "new" /\ \A q \in 1 .. p - 1 : joins[q].pc # "new"
  /\ IF current # 0
     THEN UNCHANGED <<rooms, current>>
     ELSE rooms' = Append(rooms, NewRoom) /\ current' = Len(rooms')
  /\ joins' = [joins EXCEPT ![p] = [pc |-> "found", room |-> current']]
  /\ UNCHANGED <<frames, sockets, conn, connMu, leaves, received>>

\* Under room.mu, then the response with the participant's id.
JoinAdd(p) ==
  /\ joins[p].pc = "found" /\ ~Fanning(joins[p].room)
  /\ rooms' = [rooms EXCEPT ![joins[p].room].participants = @ \cup {p}]
  /\ joins' = [joins EXCEPT ![p].pc = "done"]
  /\ UNCHANGED <<frames, current, sockets, conn, connMu, leaves, received>>

-----------------------------------------------------------------------------
(* The WebSocket: handleMediaStream, handleMediaFrame. *)

\* The room and, in it, the participant; or 404.  Two looks under two locks make
\* one step: who is not found at the second was not there, or left before it.
SocketFind(p) ==
  /\ joins[p].pc = "done" /\ sockets[p] = "new"
  /\ sockets' = [sockets EXCEPT ![p] =
       IF current # 0 /\ p \in rooms[current].participants THEN "found" ELSE "ended"]
  /\ UNCHANGED <<frames, current, rooms, joins, conn, connMu, leaves, received>>

\* Upgraded, and attached under p.mu.
SocketAttach(p) ==
  /\ sockets[p] = "found" /\ ~connMu[p]
  /\ conn' = [conn EXCEPT ![p] = "open"]
  /\ sockets' = [sockets EXCEPT ![p] = "reading"]
  /\ UNCHANGED <<frames, current, rooms, joins, connMu, leaves, received>>

\* A frame from the client is appended to the stream of its room.
Frame(p) ==
  /\ sockets[p] = "reading"
  /\ Len(frames) < MaxFrames
  /\ frames' = Append(frames, p)
  /\ UNCHANGED <<current, rooms, joins, sockets, conn, connMu, leaves, received>>

\* The client is gone; the participant and its Conn stay as they are.
Disconnect(p) ==
  /\ p \in Vanishing /\ conn[p] = "open"
  /\ conn' = [conn EXCEPT ![p] = "gone"]
  /\ UNCHANGED <<frames, current, rooms, joins, sockets, connMu, leaves, received>>

\* The read loop ends when either side has closed the socket; or the upgrade
\* fails, as the client is gone.
SocketEnd(p) ==
  /\ \/ sockets[p] = "reading" /\ conn[p] # "open"
     \/ sockets[p] = "found" /\ p \in Vanishing
  /\ sockets' = [sockets EXCEPT ![p] = "ended"]
  /\ UNCHANGED <<frames, current, rooms, joins, conn, connMu, leaves, received>>

-----------------------------------------------------------------------------
(* Leaving: handleSignaling with LEAVE, leaveRoom. *)

LeaveGoes(l, pc) == leaves' = [leaves EXCEPT ![l].pc = pc]

\* A client that has its id asks to leave: the room, and the participant in it.
LeaveLookup(l) ==
  /\ leaves[l].pc = "new" /\ \A k \in 1 .. l - 1 : leaves[k].pc # "new"
  /\ \E p \in Participants :
       /\ joins[p].pc = "done"
       /\ leaves' = [leaves EXCEPT ![l].who = p, ![l].pc =
            IF current # 0 /\ p \in rooms[current].participants
            THEN "find_room" ELSE "done"]
  /\ UNCHANGED <<frames, current, rooms, joins, sockets, conn, connMu, received>>

\* leaveRoom looks the room up again.
LeaveFind(l) ==
  /\ leaves[l].pc = "find_room"
  /\ leaves' = [leaves EXCEPT ![l].room = current,
                              ![l].pc = IF current = 0 THEN "done" ELSE "close"]
  /\ UNCHANGED <<frames, current, rooms, joins, sockets, conn, connMu, received>>

\* Under p.mu the socket is closed.
LeaveClose(l) ==
  LET p == leaves[l].who
  IN /\ leaves[l].pc = "close" /\ ~connMu[p]
     /\ conn' = [conn EXCEPT ![p] = "nil"]
     /\ LeaveGoes(l, "remove")
     /\ UNCHANGED <<frames, current, rooms, joins, sockets, connMu, received>>

\* Under room.mu the participant is removed.
LeaveRemove(l) ==
  LET r == leaves[l].room
      remaining == rooms[r].participants \ {leaves[l].who}
  IN /\ leaves[l].pc = "remove" /\ ~Fanning(r)
     /\ rooms' = [rooms EXCEPT ![r].participants = remaining]
     /\ LeaveGoes(l, IF remaining = {} THEN "cancel" ELSE "done")
     /\ UNCHANGED <<frames, current, joins, sockets, conn, connMu, received>>

\* Mutant: the follower is not cancelled.
LeaveCancel_Forgotten(l) ==
  /\ leaves[l].pc = "cancel"
  /\ LeaveGoes(l, "delete")
  /\ UNCHANGED <<frames, current, rooms, joins, sockets, conn, connMu, received>>

\* The room was left empty: its follower is cancelled,
LeaveCancel(l) ==
  /\ leaves[l].pc = "cancel"
  /\ rooms' = [rooms EXCEPT ![leaves[l].room].cancelled = TRUE]
  /\ LeaveGoes(l, "delete")
  /\ UNCHANGED <<frames, current, joins, sockets, conn, connMu, received>>

\* and, under s.mu, whatever room has the id by now is deleted.
LeaveDelete(l) ==
  /\ leaves[l].pc = "delete"
  /\ current' = 0
  /\ LeaveGoes(l, "done")
  /\ UNCHANGED <<frames, rooms, joins, sockets, conn, connMu, received>>

-----------------------------------------------------------------------------
(* followRoom. *)

FollowerGoes(r, state) == rooms' = [rooms EXCEPT ![r].follower = state]

\* The read is opened, from number 0; without a stream it is refused.
FollowOpen(r) ==
  /\ rooms[r].follower = "open"
  /\ FollowerGoes(r, IF rooms[r].cancelled \/ frames = << >> THEN "ended" ELSE "recv")
  /\ UNCHANGED <<frames, current, joins, sockets, conn, connMu, leaves, received>>

\* Mutant: the last frame is taken again.
NextFrame_Again(r) == IF rooms[r].cursor = 0 THEN 1 ELSE rooms[r].cursor

NextFrame(r) == rooms[r].cursor + 1

Others(r) == rooms[r].participants \ {frames[NextFrame(r)]}

\* The next frame; under room.mu it is for all participants but its sender.
FollowRecv(r) ==
  /\ rooms[r].follower = "recv"
  /\ rooms[r].cursor < Len(frames)
  /\ rooms' = [rooms EXCEPT
                 ![r].cursor = NextFrame(r), ![r].follower = "fan",
                 ![r].fan = Others(r), ![r].due = {p \in Others(r) : conn[p] = "open"}]
  /\ UNCHANGED <<frames, current, joins, sockets, conn, connMu, leaves, received>>

\* The follow is cancelled.
FollowCancelled(r) ==
  /\ rooms[r].follower = "recv" /\ rooms[r].cancelled
  /\ FollowerGoes(r, "ended")
  /\ UNCHANGED <<frames, current, joins, sockets, conn, connMu, leaves, received>>

\* Concrete ends it, or cannot be reached; nothing follows the room again.
FollowBroken(r) ==
  /\ FollowBreaks /\ rooms[r].follower \in {"open", "recv"}
  /\ FollowerGoes(r, "ended")
  /\ UNCHANGED <<frames, current, joins, sockets, conn, connMu, leaves, received>>

\* Mutant: a failed write ends the fan-out of the frame.
HadTurn_OrAll(r, p) ==
  rooms' = [rooms EXCEPT ![r].fan = IF conn[p] = "gone" THEN {} ELSE @ \ {p}]

HadTurn(r, p) == rooms' = [rooms EXCEPT ![r].fan = @ \ {p}]

\* Mutant: p.mu is not released.
UnlockConn_Forgotten(p) == UNCHANGED connMu

UnlockConn(p) == connMu' = [connMu EXCEPT ![p] = FALSE]

\* One participant's turn: p.mu is taken, and kept if there is a Conn to write to.
FanLock(r, p) ==
  /\ p \in rooms[r].fan /\ ~connMu[p]
  /\ \A q \in rooms[r].fan : ~connMu[q]
  /\ IF conn[p] = "nil"
     THEN HadTurn(r, p) /\ UNCHANGED connMu
     ELSE connMu' = [connMu EXCEPT ![p] = TRUE] /\ UNCHANGED rooms
  /\ UNCHANGED <<frames, current, joins, sockets, conn, leaves, received>>

\* WriteMessage returns: written, or an error that is only logged.
FanWrite(r, p) ==
  /\ p \in rooms[r].fan /\ connMu[p]
  /\ received' = [received EXCEPT ![p] =
       IF conn[p] = "open" THEN Append(@, rooms[r].cursor) ELSE @]
  /\ HadTurn(r, p) /\ UnlockConn(p)
  /\ UNCHANGED <<frames, current, joins, sockets, conn, leaves>>

\* All had their turn: room.mu is released.
FanDone(r) ==
  /\ Fanning(r) /\ rooms[r].fan = {}
  /\ rooms' = [rooms EXCEPT ![r].follower = "recv", ![r].due = {}]
  /\ UNCHANGED <<frames, current, joins, sockets, conn, connMu, leaves, received>>

-----------------------------------------------------------------------------
JoinStep(p) == JoinFind(p) \/ JoinAdd(p)
SocketStep(p) == SocketFind(p) \/ SocketAttach(p) \/ SocketEnd(p)
LeaveStep(l) ==
  \/ LeaveFind(l) \/ LeaveClose(l) \/ LeaveRemove(l)
  \/ LeaveCancel(l) \/ LeaveDelete(l)
FollowStep(r) ==
  \/ FollowOpen(r) \/ FollowRecv(r) \/ FollowCancelled(r) \/ FanDone(r)
  \/ \E p \in Participants : FanLock(r, p) \/ FanWrite(r, p)

\* Nobody is left to join, leave or send, and the followers wait.
Quiet ==
  /\ \A p \in Participants : joins[p].pc # "found" /\ sockets[p] # "found"
  /\ \A l \in Leaves : leaves[l].pc \in {"new", "done"}
  /\ \A r \in DOMAIN rooms : ~Fanning(r) /\ rooms[r].follower # "open"
  /\ UNCHANGED vars

Next ==
  \/ \E p \in Participants : JoinStep(p) \/ SocketStep(p) \/ Frame(p) \/ Disconnect(p)
  \/ \E l \in Leaves : LeaveLookup(l) \/ LeaveStep(l)
  \/ \E r \in DOMAIN rooms : FollowStep(r) \/ FollowBroken(r)
  \/ Quiet

Spec == Init /\ [][Next]_vars

\* Handlers and followers run on, and a write to a socket returns: the client
\* reads or the connection breaks.  Nobody must join, send or leave.
LiveSpec ==
  /\ Spec
  /\ \A p \in Participants : WF_vars(JoinAdd(p)) /\ WF_vars(SocketAttach(p) \/ SocketEnd(p))
  /\ \A l \in Leaves : WF_vars(LeaveStep(l))
  /\ \A r \in Participants :
       WF_vars(r \in DOMAIN rooms /\ FollowStep(r))

-----------------------------------------------------------------------------
(* Properties. *)

\* Frames are written to a participant in the order of the stream, each at most
\* once, and none of its own.
FanOutInOrder ==
  \A p \in Participants :
    /\ \A i, j \in DOMAIN received[p] : i < j => received[p][i] < received[p][j]
    /\ \A i \in DOMAIN received[p] : frames[received[p][i]] # p

\* A frame that a follower has offered to all was written to each participant
\* whose socket was open when it was taken and still is, though writes to others
\* failed, and others connected, left or vanished meanwhile.
FramesReachReaders ==
  \A r \in DOMAIN rooms : Fanning(r) /\ rooms[r].fan = {} =>
    \A p \in rooms[r].due :
      conn[p] = "open" => rooms[r].cursor \in ToSet(received[p])

\* Joins and leaves end: no order in which handlers and followers take the locks
\* of the server, the room and the participants has them wait for each other.
HandlersEnd ==
  <>[](/\ \A p \in Participants : joins[p].pc # "found" /\ sockets[p] # "found"
       /\ \A l \in Leaves : leaves[l].pc \in {"new", "done"})

\* A follower takes every frame there is, whoever else holds the locks, unless
\* its room is torn down or its read ended.
FollowersKeepUp ==
  <>[](\A r \in DOMAIN rooms : rooms[r].follower # "ended" =>
         rooms[r].follower = "recv" /\ rooms[r].cursor = Len(frames))

\* A room that is out of s.rooms and has nobody in it does not keep its follower.
FollowersStop ==
  <>[](\A r \in DOMAIN rooms :
         r # current /\ rooms[r].participants = {} => rooms[r].follower = "ended")

\* "leaveRoom removes a participant and tears down the room when empty": a room
\* that is cancelled or out of s.rooms has nobody in it.
TornDownRoomsAreEmpty ==
  \A r \in DOMAIN rooms :
    rooms[r].cancelled \/ r # current => rooms[r].participants = {}

\* "Server appends frames to a Concrete stream and tails the stream to fan out
\* video to other participants": a frame appended while others are connected
\* reaches them, or they leave.
FramesFanOut ==
  \A n \in 1 .. MaxFrames, p \in Participants :
    (n \in DOMAIN frames /\ frames[n] # p /\ conn[p] = "open")
      ~> (n \in ToSet(received[p]) \/ conn[p] # "open")
=============================================================================
