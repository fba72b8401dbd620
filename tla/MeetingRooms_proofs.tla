------------------------- MODULE MeetingRooms_proofs -------------------------
(***************************************************************************)
(* Proofs about MeetingRooms, for any number of participants, leaves and   *)
(* frames, whoever may vanish and whether or not follows break.            *)
(*                                                                         *)
(* The argument: several rooms may follow the one stream, each from number *)
(* 0, but a participant is only ever in the room its join found            *)
(* (MembersJoined); so one follower writes to it, and has written nothing  *)
(* beyond its own cursor (ReceivedSoFar).  A socket that is open when a    *)
(* frame is taken is not attached again (DueAreServed): if it is open at   *)
(* the end of the fan-out it was open when its turn came.                  *)
(***************************************************************************)
EXTENDS MeetingRooms, SequenceTheorems, TLAPS

-----------------------------------------------------------------------------
(* The inductive invariant. *)

\* TypeOK in two parts.
Typed ==
  /\ frames \in Seq(Participants)
  /\ rooms \in Seq(Room)
  /\ current \in 0 .. Len(rooms)
  /\ joins \in [Participants -> [pc : {"new", "found", "done"}, room : 0 .. Len(rooms)]]
  /\ sockets \in [Participants -> {"new", "found", "reading", "ended"}]
  /\ conn \in [Participants -> {"nil", "open", "gone"}]
  /\ connMu \in [Participants -> BOOLEAN]
  /\ leaves \in [Leaves -> Leave]
  /\ received \in [Participants -> Seq(1 .. Len(frames))]

LocksHeld ==
  /\ \A r \in DOMAIN rooms : rooms[r].fan # {} => rooms[r].follower = "fan"
  /\ \A p \in Participants : connMu[p] => \E r \in DOMAIN rooms : p \in rooms[r].fan

JoinsHaveRooms ==
  \A p \in Participants : joins[p].pc # "new" => joins[p].room \in DOMAIN rooms

LeavesHaveRooms ==
  \A l \in Leaves : leaves[l].pc \in {"find_room", "close", "remove", "cancel"} =>
    /\ leaves[l].who \in Participants
    /\ leaves[l].pc # "find_room" => leaves[l].room \in DOMAIN rooms

\* Whoever is in a room, or still to be offered its frame, joined that room.
MembersJoined ==
  \A r \in DOMAIN rooms : \A p \in rooms[r].participants \cup rooms[r].fan :
    joins[p].pc = "done" /\ joins[p].room = r

\* A follower takes frames that are there, and offers them to the others.
CursorsInStream ==
  \A r \in DOMAIN rooms :
    /\ rooms[r].cursor <= Len(frames)
    /\ \A p \in rooms[r].fan :
         rooms[r].cursor \in DOMAIN frames /\ frames[rooms[r].cursor] # p

\* Nobody has a frame that the follower of its room has not taken, nor one that
\* it is still to be offered.
ReceivedSoFar ==
  \A p \in Participants : \A i \in DOMAIN received[p] :
    /\ joins[p].pc # "new"
    /\ received[p][i] <= rooms[joins[p].room].cursor
    /\ p \in rooms[joins[p].room].fan => received[p][i] < rooms[joins[p].room].cursor

ConnHasSocket ==
  \A p \in Participants : conn[p] # "nil" => sockets[p] \in {"reading", "ended"}

\* Who was there when a frame was taken waits for it, has it, or is gone.
DueAreServed ==
  \A r \in DOMAIN rooms : \A p \in rooms[r].due :
    /\ sockets[p] \in {"reading", "ended"}
    /\ conn[p] = "open" => p \in rooms[r].fan \/ rooms[r].cursor \in ToSet(received[p])

RoomsInv ==
  /\ Typed /\ LocksHeld /\ JoinsHaveRooms /\ LeavesHaveRooms
  /\ MembersJoined /\ CursorsInStream /\ ReceivedSoFar /\ FanOutInOrder
  /\ ConnHasSocket /\ DueAreServed

LEMMA TypeParts == TypeOK <=> Typed /\ LocksHeld
BY DEF TypeOK, Typed, LocksHeld

-----------------------------------------------------------------------------
(* Facts about the sequences and records. *)

LEMMA TypedFacts ==
  ASSUME Typed
  PROVE  /\ DOMAIN rooms = 1 .. Len(rooms) /\ Len(rooms) \in Nat
         /\ DOMAIN frames = 1 .. Len(frames) /\ Len(frames) \in Nat
         /\ \A r \in DOMAIN rooms : rooms[r] \in Room /\ rooms[r].cursor \in Nat
         /\ \A p \in Participants :
              /\ DOMAIN received[p] = 1 .. Len(received[p]) /\ Len(received[p]) \in Nat
              /\ \A i \in DOMAIN received[p] : received[p][i] \in DOMAIN frames
<1>1. /\ DOMAIN rooms = 1 .. Len(rooms) /\ Len(rooms) \in Nat
      /\ \A r \in DOMAIN rooms : rooms[r] \in Room
  BY LenProperties, ElementOfSeq DEF Typed
<1>2. DOMAIN frames = 1 .. Len(frames) /\ Len(frames) \in Nat
  BY LenProperties DEF Typed
<1>3. \A r \in DOMAIN rooms : rooms[r].cursor \in Nat
  BY <1>1 DEF Room
<1>4. ASSUME NEW p \in Participants
      PROVE  /\ DOMAIN received[p] = 1 .. Len(received[p]) /\ Len(received[p]) \in Nat
             /\ \A i \in DOMAIN received[p] : received[p][i] \in DOMAIN frames
  <2>1. received[p] \in Seq(1 .. Len(frames))
    BY DEF Typed
  <2> QED BY <1>2, <2>1, LenProperties, ElementOfSeq
<1> QED BY <1>1, <1>2, <1>3, <1>4

LEMMA OneMore ==
  \A m \in Nat : /\ m + 1 \in Nat /\ 1 .. m + 1 = (1 .. m) \cup {m + 1}
                 /\ \A i \in 1 .. m : i < m + 1 /\ i # m + 1
OBVIOUS

\* One room changes.
RoomSet(r, rec) ==
  /\ rooms' \in Seq(Room) /\ Len(rooms') = Len(rooms) /\ DOMAIN rooms' = DOMAIN rooms
  /\ rooms'[r] = rec
  /\ \A k \in DOMAIN rooms : k # r => rooms'[k] = rooms[k]

LEMMA RoomChanges ==
  ASSUME Typed, NEW r \in DOMAIN rooms, NEW rec \in Room,
         rooms' = [rooms EXCEPT ![r] = rec]
  PROVE  RoomSet(r, rec)
<1>1. DOMAIN rooms = 1 .. Len(rooms) /\ rooms \in Seq(Room)
  BY TypedFacts DEF Typed
<1>2. /\ rooms' \in Seq(Room) /\ Len(rooms') = Len(rooms)
      /\ \A k \in 1 .. Len(rooms) : rooms'[k] = IF k = r THEN rec ELSE rooms[k]
  BY <1>1, ExceptSeq
<1>3. DOMAIN rooms' = 1 .. Len(rooms')
  BY <1>2, LenProperties
<1> QED BY <1>1, <1>2, <1>3 DEF RoomSet

\* Room r keeps the fields that fan-outs depend on.
FanKept(r) ==
  /\ rooms'[r].cursor = rooms[r].cursor /\ rooms'[r].fan = rooms[r].fan
  /\ rooms'[r].due = rooms[r].due

LEMMA ParticipantsSet ==
  ASSUME Typed, NEW r \in DOMAIN rooms, NEW P \in SUBSET Participants,
         rooms' = [rooms EXCEPT ![r].participants = P]
  PROVE  /\ \E rec \in Room : RoomSet(r, rec)
         /\ FanKept(r) /\ rooms'[r].participants = P
         /\ rooms'[r].follower = rooms[r].follower
<1> DEFINE rec == [rooms[r] EXCEPT !.participants = P]
<1>1. rooms[r] \in Room
  BY TypedFacts
<1>2. /\ rec \in Room /\ rec.participants = P /\ rec.cursor = rooms[r].cursor
      /\ rec.fan = rooms[r].fan /\ rec.due = rooms[r].due /\ rec.follower = rooms[r].follower
  BY <1>1 DEF Room
<1>3. rooms' = [rooms EXCEPT ![r] = rec]
  OBVIOUS
<1> HIDE DEF rec
<1>4. RoomSet(r, rec)
  BY <1>2, <1>3, RoomChanges
<1>5. rooms'[r] = rec
  BY <1>4 DEF RoomSet
<1>6. \E new \in Room : RoomSet(r, new)
  BY <1>2, <1>4
<1> QED BY <1>2, <1>5, <1>6 DEF FanKept

LEMMA CancelledSet ==
  ASSUME Typed, NEW r \in DOMAIN rooms, rooms' = [rooms EXCEPT ![r].cancelled = TRUE]
  PROVE  /\ \E rec \in Room : RoomSet(r, rec)
         /\ FanKept(r) /\ rooms'[r].participants = rooms[r].participants
         /\ rooms'[r].follower = rooms[r].follower
<1> DEFINE rec == [rooms[r] EXCEPT !.cancelled = TRUE]
<1>1. rooms[r] \in Room
  BY TypedFacts
<1>2. rec \in Room
  BY <1>1 DEF Room
<1>3. /\ rec.participants = rooms[r].participants /\ rec.cursor = rooms[r].cursor
      /\ rec.fan = rooms[r].fan /\ rec.due = rooms[r].due /\ rec.follower = rooms[r].follower
  BY <1>1, Zenon DEF Room
<1>4. rooms' = [rooms EXCEPT ![r] = rec]
  OBVIOUS
<1> HIDE DEF rec
<1>5. RoomSet(r, rec)
  BY <1>2, <1>4, RoomChanges
<1>6. rooms'[r] = rec
  BY <1>5 DEF RoomSet
<1>7. \E new \in Room : RoomSet(r, new)
  BY <1>2, <1>5
<1> QED BY <1>3, <1>6, <1>7 DEF FanKept

LEMMA FollowerSet ==
  ASSUME Typed, NEW r \in DOMAIN rooms, NEW s \in {"open", "recv", "fan", "ended"},
         FollowerGoes(r, s)
  PROVE  /\ \E rec \in Room : RoomSet(r, rec)
         /\ FanKept(r) /\ rooms'[r].participants = rooms[r].participants
         /\ rooms'[r].follower = s
<1> DEFINE rec == [rooms[r] EXCEPT !.follower = s]
<1>1. rooms[r] \in Room
  BY TypedFacts
<1>2. /\ rec \in Room /\ rec.participants = rooms[r].participants
      /\ rec.cursor = rooms[r].cursor /\ rec.fan = rooms[r].fan /\ rec.due = rooms[r].due
      /\ rec.follower = s
  BY <1>1 DEF Room
<1>3. rooms' = [rooms EXCEPT ![r] = rec]
  BY DEF FollowerGoes
<1> HIDE DEF rec
<1>4. RoomSet(r, rec)
  BY <1>2, <1>3, RoomChanges
<1>5. rooms'[r] = rec
  BY <1>4 DEF RoomSet
<1>6. \E new \in Room : RoomSet(r, new)
  BY <1>2, <1>4
<1> QED BY <1>2, <1>5, <1>6 DEF FanKept

LEMMA TurnTaken ==
  ASSUME Typed, NEW r \in DOMAIN rooms, NEW p, HadTurn(r, p)
  PROVE  /\ \E rec \in Room : RoomSet(r, rec)
         /\ rooms'[r].participants = rooms[r].participants
         /\ rooms'[r].fan = rooms[r].fan \ {p} /\ rooms'[r].due = rooms[r].due
         /\ rooms'[r].cursor = rooms[r].cursor /\ rooms'[r].follower = rooms[r].follower
<1> DEFINE rec == [rooms[r] EXCEPT !.fan = @ \ {p}]
<1>1. rooms[r] \in Room
  BY TypedFacts
<1>2. /\ rec \in Room /\ rec.participants = rooms[r].participants
      /\ rec.cursor = rooms[r].cursor /\ rec.fan = rooms[r].fan \ {p}
      /\ rec.due = rooms[r].due /\ rec.follower = rooms[r].follower
  BY <1>1 DEF Room
<1>3. rooms' = [rooms EXCEPT ![r] = rec]
  BY DEF HadTurn
<1> HIDE DEF rec
<1>4. RoomSet(r, rec)
  BY <1>2, <1>3, RoomChanges
<1>5. rooms'[r] = rec
  BY <1>4 DEF RoomSet
<1>6. \E new \in Room : RoomSet(r, new)
  BY <1>2, <1>4
<1> QED BY <1>2, <1>5, <1>6

LEMMA LeaveSet ==
  ASSUME Typed, NEW l \in Leaves,
         NEW pc \in {"new", "find_room", "close", "remove", "cancel", "delete", "done"},
         LeaveGoes(l, pc)
  PROVE  /\ leaves' \in [Leaves -> Leave]
         /\ leaves'[l].pc = pc /\ leaves'[l].who = leaves[l].who
         /\ leaves'[l].room = leaves[l].room
         /\ \A k \in Leaves : k # l => leaves'[k] = leaves[k]
<1>1. leaves[l] \in Leave /\ leaves \in [Leaves -> Leave]
  BY DEF Typed
<1>2. leaves' = [leaves EXCEPT ![l].pc = pc]
  BY DEF LeaveGoes
<1> QED BY <1>1, <1>2 DEF Leave

-----------------------------------------------------------------------------
(* Steps that leave the fan-outs alone. *)

\* No follower moves; a room may be made.
FansKept ==
  /\ DOMAIN rooms \subseteq DOMAIN rooms'
  /\ \A r \in DOMAIN rooms : FanKept(r)
  /\ \A r \in DOMAIN rooms' \ DOMAIN rooms : rooms'[r] = NewRoom

FollowersKept == \A r \in DOMAIN rooms : rooms'[r].follower = rooms[r].follower

\* A frame may be appended.
FramesKept ==
  /\ Len(frames) <= Len(frames')
  /\ DOMAIN frames \subseteq DOMAIN frames'
  /\ \A n \in DOMAIN frames : frames'[n] = frames[n]

\* Who has a room keeps it.
JoinsKept ==
  \A p \in Participants : joins[p].pc # "new" =>
    joins'[p].pc # "new" /\ joins'[p].room = joins[p].room

LEMMA FansStay ==
  ASSUME RoomsInv, Typed', FansKept, FramesKept, JoinsKept, received' = received
  PROVE  CursorsInStream' /\ ReceivedSoFar' /\ FanOutInOrder'
<1> USE DEF RoomsInv
<1>1. /\ \A r \in DOMAIN rooms :
           /\ rooms'[r].cursor = rooms[r].cursor /\ rooms'[r].fan = rooms[r].fan
           /\ rooms[r].cursor \in Nat
      /\ \A r \in DOMAIN rooms' \ DOMAIN rooms : rooms'[r].cursor = 0 /\ rooms'[r].fan = {}
      /\ Len(frames) \in Nat /\ Len(frames') \in Nat
  <2>1. Len(frames') \in Nat
    BY LenProperties DEF Typed
  <2> QED BY <2>1, TypedFacts DEF FansKept, FanKept, NewRoom
<1>2. CursorsInStream'
  <2>1. ASSUME NEW r \in DOMAIN rooms
        PROVE  /\ rooms'[r].cursor <= Len(frames')
               /\ \A p \in rooms'[r].fan :
                    /\ rooms'[r].cursor \in DOMAIN frames'
                    /\ frames'[rooms'[r].cursor] # p
    BY <1>1, <2>1 DEF CursorsInStream, FramesKept
  <2> QED BY <1>1, <2>1 DEF CursorsInStream
<1>3. ReceivedSoFar'
  <2> SUFFICES ASSUME NEW p \in Participants, NEW i \in DOMAIN received[p]
               PROVE  LET r == joins'[p].room
                      IN /\ joins'[p].pc # "new"
                         /\ received[p][i] <= rooms'[r].cursor
                         /\ p \in rooms'[r].fan => received[p][i] < rooms'[r].cursor
    BY DEF ReceivedSoFar
  <2>1. /\ joins[p].pc # "new" /\ joins[p].room \in DOMAIN rooms
        /\ received[p][i] <= rooms[joins[p].room].cursor
        /\ p \in rooms[joins[p].room].fan => received[p][i] < rooms[joins[p].room].cursor
    BY DEF ReceivedSoFar, JoinsHaveRooms
  <2> QED BY <1>1, <2>1 DEF JoinsKept
<1>4. FanOutInOrder'
  <2>1. \A p \in Participants : \A i \in DOMAIN received[p] : received[p][i] \in DOMAIN frames
    BY TypedFacts
  <2> QED BY <2>1 DEF FanOutInOrder, FramesKept
<1> QED BY <1>2, <1>3, <1>4

\* The same where rooms, joins and frames do not change at all.
LEMMA AllStays ==
  ASSUME RoomsInv, UNCHANGED <<frames, rooms, joins, received>>
  PROVE  /\ JoinsHaveRooms' /\ MembersJoined' /\ CursorsInStream' /\ ReceivedSoFar'
         /\ FanOutInOrder'
BY DEF RoomsInv, JoinsHaveRooms, MembersJoined, CursorsInStream, ReceivedSoFar, FanOutInOrder

LEMMA LocksStay ==
  ASSUME LocksHeld, FansKept, FollowersKept, connMu' = connMu
  PROVE  LocksHeld'
BY DEF LocksHeld, FansKept, FollowersKept, FanKept, NewRoom

LEMMA DueStay ==
  ASSUME DueAreServed, FansKept, UNCHANGED <<conn, sockets, received>>
  PROVE  DueAreServed'
<1>1. \A r \in DOMAIN rooms' \ DOMAIN rooms : rooms'[r].due = {}
  BY DEF FansKept, NewRoom
<1>2. ASSUME NEW r \in DOMAIN rooms
      PROVE  /\ rooms'[r].due = rooms[r].due /\ rooms'[r].fan = rooms[r].fan
             /\ rooms'[r].cursor = rooms[r].cursor
  BY DEF FansKept, FanKept
<1> QED BY <1>1, <1>2 DEF DueAreServed

LEMMA LeavesStay ==
  ASSUME LeavesHaveRooms, leaves' = leaves, DOMAIN rooms \subseteq DOMAIN rooms'
  PROVE  LeavesHaveRooms'
BY DEF LeavesHaveRooms

\* One room changes, and not its fan-out.
LEMMA OneKept ==
  ASSUME Typed, NEW r \in DOMAIN rooms, NEW rec, RoomSet(r, rec), FanKept(r),
         rooms'[r].follower = rooms[r].follower
  PROVE  FansKept /\ FollowersKept
BY DEF RoomSet, FansKept, FollowersKept, FanKept

LEMMA TypedRooms ==
  ASSUME Typed, NEW r, NEW rec, RoomSet(r, rec),
         UNCHANGED <<frames, current, sockets, conn, received>>,
         joins' \in [Participants -> [pc : {"new", "found", "done"}, room : 0 .. Len(rooms)]],
         connMu' \in [Participants -> BOOLEAN], leaves' \in [Leaves -> Leave]
  PROVE  Typed'
BY DEF Typed, RoomSet

-----------------------------------------------------------------------------
(* Joining. *)

LEMMA JoinFindKeeps ==
  ASSUME RoomsInv, NEW p \in Participants, JoinFind(p)
  PROVE  RoomsInv'
<1> USE DEF RoomsInv
<1>1. /\ joins[p].pc = "new"
      /\ joins' = [joins EXCEPT ![p] = [pc |-> "found", room |-> current']]
      /\ UNCHANGED <<frames, sockets, conn, connMu, leaves, received>>
  BY DEF JoinFind
<1>2. /\ DOMAIN rooms = 1 .. Len(rooms) /\ Len(rooms) \in Nat /\ rooms \in Seq(Room)
      /\ current \in 0 .. Len(rooms)
  BY TypedFacts DEF Typed
<1>3. /\ rooms' \in Seq(Room) /\ Len(rooms') \in Nat /\ Len(rooms) <= Len(rooms')
      /\ DOMAIN rooms' = 1 .. Len(rooms')
      /\ current' \in DOMAIN rooms' /\ DOMAIN rooms \subseteq DOMAIN rooms'
      /\ \A r \in DOMAIN rooms : rooms'[r] = rooms[r]
      /\ \A r \in DOMAIN rooms' \ DOMAIN rooms : rooms'[r] = NewRoom
  <2>1. CASE current # 0
    BY <1>2, <2>1 DEF JoinFind
  <2>2. CASE current = 0
    <3>1. rooms' = Append(rooms, NewRoom) /\ current' = Len(rooms')
      BY <2>2 DEF JoinFind
    <3>2. NewRoom \in Room
      BY DEF NewRoom, Room
    <3>3. /\ rooms' \in Seq(Room) /\ Len(rooms') = Len(rooms) + 1
          /\ \A r \in 1 .. Len(rooms) : rooms'[r] = rooms[r]
          /\ rooms'[Len(rooms) + 1] = NewRoom
      BY <1>2, <3>1, <3>2, AppendProperties
    <3>4. DOMAIN rooms' = 1 .. Len(rooms')
      BY <3>3, LenProperties
    <3> QED BY <1>2, <3>1, <3>3, <3>4
  <2> QED BY <2>1, <2>2
<1>4. FansKept /\ FollowersKept
  BY <1>3 DEF FansKept, FollowersKept, FanKept
<1>5. /\ joins' \in [Participants -> [pc : {"new", "found", "done"}, room : 0 .. Len(rooms')]]
      /\ joins'[p].pc = "found" /\ joins'[p].room = current'
      /\ \A q \in Participants : q # p => joins'[q] = joins[q]
  <2>1. joins \in [Participants -> [pc : {"new", "found", "done"}, room : 0 .. Len(rooms')]]
    BY <1>2, <1>3 DEF Typed
  <2>2. [pc |-> "found", room |-> current']
          \in [pc : {"new", "found", "done"}, room : 0 .. Len(rooms')]
    BY <1>3
  <2> QED BY <1>1, <2>1, <2>2
<1>6. Typed'
  BY <1>1, <1>3, <1>5 DEF Typed
<1>7. JoinsHaveRooms'
  BY <1>3, <1>5 DEF JoinsHaveRooms
<1>8. MembersJoined'
  <2>1. \A r \in DOMAIN rooms : p \notin rooms[r].participants \cup rooms[r].fan
    BY <1>1 DEF MembersJoined
  <2>2. \A r \in DOMAIN rooms, q \in Participants : q \in rooms[r].participants \cup rooms[r].fan
          => joins'[q].pc = "done" /\ joins'[q].room = r
    BY <1>5, <2>1 DEF MembersJoined
  <2>3. \A r \in DOMAIN rooms : rooms[r].participants \cup rooms[r].fan \subseteq Participants
    BY TypedFacts DEF Room
  <2> QED BY <1>3, <2>2, <2>3 DEF MembersJoined, NewRoom
<1>9. CursorsInStream' /\ ReceivedSoFar' /\ FanOutInOrder'
  <2>1. FramesKept
    BY <1>1, TypedFacts DEF FramesKept
  <2>2. JoinsKept
    BY <1>1, <1>5 DEF JoinsKept
  <2> QED BY <1>1, <1>4, <1>6, <2>1, <2>2, FansStay
<1>10. LocksHeld' /\ DueAreServed' /\ LeavesHaveRooms' /\ ConnHasSocket'
  BY <1>1, <1>3, <1>4, LocksStay, DueStay, LeavesStay DEF ConnHasSocket
<1> QED BY <1>6, <1>7, <1>8, <1>9, <1>10

LEMMA JoinAddKeeps ==
  ASSUME RoomsInv, NEW p \in Participants, JoinAdd(p)
  PROVE  RoomsInv'
<1> USE DEF RoomsInv
<1> DEFINE r == joins[p].room
<1>1. /\ joins[p].pc = "found" /\ r \in DOMAIN rooms
      /\ rooms' = [rooms EXCEPT ![r].participants = rooms[r].participants \cup {p}]
      /\ joins' = [joins EXCEPT ![p].pc = "done"]
      /\ UNCHANGED <<frames, current, sockets, conn, connMu, leaves, received>>
  BY DEF JoinAdd, JoinsHaveRooms
<1>2. rooms[r].participants \cup {p} \in SUBSET Participants
  BY <1>1, TypedFacts DEF Room
<1>3. /\ joins' \in [Participants -> [pc : {"new", "found", "done"}, room : 0 .. Len(rooms)]]
      /\ joins'[p].pc = "done" /\ joins'[p].room = r
      /\ \A q \in Participants : q # p => joins'[q] = joins[q]
  BY <1>1 DEF Typed
<1> HIDE DEF r
<1>4. PICK rec \in Room : RoomSet(r, rec)
  BY <1>1, <1>2, ParticipantsSet
<1>5. /\ rooms'[r].participants = rooms[r].participants \cup {p}
      /\ FansKept /\ FollowersKept
      /\ rooms'[r].fan = rooms[r].fan
  BY <1>1, <1>2, <1>4, ParticipantsSet, OneKept DEF FanKept
<1>6. Typed'
  BY <1>1, <1>3, <1>4, TypedRooms DEF Typed
<1>7. JoinsHaveRooms'
  BY <1>1, <1>3, <1>4 DEF JoinsHaveRooms, RoomSet
<1>8. MembersJoined'
  <2>1. \A k \in DOMAIN rooms : rooms[k].participants \cup rooms[k].fan \subseteq Participants
    BY TypedFacts DEF Room
  <2>2. ASSUME NEW k \in DOMAIN rooms, NEW q \in rooms[k].participants \cup rooms[k].fan
        PROVE  joins'[q].pc = "done" /\ joins'[q].room = k
    BY <1>1, <1>3, <2>1, <2>2 DEF MembersJoined
  <2> QED BY <1>3, <1>4, <1>5, <2>2 DEF MembersJoined, RoomSet
<1>9. CursorsInStream' /\ ReceivedSoFar' /\ FanOutInOrder'
  <2>1. FramesKept
    BY <1>1, TypedFacts DEF FramesKept
  <2>2. JoinsKept
    BY <1>1, <1>3 DEF JoinsKept, r
  <2> QED BY <1>1, <1>5, <1>6, <2>1, <2>2, FansStay
<1>10. LocksHeld' /\ DueAreServed' /\ LeavesHaveRooms' /\ ConnHasSocket'
  BY <1>1, <1>4, <1>5, LocksStay, DueStay, LeavesStay DEF ConnHasSocket, RoomSet
<1> QED BY <1>6, <1>7, <1>8, <1>9, <1>10

-----------------------------------------------------------------------------
(* The WebSocket. *)

\* The steps of a socket that take no frame.
LEMMA SocketKeeps ==
  ASSUME RoomsInv, NEW p \in Participants, SocketStep(p) \/ Disconnect(p)
  PROVE  RoomsInv'
<1> USE DEF RoomsInv
<1>1. UNCHANGED <<frames, current, rooms, joins, connMu, leaves, received>>
  BY DEF SocketStep, SocketFind, SocketAttach, SocketEnd, Disconnect
<1>2. \/ /\ sockets[p] = "new" /\ conn' = conn
         /\ \E t \in {"found", "ended"} : sockets' = [sockets EXCEPT ![p] = t]
      \/ /\ sockets[p] = "found" /\ conn' = [conn EXCEPT ![p] = "open"]
         /\ sockets' = [sockets EXCEPT ![p] = "reading"]
      \/ /\ sockets[p] \in {"found", "reading"} /\ conn' = conn
         /\ sockets' = [sockets EXCEPT ![p] = "ended"]
      \/ conn[p] = "open" /\ conn' = [conn EXCEPT ![p] = "gone"] /\ sockets' = sockets
  BY DEF SocketStep, SocketFind, SocketAttach, SocketEnd, Disconnect
<1>3. /\ sockets' \in [Participants -> {"new", "found", "reading", "ended"}]
      /\ conn' \in [Participants -> {"nil", "open", "gone"}]
      /\ \A q \in Participants : q # p => sockets'[q] = sockets[q] /\ conn'[q] = conn[q]
  BY <1>2 DEF Typed
<1>4. /\ sockets[p] \in {"reading", "ended"} => sockets'[p] \in {"reading", "ended"}
      /\ conn'[p] # "nil" => sockets'[p] \in {"reading", "ended"}
      /\ conn'[p] = "open" => conn[p] = "open" \/ sockets[p] = "found"
  BY <1>2 DEF Typed, ConnHasSocket
<1>5. Typed'
  BY <1>1, <1>3 DEF Typed
<1>6. ConnHasSocket'
  BY <1>3, <1>4 DEF ConnHasSocket
<1>7. DueAreServed'
  <2>1. \A r \in DOMAIN rooms : rooms[r].due \subseteq Participants
    BY TypedFacts DEF Room
  <2> SUFFICES ASSUME NEW r \in DOMAIN rooms, NEW q \in rooms[r].due
               PROVE  /\ sockets'[q] \in {"reading", "ended"}
                      /\ conn'[q] = "open"
                           => q \in rooms[r].fan \/ rooms[r].cursor \in ToSet(received[q])
    BY <1>1 DEF DueAreServed
  <2>2. /\ q \in Participants /\ sockets[q] \in {"reading", "ended"}
        /\ conn[q] = "open" => q \in rooms[r].fan \/ rooms[r].cursor \in ToSet(received[q])
    BY <2>1 DEF DueAreServed
  <2>3. CASE q = p
    BY <1>4, <2>2, <2>3
  <2>4. CASE q # p
    BY <1>3, <2>2, <2>4
  <2> QED BY <2>3, <2>4
<1>8. LocksHeld' /\ LeavesHaveRooms'
  BY <1>1 DEF LocksHeld, LeavesHaveRooms
<1> QED BY <1>1, <1>5, <1>6, <1>7, <1>8, AllStays

LEMMA FrameKeeps ==
  ASSUME RoomsInv, NEW p \in Participants, Frame(p)
  PROVE  RoomsInv'
<1> USE DEF RoomsInv
<1>1. /\ frames' = Append(frames, p)
      /\ UNCHANGED <<current, rooms, joins, sockets, conn, connMu, leaves, received>>
  BY DEF Frame
<1>2. /\ frames' \in Seq(Participants) /\ Len(frames') = Len(frames) + 1
      /\ \A n \in 1 .. Len(frames) : frames'[n] = frames[n]
      /\ Len(frames) \in Nat /\ DOMAIN frames = 1 .. Len(frames)
  BY <1>1, TypedFacts, AppendProperties DEF Typed
<1>3. DOMAIN frames' = 1 .. Len(frames')
  BY <1>2, LenProperties
<1>4. received \in [Participants -> Seq(1 .. Len(frames'))]
  <2>1. 1 .. Len(frames) \subseteq 1 .. Len(frames')
    BY <1>2
  <2>2. \A q \in Participants : received[q] \in Seq(1 .. Len(frames'))
    <3>1. \A q \in Participants : received[q] \in Seq(1 .. Len(frames))
      BY DEF Typed
    <3> HIDE DEF RoomsInv
    <3> QED BY <2>1, <3>1, SeqMonotonic
  <2> QED BY <2>2 DEF Typed
<1>5. Typed'
  BY <1>1, <1>2, <1>4 DEF Typed
<1>6. FramesKept /\ FansKept /\ FollowersKept /\ JoinsKept
  BY <1>1, <1>2, <1>3 DEF FramesKept, FansKept, FollowersKept, FanKept, JoinsKept
<1>7. JoinsHaveRooms' /\ MembersJoined' /\ LeavesHaveRooms' /\ ConnHasSocket'
  BY <1>1 DEF JoinsHaveRooms, MembersJoined, LeavesHaveRooms, ConnHasSocket
<1>8. LocksHeld' /\ DueAreServed'
  BY <1>1, <1>6, LocksStay, DueStay
<1> QED BY <1>1, <1>5, <1>6, <1>7, <1>8, FansStay

-----------------------------------------------------------------------------
(* Leaving. *)

\* A leave that touches no room and no socket.
LEMMA LeaveOnly ==
  ASSUME RoomsInv, leaves' \in [Leaves -> Leave], LeavesHaveRooms', current' \in {0, current},
         UNCHANGED <<frames, rooms, joins, sockets, conn, connMu, received>>
  PROVE  RoomsInv'
<1> USE DEF RoomsInv
<1>1. Len(rooms) \in Nat
  BY TypedFacts
<1>2. Typed'
  BY <1>1 DEF Typed
<1>3. LocksHeld' /\ ConnHasSocket' /\ DueAreServed'
  BY DEF LocksHeld, ConnHasSocket, DueAreServed
<1> QED BY <1>2, <1>3, AllStays

LEMMA LeaveLookupKeeps ==
  ASSUME RoomsInv, NEW l \in Leaves, LeaveLookup(l)
  PROVE  RoomsInv'
<1>1. PICK p \in Participants, pc \in {"find_room", "done"} :
        leaves' = [leaves EXCEPT ![l].who = p, ![l].pc = pc]
  BY DEF LeaveLookup
<1>2. leaves[l] \in Leave /\ leaves \in [Leaves -> Leave]
  BY DEF RoomsInv, Typed
<1>3. leaves'[l] = [leaves[l] EXCEPT !.who = p, !.pc = pc]
  BY <1>1, <1>2
<1>4. /\ leaves'[l] \in Leave /\ leaves'[l].who = p /\ leaves'[l].pc = pc
  BY <1>2, <1>3 DEF Leave
<1>5. leaves' \in [Leaves -> Leave] /\ \A k \in Leaves : k # l => leaves'[k] = leaves[k]
  BY <1>1, <1>2, <1>4
<1>6. UNCHANGED <<frames, current, rooms, joins, sockets, conn, connMu, received>>
  BY DEF LeaveLookup
<1>7. LeavesHaveRooms'
  BY <1>4, <1>5, <1>6 DEF LeavesHaveRooms, RoomsInv
<1> QED BY <1>5, <1>6, <1>7, LeaveOnly

LEMMA LeaveFindKeeps ==
  ASSUME RoomsInv, NEW l \in Leaves, LeaveFind(l)
  PROVE  RoomsInv'
<1> DEFINE pc == IF current = 0 THEN "done" ELSE "close"
<1>1. /\ leaves[l].pc = "find_room" /\ leaves' = [leaves EXCEPT ![l].room = current, ![l].pc = pc]
      /\ UNCHANGED <<frames, current, rooms, joins, sockets, conn, connMu, received>>
  BY DEF LeaveFind
<1>2. /\ leaves[l] \in Leave /\ leaves \in [Leaves -> Leave] /\ current \in Nat
      /\ current # 0 => current \in DOMAIN rooms
      /\ leaves[l].who \in Participants
  BY <1>1, TypedFacts DEF RoomsInv, Typed, LeavesHaveRooms
<1>3. pc \in {"done", "close"} /\ (pc = "close" => current \in DOMAIN rooms)
  BY <1>2
<1> HIDE DEF pc
<1>4. leaves'[l] = [leaves[l] EXCEPT !.room = current, !.pc = pc]
  BY <1>1, <1>2
<1>5. /\ leaves'[l] \in Leave /\ leaves'[l].who = leaves[l].who /\ leaves'[l].pc = pc
      /\ leaves'[l].room = current
  BY <1>2, <1>3, <1>4 DEF Leave
<1>6. leaves' \in [Leaves -> Leave] /\ \A k \in Leaves : k # l => leaves'[k] = leaves[k]
  BY <1>1, <1>2, <1>5
<1>7. LeavesHaveRooms'
  BY <1>1, <1>2, <1>3, <1>5, <1>6 DEF LeavesHaveRooms, RoomsInv
<1> QED BY <1>1, <1>6, <1>7, LeaveOnly

LEMMA LeaveCloseKeeps ==
  ASSUME RoomsInv, NEW l \in Leaves, LeaveClose(l)
  PROVE  RoomsInv'
<1> USE DEF RoomsInv
<1> DEFINE p == leaves[l].who
<1>1. /\ leaves[l].pc = "close" /\ conn' = [conn EXCEPT ![p] = "nil"] /\ LeaveGoes(l, "remove")
      /\ UNCHANGED <<frames, current, rooms, joins, sockets, connMu, received>>
  BY DEF LeaveClose
<1>2. /\ leaves' \in [Leaves -> Leave] /\ leaves'[l].who = leaves[l].who
      /\ leaves'[l].room = leaves[l].room
      /\ \A k \in Leaves : k # l => leaves'[k] = leaves[k]
  BY <1>1, LeaveSet
<1>3. LeavesHaveRooms'
  BY <1>1, <1>2 DEF LeavesHaveRooms
<1> HIDE DEF p
<1>4. /\ conn' \in [Participants -> {"nil", "open", "gone"}]
      /\ \A q \in Participants : conn'[q] # "nil" => conn'[q] = conn[q]
  BY <1>1 DEF Typed
<1>5. Typed'
  BY <1>1, <1>2, <1>4 DEF Typed
<1>6. ConnHasSocket'
  BY <1>1, <1>4 DEF ConnHasSocket
<1>7. DueAreServed'
  <2>1. \A r \in DOMAIN rooms : rooms[r].due \subseteq Participants
    BY TypedFacts DEF Room
  <2> QED BY <1>1, <1>4, <2>1 DEF DueAreServed
<1>8. LocksHeld'
  BY <1>1 DEF LocksHeld
<1> QED BY <1>1, <1>3, <1>5, <1>6, <1>7, <1>8, AllStays

\* A leave that changes its room: nobody is added, and no fan-out is touched.
LEMMA LeaveChangesRoom ==
  ASSUME RoomsInv, NEW r \in DOMAIN rooms, NEW rec \in Room, RoomSet(r, rec), FanKept(r),
         rooms'[r].follower = rooms[r].follower,
         rooms'[r].participants \subseteq rooms[r].participants,
         leaves' \in [Leaves -> Leave], LeavesHaveRooms',
         UNCHANGED <<frames, current, joins, sockets, conn, connMu, received>>
  PROVE  RoomsInv'
<1> USE DEF RoomsInv
<1>1. FansKept /\ FollowersKept
  BY OneKept
<1>2. Typed'
  BY TypedRooms DEF Typed
<1>3. JoinsHaveRooms'
  BY DEF JoinsHaveRooms, RoomSet
<1>4. MembersJoined'
  BY DEF MembersJoined, RoomSet, FanKept
<1>5. CursorsInStream' /\ ReceivedSoFar' /\ FanOutInOrder'
  <2>1. FramesKept
    BY TypedFacts DEF FramesKept
  <2>2. JoinsKept
    BY DEF JoinsKept
  <2> QED BY <1>1, <1>2, <2>1, <2>2, FansStay
<1>6. LocksHeld' /\ DueAreServed' /\ ConnHasSocket'
  BY <1>1, LocksStay, DueStay DEF ConnHasSocket
<1> QED BY <1>2, <1>3, <1>4, <1>5, <1>6

LEMMA LeaveRemoveKeeps ==
  ASSUME RoomsInv, NEW l \in Leaves, LeaveRemove(l)
  PROVE  RoomsInv'
<1> DEFINE r == leaves[l].room
           remaining == rooms[r].participants \ {leaves[l].who}
<1>1. /\ leaves[l].pc = "remove" /\ rooms' = [rooms EXCEPT ![r].participants = remaining]
      /\ UNCHANGED <<frames, current, joins, sockets, conn, connMu, received>>
  BY DEF LeaveRemove
<1>2. PICK pc \in {"cancel", "done"} : LeaveGoes(l, pc)
  BY DEF LeaveRemove
<1>3. r \in DOMAIN rooms /\ leaves[l].who \in Participants /\ Typed
  BY <1>1 DEF RoomsInv, LeavesHaveRooms
<1>4. remaining \in SUBSET Participants /\ remaining \subseteq rooms[r].participants
  BY <1>3, TypedFacts DEF Room
<1>5. /\ leaves' \in [Leaves -> Leave] /\ leaves'[l].who = leaves[l].who
      /\ leaves'[l].room = leaves[l].room
      /\ \A k \in Leaves : k # l => leaves'[k] = leaves[k]
  BY <1>2, <1>3, LeaveSet
<1> HIDE DEF remaining
<1>6. PICK rec \in Room : RoomSet(r, rec)
  BY <1>1, <1>3, <1>4, ParticipantsSet
<1>7. /\ FanKept(r) /\ rooms'[r].participants = remaining
      /\ rooms'[r].follower = rooms[r].follower
  BY <1>1, <1>3, <1>4, ParticipantsSet
<1>8. LeavesHaveRooms'
  BY <1>3, <1>5, <1>6 DEF LeavesHaveRooms, RoomsInv, RoomSet
<1> HIDE DEF r
<1> QED BY <1>1, <1>3, <1>4, <1>5, <1>6, <1>7, <1>8, LeaveChangesRoom

LEMMA LeaveCancelKeeps ==
  ASSUME RoomsInv, NEW l \in Leaves, LeaveCancel(l)
  PROVE  RoomsInv'
<1> DEFINE r == leaves[l].room
<1>1. /\ leaves[l].pc = "cancel" /\ rooms' = [rooms EXCEPT ![r].cancelled = TRUE]
      /\ LeaveGoes(l, "delete")
      /\ UNCHANGED <<frames, current, joins, sockets, conn, connMu, received>>
  BY DEF LeaveCancel
<1>2. r \in DOMAIN rooms /\ leaves[l].who \in Participants /\ Typed
  BY <1>1 DEF RoomsInv, LeavesHaveRooms
<1>3. /\ leaves' \in [Leaves -> Leave] /\ leaves'[l].who = leaves[l].who
      /\ leaves'[l].room = leaves[l].room
      /\ \A k \in Leaves : k # l => leaves'[k] = leaves[k]
  BY <1>1, <1>2, LeaveSet
<1>4. PICK rec \in Room : RoomSet(r, rec)
  BY <1>1, <1>2, CancelledSet
<1>5. /\ FanKept(r) /\ rooms'[r].participants = rooms[r].participants
      /\ rooms'[r].follower = rooms[r].follower
  BY <1>1, <1>2, CancelledSet
<1>6. LeavesHaveRooms'
  BY <1>2, <1>3, <1>4 DEF LeavesHaveRooms, RoomsInv, RoomSet
<1> HIDE DEF r
<1> QED BY <1>1, <1>2, <1>3, <1>4, <1>5, <1>6, LeaveChangesRoom

LEMMA LeaveDeleteKeeps ==
  ASSUME RoomsInv, NEW l \in Leaves, LeaveDelete(l)
  PROVE  RoomsInv'
<1>1. /\ current' = 0 /\ LeaveGoes(l, "done") /\ Typed
      /\ UNCHANGED <<frames, rooms, joins, sockets, conn, connMu, received>>
  BY DEF LeaveDelete, RoomsInv
<1>2. /\ leaves' \in [Leaves -> Leave] /\ leaves'[l].pc = "done"
      /\ \A k \in Leaves : k # l => leaves'[k] = leaves[k]
  BY <1>1, LeaveSet
<1>3. LeavesHaveRooms'
  BY <1>1, <1>2 DEF LeavesHaveRooms, RoomsInv
<1> QED BY <1>1, <1>2, <1>3, LeaveOnly

-----------------------------------------------------------------------------
(* The follower of a room. *)

\* A step of room r's follower: nobody joins or leaves by it, and it offers a
\* frame to nobody who is not in its room.
FollowerMoves(r) ==
  /\ \E rec \in Room : RoomSet(r, rec)
  /\ rooms'[r].participants = rooms[r].participants
  /\ rooms'[r].fan \subseteq rooms[r].participants \cup rooms[r].fan
  /\ UNCHANGED <<frames, current, joins, sockets, conn, leaves>>
  /\ connMu' \in [Participants -> BOOLEAN]
  /\ received' \in [Participants -> Seq(1 .. Len(frames))]

LEMMA FollowerKeeps ==
  ASSUME RoomsInv, NEW r \in DOMAIN rooms, FollowerMoves(r)
  PROVE  Typed' /\ JoinsHaveRooms' /\ LeavesHaveRooms' /\ MembersJoined' /\ ConnHasSocket'
<1> USE DEF RoomsInv
<1>1. PICK rec \in Room : RoomSet(r, rec)
  BY DEF FollowerMoves
<1>2. Typed'
  BY <1>1 DEF Typed, RoomSet, FollowerMoves
<1>3. DOMAIN rooms' = DOMAIN rooms
  BY <1>1 DEF RoomSet
<1>4. JoinsHaveRooms' /\ LeavesHaveRooms' /\ ConnHasSocket'
  BY <1>3 DEF FollowerMoves, JoinsHaveRooms, LeavesHaveRooms, ConnHasSocket
<1>5. MembersJoined'
  BY <1>1 DEF FollowerMoves, MembersJoined, RoomSet
<1> QED BY <1>2, <1>4, <1>5

\* The follower starts or ends: no fan-out is under way.
LEMMA FollowerStops ==
  ASSUME RoomsInv, NEW r \in DOMAIN rooms,
         FollowOpen(r) \/ FollowCancelled(r) \/ FollowBroken(r)
  PROVE  RoomsInv'
<1> USE DEF RoomsInv
<1>1. /\ rooms[r].follower # "fan"
      /\ UNCHANGED <<frames, current, joins, sockets, conn, connMu, leaves, received>>
  BY DEF FollowOpen, FollowCancelled, FollowBroken
<1>2. PICK t \in {"recv", "ended"} : FollowerGoes(r, t)
  BY DEF FollowOpen, FollowCancelled, FollowBroken
<1>3. PICK rec \in Room : RoomSet(r, rec)
  BY <1>2, FollowerSet
<1>4. /\ FanKept(r) /\ rooms'[r].participants = rooms[r].participants
      /\ rooms'[r].fan = rooms[r].fan /\ rooms[r].fan = {}
  BY <1>1, <1>2, FollowerSet DEF FanKept, LocksHeld
<1>5. FollowerMoves(r)
  BY <1>1, <1>3, <1>4 DEF FollowerMoves, Typed
<1>6. FansKept
  BY <1>3, <1>4 DEF FansKept, RoomSet, FanKept
<1>7. CursorsInStream' /\ ReceivedSoFar' /\ FanOutInOrder'
  <2>1. FramesKept
    BY <1>1, TypedFacts DEF FramesKept
  <2>2. JoinsKept
    BY <1>1 DEF JoinsKept
  <2> QED BY <1>1, <1>5, <1>6, <2>1, <2>2, FansStay, FollowerKeeps
<1>8. LocksHeld'
  BY <1>1, <1>3, <1>4 DEF LocksHeld, RoomSet
<1> QED BY <1>1, <1>5, <1>6, <1>7, <1>8, FollowerKeeps, DueStay

LEMMA FollowRecvKeeps ==
  ASSUME RoomsInv, NEW r \in DOMAIN rooms, FollowRecv(r)
  PROVE  RoomsInv'
<1> USE DEF RoomsInv
<1> DEFINE n == rooms[r].cursor + 1
           due == {p \in Others(r) : conn[p] = "open"}
           rec == [rooms[r] EXCEPT !.cursor = n, !.follower = "fan", !.fan = Others(r),
                                   !.due = due]
<1>1. /\ rooms[r].follower = "recv" /\ rooms[r].cursor < Len(frames)
      /\ rooms' = [rooms EXCEPT ![r].cursor = n, ![r].follower = "fan",
                                ![r].fan = Others(r), ![r].due = due]
      /\ UNCHANGED <<frames, current, joins, sockets, conn, connMu, leaves, received>>
  BY DEF FollowRecv, NextFrame
<1>2. /\ rooms[r] \in Room /\ rooms[r].cursor \in Nat /\ Len(frames) \in Nat
      /\ DOMAIN frames = 1 .. Len(frames)
  BY TypedFacts
<1>3. n \in Nat /\ n \in DOMAIN frames /\ rooms[r].cursor < n /\ n <= Len(frames)
  BY <1>1, <1>2
<1>4. /\ Others(r) \subseteq rooms[r].participants /\ Others(r) \subseteq Participants
      /\ \A p \in Others(r) : p # frames[n]
  BY <1>2 DEF Others, NextFrame, Room
<1>5. rooms' = [rooms EXCEPT ![r] = rec]
  BY <1>1
<1>6. due \subseteq Others(r) /\ \A p \in due : conn[p] = "open"
  OBVIOUS
<1> HIDE DEF n, due
<1>7. /\ rec \in Room /\ rec.participants = rooms[r].participants
      /\ rec.cursor = n /\ rec.follower = "fan" /\ rec.fan = Others(r) /\ rec.due = due
  BY <1>2, <1>3, <1>4, <1>6 DEF Room
<1> HIDE DEF rec
<1>8. RoomSet(r, rec)
  BY <1>5, <1>7, RoomChanges
<1>9. /\ rooms'[r] = rec /\ DOMAIN rooms' = DOMAIN rooms
      /\ \A k \in DOMAIN rooms : k # r => rooms'[k] = rooms[k]
  BY <1>8 DEF RoomSet
<1>10. FollowerMoves(r)
  BY <1>1, <1>4, <1>7, <1>8, <1>9 DEF FollowerMoves, Typed
<1>11. LocksHeld'
  <2>1. rooms[r].fan = {}
    BY <1>1 DEF LocksHeld
  <2> QED BY <1>1, <1>7, <1>9, <2>1 DEF LocksHeld
<1>12. CursorsInStream'
  BY <1>1, <1>3, <1>4, <1>7, <1>9 DEF CursorsInStream
<1>13. ReceivedSoFar'
  <2> SUFFICES ASSUME NEW p \in Participants, NEW i \in DOMAIN received[p]
               PROVE  /\ joins[p].pc # "new"
                      /\ received[p][i] <= rooms'[joins[p].room].cursor
                      /\ p \in rooms'[joins[p].room].fan
                           => received[p][i] < rooms'[joins[p].room].cursor
    BY <1>1 DEF ReceivedSoFar
  <2>1. /\ joins[p].pc # "new" /\ joins[p].room \in DOMAIN rooms
        /\ received[p][i] <= rooms[joins[p].room].cursor
        /\ p \in rooms[joins[p].room].fan => received[p][i] < rooms[joins[p].room].cursor
        /\ received[p][i] \in Nat
    BY <1>2, TypedFacts DEF ReceivedSoFar, JoinsHaveRooms
  <2>2. CASE joins[p].room = r
    BY <1>2, <1>3, <1>7, <1>9, <2>1, <2>2
  <2>3. CASE joins[p].room # r
    BY <1>9, <2>1, <2>3
  <2> QED BY <2>2, <2>3
<1>14. FanOutInOrder'
  BY <1>1 DEF FanOutInOrder
<1>15. DueAreServed'
  <2>1. \A p \in due : p \in Participants /\ sockets[p] \in {"reading", "ended"}
    BY <1>4, <1>6 DEF ConnHasSocket
  <2> QED BY <1>1, <1>6, <1>7, <1>9, <2>1 DEF DueAreServed
<1> QED BY <1>10, <1>11, <1>12, <1>13, <1>14, <1>15, FollowerKeeps

LEMMA FanDoneKeeps ==
  ASSUME RoomsInv, NEW r \in DOMAIN rooms, FanDone(r)
  PROVE  RoomsInv'
<1> USE DEF RoomsInv
<1> DEFINE rec == [rooms[r] EXCEPT !.follower = "recv", !.due = {}]
<1>1. /\ rooms[r].fan = {} /\ rooms' = [rooms EXCEPT ![r].follower = "recv", ![r].due = {}]
      /\ UNCHANGED <<frames, current, joins, sockets, conn, connMu, leaves, received>>
  BY DEF FanDone
<1>2. rooms[r] \in Room
  BY TypedFacts
<1>3. /\ rec \in Room /\ rec.participants = rooms[r].participants
      /\ rec.cursor = rooms[r].cursor /\ rec.fan = {} /\ rec.due = {}
  BY <1>1, <1>2 DEF Room
<1>4. rooms' = [rooms EXCEPT ![r] = rec]
  BY <1>1
<1> HIDE DEF rec
<1>5. RoomSet(r, rec)
  BY <1>3, <1>4, RoomChanges
<1>6. /\ rooms'[r] = rec /\ DOMAIN rooms' = DOMAIN rooms
      /\ \A k \in DOMAIN rooms : k # r => rooms'[k] = rooms[k]
  BY <1>5 DEF RoomSet
<1>7. FollowerMoves(r)
  BY <1>1, <1>3, <1>5, <1>6 DEF FollowerMoves, Typed
<1>8. \A k \in DOMAIN rooms :
        rooms'[k].cursor = rooms[k].cursor /\ rooms'[k].fan = rooms[k].fan
  BY <1>1, <1>3, <1>6
<1>9. LocksHeld'
  BY <1>1, <1>3, <1>6, <1>8 DEF LocksHeld
<1>10. CursorsInStream' /\ FanOutInOrder'
  BY <1>1, <1>6, <1>8 DEF CursorsInStream, FanOutInOrder
<1>11. ReceivedSoFar'
  BY <1>1, <1>8 DEF ReceivedSoFar, JoinsHaveRooms
<1>12. DueAreServed'
  BY <1>1, <1>3, <1>6 DEF DueAreServed
<1> QED BY <1>7, <1>9, <1>10, <1>11, <1>12, FollowerKeeps

\* The participants due stay the same: those with an open socket wait or have it.
LEMMA DueServed ==
  ASSUME DueAreServed, UNCHANGED <<conn, sockets>>, DOMAIN rooms' = DOMAIN rooms,
         \A k \in DOMAIN rooms :
           rooms'[k].due = rooms[k].due /\ rooms'[k].cursor = rooms[k].cursor,
         \A k \in DOMAIN rooms : \A q \in rooms[k].due : conn[q] = "open" =>
           q \in rooms'[k].fan \/ rooms[k].cursor \in ToSet(received'[q])
  PROVE  DueAreServed'
<1>1. ASSUME NEW k \in DOMAIN rooms, NEW q \in rooms'[k].due
      PROVE  /\ sockets'[q] \in {"reading", "ended"}
             /\ conn'[q] = "open"
                  => q \in rooms'[k].fan \/ rooms'[k].cursor \in ToSet(received'[q])
  <2>1. q \in rooms[k].due /\ sockets'[q] = sockets[q] /\ conn'[q] = conn[q]
    BY <1>1
  <2>2. sockets[q] \in {"reading", "ended"}
    BY <2>1 DEF DueAreServed
  <2> QED BY <2>1, <2>2
<1> QED BY <1>1 DEF DueAreServed

\* Participant p has its turn: what it has received by then is given, too.
LEMMA TurnKeeps ==
  ASSUME RoomsInv, NEW r \in DOMAIN rooms, NEW p \in rooms[r].fan, HadTurn(r, p),
         UNCHANGED <<frames, current, joins, sockets, conn, leaves>>,
         connMu' \in [Participants -> BOOLEAN], ~connMu'[p],
         \A q \in Participants : connMu'[q] => connMu[q],
         received' \in [Participants -> Seq(1 .. Len(frames))],
         \A q \in Participants : q # p => received'[q] = received[q],
         \/ received'[p] = received[p] /\ conn[p] # "open"
         \/ received'[p] = Append(received[p], rooms[r].cursor)
  PROVE  RoomsInv'
<1> USE DEF RoomsInv
<1>1. p \in Participants /\ joins[p].room = r /\ joins[p].pc = "done"
  BY TypedFacts DEF Room, MembersJoined
<1>2. PICK rec \in Room : RoomSet(r, rec)
  BY TurnTaken
<1>3. /\ rooms'[r].participants = rooms[r].participants
      /\ rooms'[r].fan = rooms[r].fan \ {p} /\ rooms'[r].due = rooms[r].due
      /\ rooms'[r].cursor = rooms[r].cursor /\ rooms'[r].follower = rooms[r].follower
  BY TurnTaken
<1>4. /\ DOMAIN rooms' = DOMAIN rooms
      /\ \A k \in DOMAIN rooms : k # r => rooms'[k] = rooms[k]
  BY <1>2 DEF RoomSet
<1>5. FollowerMoves(r)
  BY <1>2, <1>3 DEF FollowerMoves
<1>6. LocksHeld'
  <2>1. \A k \in DOMAIN rooms : rooms'[k].fan # {} => rooms'[k].follower = "fan"
    BY <1>3, <1>4 DEF LocksHeld
  <2>2. ASSUME NEW q \in Participants, connMu'[q]
        PROVE  \E k \in DOMAIN rooms : q \in rooms'[k].fan
    <3>1. q # p /\ connMu[q]
      BY <2>2
    <3>2. PICK k \in DOMAIN rooms : q \in rooms[k].fan
      BY <3>1 DEF LocksHeld
    <3> QED BY <1>3, <1>4, <3>1, <3>2
  <2> QED BY <1>4, <2>1, <2>2 DEF LocksHeld
<1>7. \A k \in DOMAIN rooms :
        rooms'[k].cursor = rooms[k].cursor /\ rooms'[k].fan \subseteq rooms[k].fan
  BY <1>3, <1>4
<1>8. CursorsInStream'
  BY <1>4, <1>7 DEF CursorsInStream
<1>9. /\ received[p] \in Seq(1 .. Len(frames)) /\ rooms[r].cursor \in Nat
      /\ Len(received[p]) \in Nat /\ DOMAIN received[p] = 1 .. Len(received[p])
      /\ rooms[r].cursor \in 1 .. Len(frames) /\ frames[rooms[r].cursor] # p
      /\ \A i \in DOMAIN received[p] : received[p][i] \in Nat /\ received[p][i] < rooms[r].cursor
  <2>1. received[p] \in Seq(1 .. Len(frames))
    BY <1>1 DEF Typed
  <2>2. /\ DOMAIN frames = 1 .. Len(frames) /\ rooms[r].cursor \in Nat
        /\ Len(received[p]) \in Nat /\ DOMAIN received[p] = 1 .. Len(received[p])
        /\ \A i \in DOMAIN received[p] : received[p][i] \in DOMAIN frames
        /\ Len(frames) \in Nat
    BY <1>1, TypedFacts
  <2>3. rooms[r].cursor \in DOMAIN frames /\ frames[rooms[r].cursor] # p
    BY DEF CursorsInStream
  <2>4. \A i \in DOMAIN received[p] : received[p][i] < rooms[r].cursor
    BY <1>1 DEF ReceivedSoFar
  <2> QED BY <2>1, <2>2, <2>3, <2>4
<1>10. CASE received'[p] = Append(received[p], rooms[r].cursor)
  <2> DEFINE n == Len(received[p]) + 1
  <2>1. /\ DOMAIN received'[p] = DOMAIN received[p] \cup {n}
        /\ \A i \in DOMAIN received[p] : received'[p][i] = received[p][i] /\ i < n /\ i # n
        /\ received'[p][n] = rooms[r].cursor /\ n \in Nat
    <3>1. /\ received'[p] \in Seq(1 .. Len(frames)) /\ Len(received'[p]) = n
          /\ \A i \in 1 .. Len(received[p]) : received'[p][i] = received[p][i]
          /\ received'[p][n] = rooms[r].cursor
      BY <1>9, <1>10, AppendProperties
    <3>2. DOMAIN received'[p] = 1 .. n
      BY <3>1, LenProperties
    <3>3. /\ n \in Nat /\ 1 .. n = (1 .. Len(received[p])) \cup {n}
          /\ \A i \in 1 .. Len(received[p]) : i < n /\ i # n
      BY <1>9, OneMore
    <3> HIDE DEF n
    <3> QED BY <1>9, <3>1, <3>2, <3>3
  <2> HIDE DEF n
  <2>2. ReceivedSoFar'
    <3>1. ASSUME NEW i \in DOMAIN received'[p]
          PROVE  received'[p][i] <= rooms'[r].cursor /\ p \notin rooms'[r].fan
      BY <1>3, <1>9, <2>1
    <3>2. ASSUME NEW q \in Participants, q # p, NEW i \in DOMAIN received[q]
          PROVE  /\ joins[q].pc # "new"
                 /\ received[q][i] <= rooms'[joins[q].room].cursor
                 /\ q \in rooms'[joins[q].room].fan
                      => received[q][i] < rooms'[joins[q].room].cursor
      BY <1>7, <3>2 DEF ReceivedSoFar, JoinsHaveRooms
    <3> QED BY <1>1, <3>1, <3>2 DEF ReceivedSoFar
  <2>3. FanOutInOrder'
    <3>1. ASSUME NEW i \in DOMAIN received'[p], NEW j \in DOMAIN received'[p], i < j
          PROVE  received'[p][i] < received'[p][j]
      <4>1. i \in DOMAIN received[p]
        <5>1. i # n
          BY <1>9, <2>1, <3>1
        <5> QED BY <2>1, <5>1
      <4> QED BY <1>1, <1>9, <2>1, <3>1, <4>1 DEF FanOutInOrder
    <3>2. \A i \in DOMAIN received'[p] : frames[received'[p][i]] # p
      BY <1>1, <1>9, <2>1 DEF FanOutInOrder
    <3> QED BY <3>1, <3>2 DEF FanOutInOrder
  <2>4. /\ \A q \in Participants : ToSet(received[q]) \subseteq ToSet(received'[q])
        /\ rooms[r].cursor \in ToSet(received'[p])
    <3>1. ToSet(received[p]) \subseteq ToSet(received'[p])
      BY <2>1 DEF ToSet
    <3>2. n \in DOMAIN received'[p]
      BY <2>1
    <3>3. rooms[r].cursor \in ToSet(received'[p])
      BY <2>1, <3>2 DEF ToSet
    <3> QED BY <3>1, <3>3
  <2>5. DueAreServed'
    <3>1. \A k \in DOMAIN rooms : rooms[k].due \subseteq Participants
      BY TypedFacts DEF Room
    <3>2. ASSUME NEW k \in DOMAIN rooms, NEW q \in rooms[k].due, conn[q] = "open"
          PROVE  q \in rooms'[k].fan \/ rooms[k].cursor \in ToSet(received'[q])
      <4>1. q \in rooms[k].fan \/ rooms[k].cursor \in ToSet(received[q])
        BY <3>2 DEF DueAreServed
      <4> QED BY <1>3, <1>4, <2>4, <3>1, <3>2, <4>1
    <3> QED BY <1>3, <1>4, <3>2, DueServed
  <2> QED BY <1>5, <1>6, <1>8, <2>2, <2>3, <2>5, FollowerKeeps
<1>11. CASE received'[p] = received[p] /\ conn[p] # "open"
  <2>1. \A q \in Participants : received'[q] = received[q]
    BY <1>11
  <2>2. ReceivedSoFar'
    BY <1>7, <2>1 DEF ReceivedSoFar, JoinsHaveRooms
  <2>3. FanOutInOrder'
    BY <2>1 DEF FanOutInOrder
  <2>4. DueAreServed'
    <3>1. \A k \in DOMAIN rooms : rooms[k].due \subseteq Participants
      BY TypedFacts DEF Room
    <3>2. ASSUME NEW k \in DOMAIN rooms, NEW q \in rooms[k].due, conn[q] = "open"
          PROVE  q \in rooms'[k].fan \/ rooms[k].cursor \in ToSet(received'[q])
      <4>1. q \in rooms[k].fan \/ rooms[k].cursor \in ToSet(received[q])
        BY <3>2 DEF DueAreServed
      <4> QED BY <1>3, <1>4, <1>11, <2>1, <3>1, <3>2, <4>1
    <3> QED BY <1>3, <1>4, <3>2, DueServed
  <2> QED BY <1>5, <1>6, <1>8, <2>2, <2>3, <2>4, FollowerKeeps
<1> QED BY <1>10, <1>11

LEMMA FanLockKeeps ==
  ASSUME RoomsInv, NEW r \in DOMAIN rooms, NEW p \in Participants, FanLock(r, p)
  PROVE  RoomsInv'
<1> USE DEF RoomsInv
<1>1. /\ p \in rooms[r].fan /\ ~connMu[p]
      /\ UNCHANGED <<frames, current, joins, sockets, conn, leaves, received>>
  BY DEF FanLock
<1>2. CASE conn[p] = "nil"
  <2>1. HadTurn(r, p) /\ connMu' = connMu /\ conn[p] # "open"
    BY <1>2 DEF FanLock
  <2>2. /\ connMu \in [Participants -> BOOLEAN]
        /\ received \in [Participants -> Seq(1 .. Len(frames))]
    BY DEF Typed
  <2> QED BY <1>1, <2>1, <2>2, TurnKeeps
<1>3. CASE conn[p] # "nil"
  <2>1. connMu' = [connMu EXCEPT ![p] = TRUE] /\ rooms' = rooms
    BY <1>3 DEF FanLock
  <2>2. connMu' \in [Participants -> BOOLEAN] /\ \A q \in Participants : q # p => connMu'[q] = connMu[q]
    BY <2>1 DEF Typed
  <2>3. Typed' /\ LocksHeld'
    BY <1>1, <2>1, <2>2 DEF Typed, LocksHeld
  <2>4. LeavesHaveRooms' /\ ConnHasSocket' /\ DueAreServed'
    BY <1>1, <2>1 DEF LeavesHaveRooms, ConnHasSocket, DueAreServed
  <2> QED BY <1>1, <2>1, <2>3, <2>4, AllStays
<1> QED BY <1>2, <1>3

LEMMA FanWriteKeeps ==
  ASSUME RoomsInv, NEW r \in DOMAIN rooms, NEW p \in Participants, FanWrite(r, p)
  PROVE  RoomsInv'
<1> USE DEF RoomsInv
<1> DEFINE n == rooms[r].cursor
<1>1. /\ p \in rooms[r].fan /\ HadTurn(r, p) /\ connMu' = [connMu EXCEPT ![p] = FALSE]
      /\ received' = [received EXCEPT ![p] =
                         IF conn[p] = "open" THEN Append(@, n) ELSE @]
      /\ UNCHANGED <<frames, current, joins, sockets, conn, leaves>>
  BY DEF FanWrite, UnlockConn
<1>2. n \in 1 .. Len(frames) /\ received[p] \in Seq(1 .. Len(frames))
  BY <1>1, TypedFacts DEF CursorsInStream, Typed
<1> HIDE DEF n
<1>3. /\ connMu' \in [Participants -> BOOLEAN] /\ ~connMu'[p]
      /\ \A q \in Participants : connMu'[q] => connMu[q]
  BY <1>1 DEF Typed
<1>4. Append(received[p], n) \in Seq(1 .. Len(frames))
  BY <1>2, AppendProperties
<1>5. /\ received' \in [Participants -> Seq(1 .. Len(frames))]
      /\ \A q \in Participants : q # p => received'[q] = received[q]
      /\ \/ received'[p] = received[p] /\ conn[p] # "open"
         \/ received'[p] = Append(received[p], n)
  BY <1>1, <1>4 DEF Typed
<1> QED BY <1>1, <1>3, <1>5, TurnKeeps DEF n

-----------------------------------------------------------------------------
(* The theorems. *)

LEMMA RoomsInit == Init => RoomsInv
<1> SUFFICES ASSUME Init
             PROVE  RoomsInv
  OBVIOUS
<1>1. /\ frames = << >> /\ rooms = << >> /\ Len(<< >>) = 0 /\ DOMAIN << >> = {}
      /\ \A S : << >> \in Seq(S)
  BY EmptySeq DEF Init
<1>2. Typed
  BY <1>1 DEF Init, Typed, Leave
<1>3. LocksHeld /\ JoinsHaveRooms /\ LeavesHaveRooms /\ ConnHasSocket
  BY <1>1 DEF Init, LocksHeld, JoinsHaveRooms, LeavesHaveRooms, ConnHasSocket
<1>4. MembersJoined /\ CursorsInStream /\ DueAreServed
  BY <1>1 DEF Init, MembersJoined, CursorsInStream, DueAreServed
<1>5. ReceivedSoFar /\ FanOutInOrder
  BY <1>1 DEF Init, ReceivedSoFar, FanOutInOrder
<1> QED BY <1>2, <1>3, <1>4, <1>5 DEF RoomsInv

LEMMA RoomsStep == RoomsInv /\ [Next]_vars => RoomsInv'
<1> SUFFICES ASSUME RoomsInv, [Next]_vars
             PROVE  RoomsInv'
  OBVIOUS
<1>1. CASE UNCHANGED vars
  <2>1. UNCHANGED <<frames, current, rooms, joins, sockets, conn, connMu, leaves, received>>
    BY <1>1 DEF vars
  <2>2. Typed' /\ LocksHeld'
    BY <2>1 DEF RoomsInv, Typed, LocksHeld
  <2>3. LeavesHaveRooms' /\ ConnHasSocket' /\ DueAreServed'
    BY <2>1 DEF RoomsInv, LeavesHaveRooms, ConnHasSocket, DueAreServed
  <2> QED BY <2>1, <2>2, <2>3, AllStays DEF RoomsInv
<1>2. ASSUME NEW p \in Participants,
             JoinStep(p) \/ SocketStep(p) \/ Frame(p) \/ Disconnect(p)
      PROVE  RoomsInv'
  BY <1>2, JoinFindKeeps, JoinAddKeeps, SocketKeeps, FrameKeeps DEF JoinStep
<1>3. ASSUME NEW l \in Leaves, LeaveLookup(l) \/ LeaveStep(l)
      PROVE  RoomsInv'
  BY <1>3, LeaveLookupKeeps, LeaveFindKeeps, LeaveCloseKeeps, LeaveRemoveKeeps,
     LeaveCancelKeeps, LeaveDeleteKeeps DEF LeaveStep
<1>4. ASSUME NEW r \in DOMAIN rooms, FollowStep(r) \/ FollowBroken(r)
      PROVE  RoomsInv'
  BY <1>4, FollowerStops, FollowRecvKeeps, FanDoneKeeps, FanLockKeeps, FanWriteKeeps
     DEF FollowStep
<1>5. Quiet => UNCHANGED vars
  BY DEF Quiet
<1> QED BY <1>1, <1>2, <1>3, <1>4, <1>5 DEF Next

\* RoomsInv is an invariant of the rooms.
THEOREM RoomsInvHolds == Spec => []RoomsInv
BY RoomsInit, RoomsStep, PTL DEF Spec

\* Every variable keeps its type; a room fans out under its read lock, and a
\* participant's lock is held only by a follower that has its turn to come.
THEOREM RoomsTypeCorrect == Spec => []TypeOK
<1>1. RoomsInv => TypeOK
  BY TypeParts DEF RoomsInv
<1> QED BY RoomsInvHolds, <1>1, PTL

\* A participant is written the frames of the stream in order, each at most once
\* and none of its own, though several followers read the stream.
THEOREM FramesAreFannedInOrder == Spec => []FanOutInOrder
<1>1. RoomsInv => FanOutInOrder
  BY DEF RoomsInv
<1> QED BY RoomsInvHolds, <1>1, PTL

\* Whose socket was open when a frame was taken, and is at the end of its
\* fan-out, has the frame.
THEOREM ReadersGetFrames == Spec => []FramesReachReaders
<1>1. RoomsInv => FramesReachReaders
  BY DEF RoomsInv, DueAreServed, FramesReachReaders
<1> QED BY RoomsInvHolds, <1>1, PTL
=============================================================================
