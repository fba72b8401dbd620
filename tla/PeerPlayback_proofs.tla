------------------------- MODULE PeerPlayback_proofs -------------------------
(***************************************************************************)
(* Proofs about PeerPlayback, for any number of chunks and whether or not  *)
(* the browser's calls may throw.                                          *)
(*                                                                         *)
(* The argument: every chunk that arrives moves from hand to hand (played, *)
(* queued, lost by a throw) and the queue, which only grows at its end, is *)
(* in the order of arrival and later than all that was played out of it.   *)
(***************************************************************************)
EXTENDS PeerPlayback, SequenceTheorems, TLAPS

-----------------------------------------------------------------------------
(* What Append and Tail do to the elements of a sequence. *)

Increasing(s) == \A i, j \in DOMAIN s : i < j => s[i] < s[j]

LEMMA AppendElements ==
  ASSUME NEW S, NEW s \in Seq(S), NEW c \in S
  PROVE  /\ Append(s, c) \in Seq(S) /\ Len(Append(s, c)) = Len(s) + 1
         /\ DOMAIN s = 1 .. Len(s) /\ Len(s) \in Nat
         /\ DOMAIN Append(s, c) = 1 .. Len(s) + 1
         /\ \A i \in DOMAIN s : Append(s, c)[i] = s[i]
         /\ Append(s, c)[Len(s) + 1] = c
         /\ ToSet(Append(s, c)) = ToSet(s) \cup {c}
         /\ IsInjective(s) /\ c \notin ToSet(s) => IsInjective(Append(s, c))
<1> DEFINE t == Append(s, c)
<1>1. /\ t \in Seq(S) /\ Len(t) = Len(s) + 1 /\ DOMAIN s = 1 .. Len(s) /\ Len(s) \in Nat
      /\ \A i \in 1 .. Len(s) : t[i] = s[i]
      /\ t[Len(s) + 1] = c
  BY AppendProperties, LenProperties
<1>2. DOMAIN t = 1 .. Len(t)
  BY <1>1, LenProperties
<1> HIDE DEF t
<1>3. DOMAIN t = DOMAIN s \cup {Len(s) + 1} /\ Len(s) + 1 \notin DOMAIN s
  BY <1>1, <1>2
<1>4. ToSet(t) = ToSet(s) \cup {c}
  BY <1>1, <1>3 DEF ToSet
<1>5. ASSUME IsInjective(s), c \notin ToSet(s)
      PROVE  IsInjective(t)
  BY <1>1, <1>3, <1>5 DEF IsInjective, ToSet
<1> QED BY <1>1, <1>2, <1>4, <1>5 DEF t

LEMMA TailElements ==
  ASSUME NEW S, NEW s \in Seq(S), Len(s) > 0
  PROVE  /\ Head(s) \in S /\ Head(s) \in ToSet(s)
         /\ Tail(s) \in Seq(S) /\ Len(Tail(s)) = Len(s) - 1 /\ Len(s) \in Nat
         /\ ToSet(s) = ToSet(Tail(s)) \cup {Head(s)}
         /\ IsInjective(s) => IsInjective(Tail(s)) /\ Head(s) \notin ToSet(Tail(s))
         /\ Increasing(s) => /\ Increasing(Tail(s))
                             /\ \A d \in ToSet(Tail(s)) : Head(s) < d
<1> DEFINE t == Tail(s)
<1>1. s # << >> /\ DOMAIN s = 1 .. Len(s) /\ Len(s) \in Nat
  BY LenProperties, EmptySeq
<1>2. /\ Head(s) = s[1] /\ 1 \in DOMAIN s /\ Head(s) \in S
      /\ t \in Seq(S) /\ Len(t) = Len(s) - 1
      /\ \A i \in 1 .. Len(t) : t[i] = s[i + 1]
  BY <1>1, HeadTailProperties
<1>3. DOMAIN t = 1 .. Len(t)
  BY <1>2, LenProperties
<1> HIDE DEF t
<1>4. /\ \A i \in DOMAIN t : i + 1 \in DOMAIN s /\ i + 1 # 1 /\ t[i] = s[i + 1] /\ 1 < i + 1
      /\ \A k \in DOMAIN s : k # 1 => k - 1 \in DOMAIN t /\ t[k - 1] = s[k]
      /\ \A i, j \in DOMAIN t : /\ i + 1 = j + 1 => i = j
                               /\ i < j => i + 1 < j + 1
  <2>1. \A i \in DOMAIN t : i \in 1 .. Len(s) - 1 /\ i \in Nat
    BY <1>1, <1>2, <1>3
  <2>2. \A i \in DOMAIN t : i + 1 \in DOMAIN s /\ i + 1 # 1 /\ 1 < i + 1
    BY <1>1, <2>1
  <2>3. \A i \in DOMAIN t : t[i] = s[i + 1]
    BY <1>2, <1>3
  <2>4. \A i, j \in DOMAIN t : (i + 1 = j + 1 => i = j) /\ (i < j => i + 1 < j + 1)
    BY <2>1
  <2>5. ASSUME NEW k \in DOMAIN s, k # 1
        PROVE  k - 1 \in DOMAIN t /\ t[k - 1] = s[k]
    <3>1. k - 1 \in 1 .. Len(t) /\ (k - 1) + 1 = k
      BY <1>1, <1>2, <2>5
    <3> QED BY <1>2, <1>3, <3>1
  <2> QED BY <2>2, <2>3, <2>4, <2>5
<1>5. Head(s) \in ToSet(s)
  BY <1>2 DEF ToSet
<1>6. ToSet(s) = ToSet(t) \cup {Head(s)}
  <2>1. ToSet(s) \subseteq ToSet(t) \cup {Head(s)}
    BY <1>2, <1>4 DEF ToSet
  <2>2. ToSet(t) \subseteq ToSet(s)
    BY <1>4 DEF ToSet
  <2> QED BY <2>1, <2>2, <1>5
<1>7. ASSUME IsInjective(s)
      PROVE  IsInjective(t) /\ Head(s) \notin ToSet(t)
  BY <1>2, <1>4, <1>7 DEF IsInjective, ToSet
<1>8. ASSUME Increasing(s)
      PROVE  Increasing(t) /\ \A d \in ToSet(t) : Head(s) < d
  <2>1. Increasing(t)
    BY <1>4, <1>8 DEF Increasing
  <2>2. \A i \in DOMAIN t : Head(s) < t[i]
    BY <1>2, <1>4, <1>8 DEF Increasing
  <2> QED BY <2>1, <2>2 DEF ToSet
<1> QED BY <1>1, <1>2, <1>5, <1>6, <1>7, <1>8 DEF t

-----------------------------------------------------------------------------
(* The inductive invariant. *)

\* Every update of the buffer comes from one chunk.
UpdatesAreCounted ==
  (IF buffer = "updating" THEN 1 ELSE 0) + updateEnds <= Len(appended)

ChunksAreCounted == Len(appended) + Len(pendingChunks) <= received

OvertakersAreDirect ==
  \A i, j \in DOMAIN appended :
    i < j /\ appended[i] > appended[j] => appended[i] \in direct

QueuedComeLater ==
  \A c \in ToSet(appended) \ direct, d \in ToSet(pendingChunks) : c < d

PlayInv ==
  /\ TypeOK /\ UpdatesAreCounted /\ ChunksAreCounted
  /\ ChunksAreKept
  /\ OvertakersAreDirect /\ Increasing(pendingChunks) /\ QueuedComeLater

LEMMA OvertakenParts ==
  OvertakenByArrivalsOnly
    <=> OvertakersAreDirect /\ Increasing(pendingChunks) /\ QueuedComeLater
BY DEF OvertakenByArrivalsOnly, OvertakersAreDirect, Increasing, QueuedComeLater

\* The order of what was played with one chunk more: those after which it comes
\* although they arrived later went past the queue.
LEMMA PlayedGrows ==
  ASSUME TypeOK, OvertakersAreDirect, NEW c \in Chunk, NEW D,
         direct \subseteq D, \A b \in ToSet(appended) : b > c => b \in D
  PROVE  LET t == Append(appended, c)
         IN \A i, j \in DOMAIN t : i < j /\ t[i] > t[j] => t[i] \in D
<1> DEFINE t == Append(appended, c)
<1>1. /\ DOMAIN appended = 1 .. Len(appended) /\ Len(appended) \in Nat
      /\ DOMAIN t = 1 .. Len(appended) + 1
      /\ \A i \in DOMAIN appended : t[i] = appended[i]
      /\ t[Len(appended) + 1] = c
  BY AppendElements DEF TypeOK
<1> HIDE DEF t
<1>2. \A i \in DOMAIN appended : appended[i] \in ToSet(appended)
  BY DEF ToSet
<1> SUFFICES ASSUME NEW i \in DOMAIN t, NEW j \in DOMAIN t, i < j, t[i] > t[j]
             PROVE  t[i] \in D
  BY DEF t
<1>3. i \in DOMAIN appended
  BY <1>1
<1>4. CASE j \in DOMAIN appended
  BY <1>1, <1>3, <1>4 DEF OvertakersAreDirect
<1>5. CASE j = Len(appended) + 1
  BY <1>1, <1>2, <1>3, <1>5
<1> QED BY <1>1, <1>4, <1>5

-----------------------------------------------------------------------------
(* The steps. *)

LEMMA MessageKeeps ==
  ASSUME PlayInv, Message
  PROVE  PlayInv'
<1> DEFINE c == received + 1
<1>1. /\ received \in Nat /\ c \in Chunk /\ received' = c
      /\ source' = source /\ updateEnds' = updateEnds /\ lost' = lost
      /\ Feed(c) /\ 1 .. c = 1 .. received \cup {c} /\ c \notin 1 .. received
      /\ \A b \in 1 .. received : b < c /\ ~(b > c)
      /\ received' \in 0 .. MaxChunks
  BY PeerPlaybackAssumption DEF PlayInv, TypeOK, Message, Chunk
<1>2. /\ appended \in Seq(Chunk) /\ pendingChunks \in Seq(Chunk)
      /\ Len(appended) \in Nat /\ Len(pendingChunks) \in Nat
      /\ updateEnds \in Nat
  BY LenProperties DEF PlayInv, TypeOK
<1>3. /\ ToSet(appended) \subseteq 1 .. received /\ ToSet(pendingChunks) \subseteq 1 .. received
      /\ lost \subseteq 1 .. received
  BY DEF PlayInv, ChunksAreKept
<1>4. c \notin ToSet(appended) /\ c \notin ToSet(pendingChunks) /\ c \notin lost
  BY <1>1, <1>3
<1> HIDE DEF c
<1>5. CASE CanAppend /\ AppendBuffer(c) /\ direct' = direct \cup {c} /\ UNCHANGED pendingChunks
  <2>1. /\ buffer = "idle" /\ buffer' = "updating" /\ appended' = Append(appended, c)
        /\ direct' = direct \cup {c} /\ pendingChunks' = pendingChunks
    BY <1>5 DEF CanAppend, AppendBuffer
  <2>2. /\ appended' \in Seq(Chunk) /\ Len(appended') = Len(appended) + 1
        /\ ToSet(appended') = ToSet(appended) \cup {c} /\ IsInjective(appended')
    BY <1>1, <1>2, <1>4, <2>1, AppendElements DEF PlayInv, ChunksAreKept
  <2>3. TypeOK'
    BY <1>1, <1>2, <2>1, <2>2 DEF PlayInv, TypeOK
  <2>4. UpdatesAreCounted' /\ ChunksAreCounted'
    BY <1>1, <1>2, <2>1, <2>2
       DEF PlayInv, UpdatesAreCounted, ChunksAreCounted, c
  <2>5. ChunksAreKept'
    BY <1>1, <1>4, <2>1, <2>2 DEF PlayInv, ChunksAreKept
  <2>6. OvertakersAreDirect'
    <3>1. \A b \in ToSet(appended) : b > c => b \in direct'
      BY <1>1, <1>3
    <3> QED BY <1>1, <2>1, <3>1, PlayedGrows DEF PlayInv, OvertakersAreDirect
  <2>7. Increasing(pendingChunks)' /\ QueuedComeLater'
    BY <2>1, <2>2 DEF PlayInv, Increasing, QueuedComeLater
  <2> QED BY <2>3, <2>4, <2>5, <2>6, <2>7 DEF PlayInv
<1>6. CASE Enqueue(c) /\ UNCHANGED <<buffer, appended, direct>>
  <2>1. /\ pendingChunks' = Append(pendingChunks, c)
        /\ buffer' = buffer /\ appended' = appended /\ direct' = direct
    BY <1>6 DEF Enqueue
  <2>2. /\ pendingChunks' \in Seq(Chunk) /\ Len(pendingChunks') = Len(pendingChunks) + 1
        /\ ToSet(pendingChunks') = ToSet(pendingChunks) \cup {c}
        /\ IsInjective(pendingChunks')
    BY <1>1, <1>2, <1>4, <2>1, AppendElements DEF PlayInv, ChunksAreKept
  <2>3. TypeOK'
    BY <1>1, <1>2, <2>1, <2>2 DEF PlayInv, TypeOK
  <2>4. UpdatesAreCounted' /\ ChunksAreCounted'
    BY <1>1, <1>2, <2>1, <2>2 DEF PlayInv, UpdatesAreCounted, ChunksAreCounted, c
  <2>5. ChunksAreKept'
    BY <1>1, <1>4, <2>1, <2>2 DEF PlayInv, ChunksAreKept
  <2>6. Increasing(pendingChunks')
    <3>1. /\ DOMAIN pendingChunks = 1 .. Len(pendingChunks)
          /\ DOMAIN pendingChunks' = 1 .. Len(pendingChunks) + 1
          /\ \A i \in DOMAIN pendingChunks : pendingChunks'[i] = pendingChunks[i]
          /\ pendingChunks'[Len(pendingChunks) + 1] = c
      BY <1>1, <1>2, <2>1, AppendElements
    <3>2. \A i \in DOMAIN pendingChunks : pendingChunks[i] < c
      BY <1>1, <1>3 DEF ToSet
    <3> QED BY <1>2, <3>1, <3>2 DEF PlayInv, Increasing
  <2>7. OvertakersAreDirect' /\ QueuedComeLater'
    BY <1>1, <1>3, <2>1, <2>2 DEF PlayInv, OvertakersAreDirect, QueuedComeLater
  <2> QED BY <2>3, <2>4, <2>5, <2>6, <2>7 DEF PlayInv
<1> QED BY <1>1, <1>5, <1>6 DEF Feed

LEMMA SourceOpenKeeps ==
  ASSUME PlayInv, SourceOpen
  PROVE  PlayInv'
<1>1. /\ source = "closed" /\ source' = "open" /\ buffer' \in {buffer, "idle"}
      /\ UNCHANGED <<updateEnds, pendingChunks, received, appended, direct, lost>>
  BY DEF SourceOpen
<1>2. updateEnds \in Nat /\ buffer = "null" /\ Len(appended) \in Nat
  BY <1>1, LenProperties DEF PlayInv, TypeOK
<1>3. TypeOK' /\ UpdatesAreCounted' /\ ChunksAreCounted'
  BY <1>1, <1>2 DEF PlayInv, TypeOK, UpdatesAreCounted, ChunksAreCounted
<1> QED BY <1>1, <1>3
        DEF PlayInv, ChunksAreKept, OvertakersAreDirect, Increasing, QueuedComeLater

LEMMA AppendDoneKeeps ==
  ASSUME PlayInv, AppendDone
  PROVE  PlayInv'
<1>1. /\ buffer = "updating" /\ buffer' = "idle" /\ updateEnds' = updateEnds + 1
      /\ UNCHANGED <<source, pendingChunks, received, appended, direct, lost>>
  BY DEF AppendDone
<1>2. /\ updateEnds \in Nat /\ Len(appended) \in Nat /\ Len(pendingChunks) \in Nat
      /\ received \in 0 .. MaxChunks /\ source = "open"
  BY <1>1, LenProperties DEF PlayInv, TypeOK
<1>3. UpdatesAreCounted' /\ ChunksAreCounted'
  BY <1>1, <1>2 DEF PlayInv, UpdatesAreCounted, ChunksAreCounted
<1>4. updateEnds' \in 0 .. MaxChunks
  BY <1>1, <1>2, PeerPlaybackAssumption DEF PlayInv, UpdatesAreCounted, ChunksAreCounted
<1>5. TypeOK'
  BY <1>1, <1>2, <1>4 DEF PlayInv, TypeOK
<1> QED BY <1>1, <1>3, <1>5
        DEF PlayInv, ChunksAreKept, OvertakersAreDirect, Increasing, QueuedComeLater

LEMMA UpdateEndKeeps ==
  ASSUME PlayInv, UpdateEnd
  PROVE  PlayInv'
<1> DEFINE h == Head(pendingChunks)
<1>1. /\ updateEnds > 0 /\ updateEnds' = updateEnds - 1
      /\ source' = source /\ received' = received /\ direct' = direct
  BY DEF UpdateEnd
<1>2. /\ appended \in Seq(Chunk) /\ pendingChunks \in Seq(Chunk)
      /\ Len(appended) \in Nat /\ Len(pendingChunks) \in Nat
      /\ updateEnds \in Nat /\ updateEnds' \in Nat /\ received \in Nat
      /\ updateEnds' \in 0 .. MaxChunks
  BY <1>1, LenProperties, PeerPlaybackAssumption DEF PlayInv, TypeOK
<1>3. CASE UNCHANGED <<buffer, appended, pendingChunks, lost>>
  <2>1. TypeOK' /\ UpdatesAreCounted' /\ ChunksAreCounted'
    BY <1>1, <1>2, <1>3 DEF PlayInv, TypeOK, UpdatesAreCounted, ChunksAreCounted
  <2> QED BY <1>1, <1>3, <2>1
          DEF PlayInv, ChunksAreKept, OvertakersAreDirect, Increasing, QueuedComeLater
<1>4. CASE HasPending /\ CanAppend
  <2>1. /\ Len(pendingChunks) > 0 /\ buffer = "idle" /\ pendingChunks' = Tail(pendingChunks)
        /\ \/ buffer' = "updating" /\ appended' = Append(appended, h) /\ lost' = lost
           \/ lost' = lost \cup {h} /\ buffer' = buffer /\ appended' = appended
    BY <1>4 DEF UpdateEnd, HasPending, CanAppend, AppendBuffer
  <2>2. /\ h \in Chunk /\ h \in ToSet(pendingChunks) /\ h \in Nat
        /\ pendingChunks' \in Seq(Chunk) /\ Len(pendingChunks') = Len(pendingChunks) - 1
        /\ ToSet(pendingChunks) = ToSet(pendingChunks') \cup {h}
        /\ IsInjective(pendingChunks') /\ h \notin ToSet(pendingChunks')
        /\ Increasing(pendingChunks') /\ \A d \in ToSet(pendingChunks') : h < d
    <3>1. IsInjective(pendingChunks) /\ Increasing(pendingChunks)
      BY DEF PlayInv, ChunksAreKept
    <3>2. h \in Chunk
      BY <1>2, <2>1, TailElements
    <3>3. h \in Nat
      BY <3>2 DEF Chunk
    <3> QED BY <1>2, <2>1, <3>1, <3>2, <3>3, TailElements
  <2>3. h \notin ToSet(appended) /\ h \notin lost
    BY <2>2 DEF PlayInv, ChunksAreKept
  <2> HIDE DEF h
  <2>4. CASE buffer' = "updating" /\ appended' = Append(appended, h) /\ lost' = lost
    <3>1. /\ appended' \in Seq(Chunk) /\ Len(appended') = Len(appended) + 1
          /\ ToSet(appended') = ToSet(appended) \cup {h} /\ IsInjective(appended')
      BY <1>2, <2>2, <2>3, <2>4, AppendElements DEF PlayInv, ChunksAreKept
    <3>2. TypeOK'
      BY <1>1, <1>2, <2>1, <2>2, <2>4, <3>1 DEF PlayInv, TypeOK
    <3>3. UpdatesAreCounted' /\ ChunksAreCounted'
      BY <1>1, <1>2, <2>1, <2>2, <2>4, <3>1 DEF PlayInv, UpdatesAreCounted, ChunksAreCounted
    <3>4. ChunksAreKept'
      BY <1>1, <2>2, <2>3, <2>4, <3>1 DEF PlayInv, ChunksAreKept
    <3>5. OvertakersAreDirect'
      <4>1. ToSet(appended) \subseteq Nat
        BY DEF PlayInv, ChunksAreKept
      <4>2. \A b \in ToSet(appended) : b > h => b \in direct
        BY <2>2, <4>1 DEF PlayInv, QueuedComeLater
      <4> QED BY <1>1, <2>2, <2>4, <4>2, PlayedGrows DEF PlayInv, OvertakersAreDirect
    <3>6. QueuedComeLater'
      BY <1>1, <2>2, <3>1 DEF PlayInv, QueuedComeLater
    <3> QED BY <2>2, <3>2, <3>3, <3>4, <3>5, <3>6 DEF PlayInv
  <2>5. CASE lost' = lost \cup {h} /\ buffer' = buffer /\ appended' = appended
    <3>1. TypeOK'
      BY <1>1, <1>2, <2>1, <2>2, <2>5 DEF PlayInv, TypeOK
    <3>2. UpdatesAreCounted' /\ ChunksAreCounted'
      BY <1>1, <1>2, <2>1, <2>2, <2>5 DEF PlayInv, UpdatesAreCounted, ChunksAreCounted
    <3>3. ChunksAreKept'
      BY <1>1, <2>2, <2>3, <2>5 DEF PlayInv, ChunksAreKept
    <3>4. OvertakersAreDirect' /\ QueuedComeLater'
      BY <1>1, <2>2, <2>5 DEF PlayInv, OvertakersAreDirect, QueuedComeLater
    <3> QED BY <2>2, <3>1, <3>2, <3>3, <3>4 DEF PlayInv
  <2> QED BY <2>1, <2>4, <2>5
<1> QED BY <1>3, <1>4 DEF UpdateEnd

-----------------------------------------------------------------------------
(* The theorems. *)

LEMMA PlayInit == Init => PlayInv
<1> SUFFICES ASSUME Init
             PROVE  PlayInv
  OBVIOUS
<1>1. /\ << >> \in Seq(Chunk) /\ Len(<< >>) = 0 /\ DOMAIN << >> = {}
  BY EmptySeq
<1>2. ToSet(<< >>) = {} /\ 1 .. 0 = {}
  BY <1>1 DEF ToSet
<1>3. TypeOK /\ UpdatesAreCounted /\ ChunksAreCounted
  BY <1>1, PeerPlaybackAssumption DEF Init, TypeOK, UpdatesAreCounted, ChunksAreCounted
<1>4. ChunksAreKept
  BY <1>1, <1>2 DEF Init, ChunksAreKept, IsInjective
<1>5. OvertakersAreDirect /\ Increasing(pendingChunks) /\ QueuedComeLater
  BY <1>1, <1>2 DEF Init, OvertakersAreDirect, Increasing, QueuedComeLater
<1> QED BY <1>3, <1>4, <1>5 DEF PlayInv

\* PlayInv is an invariant of the playback of a peer.
THEOREM PlayInvHolds == Spec => []PlayInv
<1>1. PlayInv /\ [Next]_vars => PlayInv'
  <2> SUFFICES ASSUME PlayInv, [Next]_vars
               PROVE  PlayInv'
    OBVIOUS
  <2>1. CASE UNCHANGED vars
    BY <2>1 DEF vars, PlayInv, TypeOK, UpdatesAreCounted, ChunksAreCounted, ChunksAreKept,
                OvertakersAreDirect, Increasing, QueuedComeLater
  <2> QED BY <2>1, MessageKeeps, SourceOpenKeeps, AppendDoneKeeps, UpdateEndKeeps
          DEF Next, Browser
<1> QED BY PlayInit, <1>1, PTL DEF Spec

\* Every variable keeps its type, and there is a buffer only in an open source.
THEOREM PlaybackTypeCorrect == Spec => []TypeOK
<1>1. PlayInv => TypeOK
  BY DEF PlayInv
<1> QED BY PlayInvHolds, <1>1, PTL

\* A chunk that arrived is played, queued or lost by an append that threw: one
\* of them, and once.
THEOREM NoChunkIsForgotten == Spec => []ChunksAreKept
<1>1. PlayInv => ChunksAreKept
  BY DEF PlayInv
<1> QED BY PlayInvHolds, <1>1, PTL

\* Only a chunk that arrived while the buffer was idle overtakes others; queued
\* chunks never overtake each other.
THEOREM OnlyArrivalsOvertake == Spec => []OvertakenByArrivalsOnly
<1>1. PlayInv => OvertakenByArrivalsOnly
  BY OvertakenParts DEF PlayInv
<1> QED BY PlayInvHolds, <1>1, PTL
=============================================================================
