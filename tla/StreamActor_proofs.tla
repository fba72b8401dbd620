------------------------- MODULE StreamActor_proofs -------------------------
(***************************************************************************)
(* What clients of a stream may rely on, for every number of appends and   *)
(* followers, every size of the buffers, every start and every failure.    *)
(*                                                                         *)
(* The invariant has the same two layers as that of DurableStream, whose   *)
(* lemmas are cited as D!...: ActorInv holds whatever fails, LogInv needs  *)
(* SafeFaults.  ActorInv places everything a follower has got and still    *)
(* will get in one order: what was sent, what the task holds, what is left *)
(* to backfill, what of the broadcast is unread, the next number.  LogInv  *)
(* says that nothing is missing in between.                                *)
(***************************************************************************)
EXTENDS StreamActor, SequenceTheorems, TLAPS

D == INSTANCE DurableStream_proofs WITH Data <- Appends

-----------------------------------------------------------------------------
(* The inductive invariant. *)

\* The task runs.
On(f) == follower[f].phase \in {"running", "reading", "sending"}

\* The number the next broadcast will have, or a higher one.
NextNum == IF pc = "applying" THEN batch.record.seq_num ELSE alloc.next

\* The record the task waits to send, if it is not an error.
Holding(f) == {follower[f].held} \ {Err, None}

\* Without an actor nobody talks to one.
QuietWithoutActor ==
  ~HasActor =>
    inbox = << >> /\ bcast = << >> /\ \A f \in Followers : follower[f] = NotFollowing

\* A command in the mailbox is one its sender waits for, the only one of it; a
\* read_follow that was dropped leaves its subscription behind.
MailboxFits ==
  /\ \A i \in DOMAIN inbox :
       /\ inbox[i].kind = "read" =>
            /\ follower[inbox[i].from].phase = "reading"
            /\ follower[inbox[i].from].cursor = inbox[i].seq_num
       /\ inbox[i].kind = "subscribe" =>
            follower[inbox[i].from].phase \in {"subscribing", "ended"}
  /\ \A i, j \in DOMAIN inbox :
       /\ inbox[i].kind # "append" /\ inbox[j].kind # "append"
       /\ inbox[i].from = inbox[j].from
       => i = j

\* Broadcasts are in the order of their numbers, below the next one.
BroadcastInOrder ==
  /\ \A i, j \in DOMAIN bcast : i < j => bcast[i].seq_num < bcast[j].seq_num
  /\ \A i \in DOMAIN bcast : bcast[i].seq_num < NextNum

\* A follow has sent nothing before it runs, no error before it ends, and goes
\* from a start it was given.
SentInPhase(f) ==
  /\ follower[f].phase # "idle" => follower[f].start \in Starts
  /\ follower[f].phase \in {"idle", "subscribing"} => follower[f].sent = << >>
  /\ follower[f].phase # "ended" => \A i \in DOMAIN follower[f].sent : follower[f].sent[i] # Err

\* Where a running task stands between its start, its tail and the broadcast.
Position(f) ==
  /\ follower[f].start <= follower[f].cursor
  /\ follower[f].next <= NextNum
  /\ follower[f].phase = "reading" => Backfilling(f)
  /\ \A r \in Holding(f) :
       /\ r.seq_num < NextNum
       /\ Backfilling(f) => r.seq_num = follower[f].cursor
       /\ ~Backfilling(f) =>
            /\ follower[f].pos > 0 /\ r = bcast[follower[f].pos]
            /\ follower[f].next <= r.seq_num

\* Record r lies below all that the task has still to send.
Behind(f, r) ==
  /\ r.seq_num < NextNum
  /\ Backfilling(f) => r.seq_num < follower[f].cursor
  /\ \A h \in Holding(f) : r.seq_num < h.seq_num
  /\ \A k \in DOMAIN bcast :
       follower[f].pos < k /\ follower[f].next <= bcast[k].seq_num
         => r.seq_num < bcast[k].seq_num

\* The next number is in reach of the bound on those used.
NextInRange == HasActor => NextNum <= MaxSeqNum + BlockSize + 1

FollowInv(f) ==
  /\ SentInPhase(f)
  /\ On(f) => Position(f) /\ \A r \in RecordsSent(f) : Behind(f, r)

ActorInv ==
  /\ D!StoreInv
  /\ TypeOK
  /\ QuietWithoutActor
  /\ MailboxFits
  /\ BroadcastInOrder
  /\ NextInRange
  /\ \A f \in Followers : FollowInv(f)

\* What is broadcast was acknowledged.
BroadcastAcked == \A i \in DOMAIN bcast : bcast[i] \in acked

\* What a follower has got is in storage.
SentStored(f) ==
  \A r \in RecordsSent(f) \cup Holding(f) :
    r.seq_num \in DOMAIN records /\ records[r.seq_num] = r

\* A running task has sent what is stored from its start up to its cursor, and
\* what it took of the broadcast; all acknowledged since it subscribed is there.
NothingMissed(f) ==
  /\ \A n \in DOMAIN records :
       follower[f].start <= n /\ n < follower[f].cursor /\ n < follower[f].next
         => records[n] \in RecordsSent(f)
  /\ \A k \in DOMAIN bcast :
       k <= follower[f].pos /\ follower[f].next <= bcast[k].seq_num
         => bcast[k] \in RecordsSent(f) \cup Holding(f)
  /\ \A r \in acked :
       follower[f].next <= r.seq_num => \E k \in DOMAIN bcast : bcast[k] = r

LogInv ==
  /\ D!OrderInv
  /\ BroadcastAcked
  /\ \A f \in Followers : SentStored(f) /\ (On(f) => NothingMissed(f))

-----------------------------------------------------------------------------
(* The mailbox and the stream below. *)

\* The command served is the first, and it says who asked.
LEMMA CommandServed ==
  ASSUME TypeOK, NEW kind, Takes(kind)
  PROVE  /\ pc = "ready" /\ 1 \in DOMAIN inbox
         /\ Head(inbox) = inbox[1] /\ inbox[1].kind = kind
         /\ kind = "append" => inbox[1].from \in Appends
         /\ kind = "read" => inbox[1].from \in Followers /\ inbox[1].seq_num \in Nat
         /\ kind = "subscribe" => inbox[1].from \in Followers
         /\ Tail(inbox) \in Seq(Command)
         /\ Len(Tail(inbox)) = Len(inbox) - 1
         /\ DOMAIN Tail(inbox) = 1 .. Len(inbox) - 1
         /\ \A i \in DOMAIN Tail(inbox) : i + 1 \in DOMAIN inbox /\ Tail(inbox)[i] = inbox[i + 1]
<1>1. /\ pc = "ready" /\ inbox # << >> /\ Head(inbox).kind = kind
      /\ inbox \in Seq(Command)
  BY DEF Takes, TypeOK
<1>2. /\ Tail(inbox) \in Seq(Command) /\ Len(Tail(inbox)) = Len(inbox) - 1
      /\ \A i \in 1 .. Len(Tail(inbox)) : Tail(inbox)[i] = inbox[i + 1]
      /\ Len(inbox) \in Nat \ {0}
  BY <1>1, HeadTailProperties, EmptySeq
<1>3. Head(inbox) = inbox[1] /\ inbox[1] \in Command /\ 1 \in DOMAIN inbox
  BY <1>1, <1>2
<1>4. /\ kind = "append" => inbox[1].from \in Appends
      /\ kind = "read" => inbox[1].from \in Followers /\ inbox[1].seq_num \in Nat
      /\ kind = "subscribe" => inbox[1].from \in Followers
  BY <1>1, <1>3 DEF Command
<1> QED BY <1>1, <1>2, <1>3, <1>4

\* Every step of the actor and its clients is a step of the stream or leaves it
\* as it is.
LEMMA StreamSteps ==
  ASSUME TypeOK, [Next]_vars
  PROVE  [D!Next]_(D!vars)
<1>1. CASE Open
  BY <1>1 DEF Open, D!Next, S!NewMetadata, S!NewBlock, S!InterruptedNew, S!Load,
       D!NewMetadata, D!NewBlock, D!InterruptedNew, D!Load, S!stored, D!stored,
       S!DefaultAllocator, D!DefaultAllocator, S!FromBlock, D!FromBlock,
       S!NextBase, D!NextBase
<1>2. CASE ServeAppend
  <2>1. S!StartAppend(inbox[1].from) /\ inbox[1].from \in Appends
    BY <1>2, CommandServed DEF ServeAppend
  <2>2. D!StartAppend(inbox[1].from)
    BY <2>1 DEF S!StartAppend, D!StartAppend, S!stored, D!stored,
       S!Allocate, D!Allocate, S!BlockToPersist, D!BlockToPersist, S!Rolls, D!Rolls,
       S!Remaining, D!Remaining, S!NextBase, D!NextBase, S!Following, D!Following
  <2> QED BY <2>1, <2>2 DEF D!Next
<1>3. CASE FinishAppend
  BY <1>3 DEF FinishAppend, S!AppendOk, D!AppendOk, S!Applied, D!Applied, D!Next
<1>4. CASE FailAppend
  BY <1>4 DEF FailAppend, S!AppendFailed, D!AppendFailed, S!FailedApply, D!FailedApply,
              S!Applied, D!Applied, S!stored, D!stored, D!Next
<1>5. CASE Crash
  BY <1>5 DEF Crash, S!Crash, D!Crash, S!Applied, D!Applied, S!stored, D!stored, D!Next
<1>6. CASE UNCHANGED streamVars
  BY <1>6 DEF streamVars, D!vars
<1>7. \/ Open \/ ServeAppend \/ FinishAppend \/ FailAppend \/ Crash
      \/ UNCHANGED streamVars
  BY DEF Next, vars, Actor, ServeRead, ServeSubscribe, Settled, SendAppend, CancelAppend,
         Follow, Task, SendRead, Receive, Send, ClientTakes, Disconnect
<1> QED BY <1>1, <1>2, <1>3, <1>4, <1>5, <1>6, <1>7

\* The stream starts as DurableStream says.
LEMMA StreamInit == Init => D!Init
BY DEF Init, S!Init, D!Init

\* What the stream's invariant says of the numbers.
LEMMA StreamFacts ==
  ASSUME D!StoreInv
  PROVE  /\ S!TypeOK
         /\ HasActor => NextNum \in Nat
         /\ pc = "ready" => NextNum = alloc.next
         /\ pc = "applying" =>
              /\ batch.record \in S!Record /\ NextNum = batch.record.seq_num
              /\ alloc.next = NextNum + 1 /\ NextNum <= MaxSeqNum
         /\ \A s \in DOMAIN records :
              s \in 0 .. MaxSeqNum /\ records[s] \in S!Record /\ records[s].seq_num = s
         /\ acked \subseteq S!Record
<1>1. S!TypeOK
  BY DEF D!StoreInv, D!TypeOK, S!TypeOK, D!Record, S!Record, D!Batch, S!Batch,
         D!Allocator, S!Allocator, D!SeqBlock, S!SeqBlock
<1>2. /\ pc = "ready" => NextNum = alloc.next /\ alloc.next \in Nat
      /\ pc = "applying" => batch.record \in S!Record /\ NextNum = batch.record.seq_num
                            /\ NextNum \in Nat
  BY <1>1 DEF S!TypeOK, S!Allocator, S!Batch, S!Record, NextNum
<1>3. /\ pc = "applying" => alloc.next = NextNum + 1 /\ NextNum <= MaxSeqNum
      /\ \A s \in DOMAIN records : records[s].seq_num = s
  BY DEF D!StoreInv, D!BatchInFlight, D!RecordsKeyed, NextNum
<1> QED BY <1>1, <1>2, <1>3 DEF HasActor, S!TypeOK

\* The stream's invariant is kept, and with it the types of its variables.
LEMMA StoreKept ==
  ASSUME D!StoreInv, TypeOK, [Next]_vars
  PROVE  D!StoreInv' /\ S!TypeOK'
<1>1. D!StoreInv'
  BY StreamSteps, D!StoreInvStep, StreamAssumption
     DEF S!SeqBlock, D!SeqBlock, S!FaultKinds, D!FaultKinds
<1>2. S!TypeOK'
  BY <1>1 DEF D!StoreInv, D!TypeOK, S!TypeOK, D!Record, S!Record, D!Batch, S!Batch,
              D!Allocator, S!Allocator, D!SeqBlock, S!SeqBlock
<1> QED BY <1>1, <1>2

-----------------------------------------------------------------------------
(* Types. *)

\* The part of TypeOK about one follow: a task that sends has something to
\* send, its receiver is in the broadcast and its channel is not over-full.
Fits(f) ==
  /\ (follower[f].held # None) <=> (follower[f].phase = "sending")
  /\ follower[f].pos <= Len(bcast)
  /\ follower[f].taken <= Len(follower[f].sent)
  /\ Len(follower[f].sent) - follower[f].taken <= CommandBuffer

\* A follow that has not begun fits.
LEMMA NotFollowingFits ==
  /\ NotFollowing \in Follower
  /\ NotFollowing.held = None /\ NotFollowing.phase = "idle"
  /\ NotFollowing.pos = 0 /\ NotFollowing.taken = 0 /\ NotFollowing.sent = << >>
BY DEF NotFollowing, Follower

\* A step of one follow leaves the types in place.
LEMMA FollowTypes ==
  ASSUME follower \in [Followers -> Follower],
         bcast \in Seq(S!Record), S!TypeOK,
         NEW f \in Followers, Fits(f),
         \/ \E start \in Starts : Follow(f, start)
         \/ Task(f) \/ ClientTakes(f) \/ Disconnect(f)
  PROVE  /\ follower' \in [Followers -> Follower]
         /\ Fits(f)'
         /\ \A g \in Followers \ {f} : follower'[g] = follower[g]
         /\ bcast' = bcast
<1> DEFINE Rest == /\ \A g \in Followers \ {f} : follower'[g] = follower[g]
                   /\ bcast' = bcast
<1>0. Starts \subseteq Nat /\ Err # None /\ Err \notin S!Record /\ None \notin S!Record
  BY StreamActorAssumption, StreamAssumption
<1>1. ASSUME NEW start \in Starts, Follow(f, start)
      PROVE  follower' \in [Followers -> Follower] /\ Fits(f)' /\ Rest
  <2>1. follower' \in [Followers -> Follower]
    <3> DEFINE x == [follower[f] EXCEPT !.phase = "subscribing", !.start = start]
    <3>1. follower' = [follower EXCEPT ![f] = x]
      BY <1>1 DEF Follow
    <3>2. x \in Follower
      BY DEF Follower
    <3> HIDE DEF x
    <3> QED BY <3>1, <3>2
  <2>2. Rest
    BY <1>1 DEF Follow
  <2>3. /\ follower'[f].held = follower[f].held /\ follower'[f].pos = follower[f].pos
        /\ follower'[f].taken = follower[f].taken /\ follower'[f].sent = follower[f].sent
        /\ follower'[f].phase # "sending" /\ follower[f].phase # "sending"
    BY <1>1 DEF Follow, Follower
  <2> QED BY <2>1, <2>2, <2>3 DEF Fits
<1>2. CASE SendRead(f)
  BY <1>2 DEF SendRead, Follower, Fits
<1>3. CASE Receive(f)
  <2> DEFINE record == bcast[follower[f].pos + 1]
  <2>1. /\ follower[f].pos \in Nat /\ follower[f].pos + 1 \in 1 .. Len(bcast)
        /\ record \in S!Record /\ follower[f].phase = "running"
    BY <1>3 DEF Receive, Follower
  <2>2. \/ follower' = [follower EXCEPT ![f].phase = "sending", ![f].held = Err]
        \/ follower' = [follower EXCEPT ![f].pos = @ + 1, ![f].phase = "sending",
                                        ![f].held = record]
        \/ follower' = [follower EXCEPT ![f].pos = @ + 1,
                                        ![f].phase = @, ![f].held = @]
    BY <1>3 DEF Receive, Lag
  <2> HIDE DEF record
  <2> DEFINE p == follower[f].pos + 1
             lagged == [follower[f] EXCEPT !.phase = "sending", !.held = Err]
             relays == [follower[f] EXCEPT !.pos = p, !.phase = "sending", !.held = record]
             drops  == [follower[f] EXCEPT !.pos = p]
  <2>3. follower' \in [Followers -> Follower]
    <3>1. \E x \in {lagged, relays, drops} : follower' = [follower EXCEPT ![f] = x]
      BY <2>2 DEF Follower
    <3>2. p \in Nat
      BY <2>1
    <3>3. lagged \in Follower /\ relays \in Follower /\ drops \in Follower
      <4> HIDE DEF p
      <4> QED BY <2>1, <3>2 DEF Follower
    <3> HIDE DEF lagged, relays, drops
    <3> QED BY <3>1, <3>3
  <2>4. Rest
    BY <1>3, <2>2 DEF Receive
  <2>5. /\ follower'[f].taken = follower[f].taken /\ follower'[f].sent = follower[f].sent
        /\ follower'[f].pos <= Len(bcast)
        /\ (follower'[f].held # None) <=> (follower'[f].phase = "sending")
    BY <1>0, <2>1, <2>2 DEF Follower, Fits
  <2> QED BY <2>3, <2>4, <2>5 DEF Fits
<1>4. CASE Send(f)
  <2>1. follower' \in [Followers -> Follower]
    BY <1>4 DEF Send, Follower, Fits
  <2>2. Rest
    BY <1>4 DEF Send
  <2>3. Fits(f)'
    BY <1>4 DEF Send, Follower, Fits
  <2> QED BY <2>1, <2>2, <2>3
<1>5. CASE ClientTakes(f)
  <2> DEFINE t == follower[f].taken + 1
             x == [follower[f] EXCEPT !.taken = t]
  <2>1. follower' = [follower EXCEPT ![f] = x]
    BY <1>5 DEF ClientTakes
  <2>2. x \in Follower
    <3>1. t \in Nat
      BY DEF Follower
    <3> HIDE DEF t
    <3> QED BY <3>1 DEF Follower
  <2>3. Fits(f)'
    <3>1. /\ follower[f].taken \in Nat /\ Len(follower[f].sent) \in Nat
          /\ follower[f].taken < Len(follower[f].sent)
      BY <1>5 DEF ClientTakes, Follower
    <3>2. /\ follower'[f].taken = t /\ follower'[f].sent = follower[f].sent
          /\ follower'[f].held = follower[f].held /\ follower'[f].pos = follower[f].pos
          /\ follower'[f].phase = follower[f].phase /\ bcast' = bcast
      BY <1>5, <2>1 DEF ClientTakes, Follower
    <3>3. CommandBuffer \in Nat
      BY StreamActorAssumption
    <3> QED BY <3>1, <3>2, <3>3 DEF Fits
  <2> HIDE DEF x
  <2> QED BY <1>5, <2>1, <2>2, <2>3 DEF ClientTakes
<1>6. CASE Disconnect(f)
  <2>1. follower' \in [Followers -> Follower]
    <3>1. PICK phase \in {"ended", follower[f].phase} :
            follower' = [follower EXCEPT ![f] = [follower[f] EXCEPT !.gone = TRUE, !.phase = phase]]
      BY <1>6 DEF Disconnect
    <3> DEFINE x == [follower[f] EXCEPT !.gone = TRUE, !.phase = phase]
    <3>2. x \in Follower
      BY DEF Follower
    <3> HIDE DEF x
    <3> QED BY <3>1, <3>2 DEF x
  <2>2. Rest
    BY <1>6 DEF Disconnect
  <2>3. /\ follower'[f].held = follower[f].held /\ follower'[f].pos = follower[f].pos
        /\ follower'[f].taken = follower[f].taken /\ follower'[f].sent = follower[f].sent
        /\ (follower'[f].phase = "sending") <=> (follower[f].phase = "sending")
    BY <1>6 DEF Disconnect, Follower
  <2> QED BY <2>1, <2>2, <2>3 DEF Fits
<1> QED BY <1>1, <1>2, <1>3, <1>4, <1>5, <1>6 DEF Task

\* TypeOK is kept by every step.
LEMMA TypesKept ==
  ASSUME D!StoreInv, TypeOK, MailboxFits, [Next]_vars
  PROVE  TypeOK'
<1>1. S!TypeOK'
  BY StoreKept
<1>2. /\ follower \in [Followers -> Follower] /\ \A f \in Followers : Fits(f)
      /\ bcast \in Seq(S!Record) /\ S!TypeOK
      /\ inbox \in Seq(Command) /\ Len(inbox) <= CommandBuffer
      /\ request \in [Appends -> Request]
  BY DEF TypeOK, Fits
<1> DEFINE Boxed == inbox' \in Seq(Command) /\ Len(inbox') <= CommandBuffer
           FollowersTyped == /\ follower' \in [Followers -> Follower]
                             /\ \A f \in Followers : Fits(f)'
<1>3. ASSUME NEW c \in Command, HasRoom, inbox' = Append(inbox, c)
      PROVE  Boxed
  <2>1. Len(inbox) \in Nat /\ CommandBuffer \in Nat /\ Len(inbox) < CommandBuffer
    BY <1>2, <1>3, LenProperties, StreamActorAssumption DEF HasRoom
  <2>2. inbox' \in Seq(Command) /\ Len(inbox') = Len(inbox) + 1
    BY <1>2, <1>3, AppendProperties
  <2> QED BY <2>1, <2>2
<1>4. ASSUME NEW kind, Takes(kind), inbox' = Tail(inbox)
      PROVE  Boxed
  BY <1>2, <1>4, CommandServed, LenProperties, StreamActorAssumption
<1>5. CASE Open
  BY <1>1, <1>2, <1>5 DEF Open, TypeOK, Fits
<1>6. ASSUME NEW c \in Appends, SendAppend(c) \/ CancelAppend(c)
      PROVE  TypeOK'
  <2>1. request' \in [Appends -> Request]
    <3>1. \E status \in {"sent", "cancelled"} : request' = [request EXCEPT ![c].status = status]
      BY <1>6 DEF SendAppend, CancelAppend
    <3> QED BY <1>2, <3>1 DEF Request
  <2>2. Boxed
    BY <1>2, <1>3, <1>6 DEF SendAppend, CancelAppend, Command
  <2> QED BY <1>1, <1>2, <1>6, <2>1, <2>2 DEF SendAppend, CancelAppend, TypeOK, Fits
<1>7. CASE ServeAppend
  BY <1>1, <1>2, <1>4, <1>7 DEF ServeAppend, TypeOK, Fits
<1>8. CASE FinishAppend \/ FailAppend
  <2>1. pc = "applying" /\ inbox' = inbox /\ follower' = follower
    BY <1>8 DEF FinishAppend, FailAppend, S!AppendOk, S!AppendFailed
  <2>2. /\ batch.record \in S!Record /\ batch.record.data \in Appends /\ alloc.next \in Nat
    BY <1>2, <2>1, StreamFacts DEF S!TypeOK, S!Allocator, S!Record
  <2>3. request' \in [Appends -> Request]
    <3>1. \E answer \in Request :
            request' = request \/ request' = [request EXCEPT ![batch.record.data] = answer]
      BY <1>8, <2>2 DEF FinishAppend, FailAppend, Reply, Request
    <3> QED BY <1>2, <2>2, <3>1
  <2>4. bcast' = bcast \/ bcast' = Append(bcast, batch.record)
    BY <1>8 DEF FinishAppend, FailAppend
  <2>5. bcast' \in Seq(S!Record) /\ Len(bcast') >= Len(bcast)
    BY <1>2, <2>2, <2>4, AppendProperties, LenProperties
  <2>6. \A f \in Followers : Fits(f)'
    <3> SUFFICES ASSUME NEW f \in Followers PROVE Fits(f)'
      OBVIOUS
    <3>1. follower[f].pos \in Nat /\ Len(bcast) \in Nat /\ Len(bcast') \in Nat
      BY <1>2, <2>5, LenProperties DEF Follower
    <3> QED BY <1>2, <2>1, <2>5, <3>1 DEF Fits
  <2> QED BY <1>1, <1>2, <2>1, <2>3, <2>5, <2>6 DEF TypeOK, Fits
<1>9. CASE ServeRead
  <2>1. Takes("read") /\ inbox' = Tail(inbox) /\ bcast' = bcast /\ request' = request
    BY <1>9 DEF ServeRead
  <2> DEFINE f == inbox[1].from
             s == inbox[1].seq_num
             q == follower[f].cursor + 1
             finds == [follower[f] EXCEPT !.phase = "sending", !.held = records[s]]
             skips == [follower[f] EXCEPT !.phase = "running", !.cursor = q]
             fails == [follower[f] EXCEPT !.phase = "sending", !.held = Err]
  <2>2. f \in Followers /\ s \in Nat /\ follower[f].phase = "reading" /\ follower[f] \in Follower
    BY <1>2, <2>1, CommandServed DEF MailboxFits
  <2>3. \/ s \in DOMAIN records /\ follower' = [follower EXCEPT ![f] = finds]
        \/ follower' = [follower EXCEPT ![f] = skips]
        \/ follower' = [follower EXCEPT ![f] = fails]
    <3>1. \/ /\ S!Read(s) # None
             /\ follower' = [follower EXCEPT ![f].phase = "sending", ![f].held = S!Read(s)]
          \/ follower' = [follower EXCEPT ![f].phase = "running", ![f].cursor = @ + 1]
          \/ follower' = [follower EXCEPT ![f].phase = "sending", ![f].held = Err]
      BY <1>9, <2>1, CommandServed DEF ServeRead
    <3>2. S!Read(s) # None => s \in DOMAIN records /\ S!Read(s) = records[s]
      BY DEF S!Read
    <3> QED BY <3>1, <3>2
  <2>4. /\ s \in DOMAIN records => finds \in Follower
        /\ skips \in Follower /\ fails \in Follower
    <3>1. q \in Nat /\ (s \in DOMAIN records => records[s] \in S!Record)
      BY <2>2, StreamFacts DEF Follower
    <3> HIDE DEF q, s
    <3> QED BY <2>2, <3>1 DEF Follower
  <2>5. follower' \in [Followers -> Follower] /\ \A g \in Followers \ {f} : follower'[g] = follower[g]
    <3> HIDE DEF finds, skips, fails
    <3> QED BY <1>2, <2>2, <2>3, <2>4
  <2>6. /\ follower'[f].pos = follower[f].pos /\ follower'[f].taken = follower[f].taken
        /\ follower'[f].sent = follower[f].sent
        /\ (follower'[f].held # None) <=> (follower'[f].phase = "sending")
    <3>1. follower[f].held = None
      BY <1>2, <2>2 DEF Fits
    <3>2. (s \in DOMAIN records => records[s] # None) /\ Err # None
      BY StreamFacts, StreamAssumption
    <3>3. \/ s \in DOMAIN records /\ follower'[f] = finds
          \/ follower'[f] = skips
          \/ follower'[f] = fails
      <4> HIDE DEF finds, skips, fails
      <4> QED BY <1>2, <2>2, <2>3
    <3> HIDE DEF s, q
    <3> QED BY <2>2, <3>1, <3>2, <3>3 DEF Follower
  <2>7. \A g \in Followers : Fits(g)'
    BY <1>2, <2>1, <2>5, <2>6 DEF Fits
  <2> HIDE DEF f
  <2> QED BY <1>1, <1>2, <1>4, <2>1, <2>5, <2>7 DEF TypeOK, Fits
<1>10. CASE ServeSubscribe
  <2>1. /\ Takes("subscribe") /\ inbox' = Tail(inbox) /\ bcast' = bcast
        /\ request' = request
    BY <1>10 DEF ServeSubscribe
  <2>2. PICK f \in Followers : f = inbox[1].from
    BY <2>1, CommandServed
  <2> DEFINE begins == [follower[f] EXCEPT !.phase = "running", !.next = alloc.next,
                                           !.cursor = follower[f].start, !.pos = Len(bcast)]
  <2>3. follower[f] \in Follower /\ pc = "ready"
    BY <1>2, <2>1, CommandServed
  <2>4. \/ follower[f].phase = "subscribing" /\ follower' = [follower EXCEPT ![f] = begins]
        \/ follower' = follower
    BY <1>10, <2>1, <2>2, <2>3, CommandServed DEF ServeSubscribe
  <2>5. begins \in Follower
    <3>1. alloc.next \in Nat
      BY <1>2, <2>3, StreamFacts DEF S!TypeOK, S!Allocator
    <3>2. Len(bcast) \in Nat
      BY <1>2, <2>3, StreamFacts, LenProperties
    <3>3. follower[f].start \in Nat
      <4>1. follower[f].start \in Starts \cup {0}
        BY <2>3 DEF Follower
      <4>2. \A start \in Starts \cup {0} : start \in Nat
        BY StreamActorAssumption
      <4> QED BY <4>1, <4>2
    <3> QED BY <2>2, <2>3, <3>1, <3>2, <3>3 DEF Follower
  <2>6. /\ follower' \in [Followers -> Follower]
        /\ \A g \in Followers \ {f} : follower'[g] = follower[g]
        /\ follower' # follower => follower[f].phase = "subscribing" /\ follower'[f] = begins
    <3> HIDE DEF begins
    <3> QED BY <1>2, <2>2, <2>3, <2>4, <2>5
  <2>7. follower' # follower => Fits(f)'
    <3> SUFFICES ASSUME follower' # follower PROVE Fits(f)'
      OBVIOUS
    <3>1. /\ begins.phase = "running" /\ begins.held = follower[f].held
          /\ begins.pos = Len(bcast) /\ begins.taken = follower[f].taken
          /\ begins.sent = follower[f].sent
      BY <2>2, <2>3 DEF Follower
    <3>2. follower'[f] = begins /\ follower[f].held = None /\ Len(bcast) \in Nat
      BY <1>2, <2>2, <2>3, <2>6, LenProperties DEF Fits
    <3>3. Fits(f) /\ bcast' = bcast
      BY <1>2, <2>1, <2>2, <2>3
    <3> HIDE DEF begins
    <3> QED BY <3>1, <3>2, <3>3 DEF Fits
  <2>8. \A g \in Followers : Fits(g)'
    <3> HIDE DEF begins
    <3>1. ASSUME NEW g \in Followers, follower'[g] = follower[g] PROVE Fits(g)'
      BY <1>2, <2>1, <3>1 DEF Fits
    <3>2. \A g \in Followers \ {f} : Fits(g)'
      BY <2>6, <3>1
    <3>3. follower' = follower => Fits(f)'
      BY <2>2, <2>3, <3>1
    <3> QED BY <2>7, <3>2, <3>3
  <2> QED BY <1>1, <1>2, <1>4, <2>1, <2>6, <2>8 DEF TypeOK, Fits
<1>11. ASSUME NEW f \in Followers,
              \/ \E start \in Starts : Follow(f, start)
              \/ Task(f) \/ ClientTakes(f) \/ Disconnect(f)
       PROVE  TypeOK'
  <2>1. /\ follower' \in [Followers -> Follower] /\ Fits(f)'
        /\ \A g \in Followers \ {f} : follower'[g] = follower[g]
        /\ bcast' = bcast
    BY <1>2, <1>11, FollowTypes
  <2>2. \A g \in Followers : Fits(g)'
    BY <1>2, <2>1 DEF Fits
  <2>3. request' = request
    BY <1>11 DEF Follow, Task, SendRead, Receive, Send, ClientTakes, Disconnect
  <2>4. Boxed
    <3>1. \/ inbox' = inbox
          \/ HasRoom /\ inbox' = Append(inbox, [kind |-> "subscribe", from |-> f])
          \/ HasRoom /\ inbox' = Append(inbox, [kind |-> "read", from |-> f,
                                                seq_num |-> follower[f].cursor])
      BY <1>11 DEF Follow, Task, SendRead, Receive, Send, ClientTakes, Disconnect
    <3>2. /\ [kind |-> "subscribe", from |-> f] \in Command
          /\ [kind |-> "read", from |-> f, seq_num |-> follower[f].cursor] \in Command
      BY <1>2 DEF Command, Follower
    <3> QED BY <1>2, <1>3, <3>1, <3>2
  <2> QED BY <1>1, <1>2, <2>1, <2>2, <2>3, <2>4 DEF TypeOK, Fits
<1>12. CASE Crash
  <2>1. inbox' = << >> /\ bcast' = << >> /\ follower' = [f \in Followers |-> NotFollowing]
    BY <1>12 DEF Crash
  <2>2. request' \in [Appends -> Request]
    BY <1>2, <1>12 DEF Crash, Request
  <2>3. Boxed /\ bcast' \in Seq(S!Record) /\ Len(bcast') = 0
    BY <2>1, EmptySeq, StreamActorAssumption
  <2>4. FollowersTyped
    <3> SUFFICES ASSUME NEW f \in Followers PROVE follower'[f] \in Follower /\ Fits(f)'
      BY <2>1
    <3>1. Len(<< >>) = 0 /\ CommandBuffer \in Nat
      BY StreamActorAssumption
    <3> QED BY <2>1, <2>3, <3>1, NotFollowingFits DEF Fits
  <2> QED BY <1>1, <2>2, <2>3, <2>4 DEF TypeOK, Fits
<1>13. CASE UNCHANGED vars
  BY <1>1, <1>2, <1>13 DEF vars, TypeOK, Fits
<1> QED
  BY <1>5, <1>6, <1>7, <1>8, <1>9, <1>10, <1>11, <1>12, <1>13 DEF Next, Actor, Settled

-----------------------------------------------------------------------------
(* What a step may do to a follow. *)

\* The task goes on with the subscription it has.
Becomes(f, phase, cursor, pos, held, sent) ==
  /\ follower'[f].start = follower[f].start /\ follower'[f].next = follower[f].next
  /\ follower'[f].phase = phase /\ follower'[f].cursor = cursor
  /\ follower'[f].pos = pos /\ follower'[f].held = held /\ follower'[f].sent = sent

\* read_follow asks for its subscription.
Asks(f) ==
  /\ follower[f].phase = "idle" /\ follower'[f].phase = "subscribing"
  /\ follower'[f].start \in Starts
  /\ follower'[f].held = follower[f].held /\ follower'[f].sent = follower[f].sent

\* The subscription is answered and the task spawned.
Begins(f) ==
  /\ pc = "ready"
  /\ follower[f].phase = "subscribing" /\ follower'[f].phase = "running"
  /\ follower'[f].start = follower[f].start /\ follower'[f].next = alloc.next
  /\ follower'[f].cursor = follower[f].start /\ follower'[f].pos = Len(bcast)
  /\ follower'[f].held = None /\ follower'[f].sent = follower[f].sent

\* The client does something, or the backfill sends its next read.
Continues(f) ==
  /\ \/ follower'[f].phase = follower[f].phase
     \/ /\ follower[f].phase = "running" /\ Backfilling(f)
        /\ follower'[f].phase = "reading"
  /\ Becomes(f, follower'[f].phase, follower[f].cursor, follower[f].pos,
             follower[f].held, follower[f].sent)

Finds(f) ==
  /\ follower[f].phase = "reading" /\ follower[f].cursor \in DOMAIN records
  /\ Becomes(f, "sending", follower[f].cursor, follower[f].pos,
             records[follower[f].cursor], follower[f].sent)

Skips(f) ==
  /\ follower[f].phase = "reading" /\ follower[f].cursor \notin DOMAIN records
  /\ Becomes(f, "running", follower[f].cursor + 1, follower[f].pos, None, follower[f].sent)

\* A read failed or the receiver lagged.
Fails(f) ==
  /\ follower[f].phase \in {"reading", "running"}
  /\ Becomes(f, "sending", follower[f].cursor, follower[f].pos, Err, follower[f].sent)

Receives(f) ==
  /\ follower[f].phase = "running" /\ ~Backfilling(f)
  /\ follower[f].pos + 1 \in DOMAIN bcast

RelaysNext(f) ==
  /\ Receives(f) /\ follower[f].next <= bcast[follower[f].pos + 1].seq_num
  /\ Becomes(f, "sending", follower[f].cursor, follower[f].pos + 1,
             bcast[follower[f].pos + 1], follower[f].sent)

DropsNext(f) ==
  /\ Receives(f) /\ ~(follower[f].next <= bcast[follower[f].pos + 1].seq_num)
  /\ Becomes(f, "running", follower[f].cursor, follower[f].pos + 1, None, follower[f].sent)

Delivers(f) ==
  /\ follower[f].phase = "sending" /\ follower[f].held \notin {Err, None}
  /\ Becomes(f, "running",
             IF Backfilling(f) THEN follower[f].cursor + 1 ELSE follower[f].cursor,
             follower[f].pos, None, Append(follower[f].sent, follower[f].held))

\* The client left: before the answer, or found out when sending to it; or it
\* was sent the error.
Finishes(f) ==
  /\ follower[f].phase \in {"subscribing", "sending"} /\ follower'[f].phase = "ended"
  /\ follower'[f].start = follower[f].start
  /\ follower'[f].held = None
  /\ \/ follower'[f].gone /\ follower'[f].sent = follower[f].sent
     \/ follower[f].held = Err /\ follower'[f].sent = Append(follower[f].sent, Err)

Moves(f) ==
  /\ UNCHANGED <<streamVars, bcast>>
  /\ \A g \in Followers \ {f} : follower'[g] = follower[g]
  /\ follower[f].gone => follower'[f].gone
  /\ \/ Asks(f) \/ Begins(f) \/ Continues(f) \/ Finds(f) \/ Skips(f) \/ Fails(f)
     \/ RelaysNext(f) \/ DropsNext(f) \/ Delivers(f) \/ Finishes(f)

\* A step but the crash moves one follow, in one of these ways, or none.
LEMMA FollowSteps ==
  ASSUME D!StoreInv, TypeOK, MailboxFits, [Next]_vars, ~Crash
  PROVE  UNCHANGED follower \/ \E f \in Followers : Moves(f)
<1>1. /\ follower \in [Followers -> Follower] /\ \A f \in Followers : Fits(f)
      /\ bcast \in Seq(S!Record)
  BY DEF TypeOK, Fits
<1>2. Err # None /\ None \notin S!Record /\ Err \notin S!Record
  BY StreamAssumption
<1>3. CASE ServeRead
  <2>1. Takes("read") /\ UNCHANGED <<streamVars, bcast>>
    BY <1>3 DEF ServeRead
  <2>2. PICK f \in Followers : f = inbox[1].from
    BY <2>1, CommandServed
  <2>3. /\ follower[f].phase = "reading" /\ inbox[1].seq_num = follower[f].cursor
        /\ follower[f].held = None
    BY <1>1, <2>1, <2>2, CommandServed DEF MailboxFits, Fits
  <2>4. \/ /\ S!Read(follower[f].cursor) # None
           /\ follower' = [follower EXCEPT ![f].phase = "sending",
                                           ![f].held = S!Read(follower[f].cursor)]
        \/ /\ S!Read(follower[f].cursor) = None
           /\ follower' = [follower EXCEPT ![f].phase = "running", ![f].cursor = @ + 1]
        \/ follower' = [follower EXCEPT ![f].phase = "sending", ![f].held = Err]
    BY <1>3, <2>1, <2>2, <2>3, CommandServed DEF ServeRead
  <2>5. Finds(f) \/ Skips(f) \/ Fails(f)
    <3>1. ASSUME S!Read(follower[f].cursor) # None,
                 follower' = [follower EXCEPT ![f].phase = "sending",
                                              ![f].held = S!Read(follower[f].cursor)]
          PROVE  Finds(f)
      BY <1>1, <2>3, <3>1 DEF Finds, Becomes, S!Read, Follower
    <3>2. ASSUME S!Read(follower[f].cursor) = None,
                 follower' = [follower EXCEPT ![f].phase = "running", ![f].cursor = @ + 1]
          PROVE  Skips(f)
      <4>1. follower[f].cursor \notin DOMAIN records
        BY <1>2, <3>2, StreamFacts DEF S!Read
      <4> QED BY <1>1, <2>3, <3>2, <4>1 DEF Skips, Becomes, Follower
    <3>3. ASSUME follower' = [follower EXCEPT ![f].phase = "sending", ![f].held = Err]
          PROVE  Fails(f)
      BY <1>1, <2>3, <3>3 DEF Fails, Becomes, Follower
    <3> QED BY <2>4, <3>1, <3>2, <3>3
  <2>6. /\ \A g \in Followers \ {f} : follower'[g] = follower[g]
        /\ follower[f].gone => follower'[f].gone
    BY <1>1, <2>4 DEF Follower
  <2> QED BY <2>1, <2>5, <2>6 DEF Moves
<1>4. CASE ServeSubscribe
  <2>1. Takes("subscribe") /\ UNCHANGED <<streamVars, bcast>>
    BY <1>4 DEF ServeSubscribe
  <2>2. PICK f \in Followers : f = inbox[1].from
    BY <2>1, CommandServed
  <2>3. \/ follower' = follower
        \/ /\ follower[f].phase = "subscribing"
           /\ follower' = [follower EXCEPT ![f].phase = "running", ![f].next = alloc.next,
                                           ![f].cursor = follower[f].start,
                                           ![f].pos = Len(bcast)]
    BY <1>4, <2>1, <2>2, CommandServed DEF ServeSubscribe
  <2>4. CASE /\ follower[f].phase = "subscribing"
             /\ follower' = [follower EXCEPT ![f].phase = "running", ![f].next = alloc.next,
                                             ![f].cursor = follower[f].start,
                                             ![f].pos = Len(bcast)]
    <3>1. pc = "ready" /\ follower[f].held = None
      BY <1>1, <2>1, <2>4 DEF Takes, Fits
    <3>2. Begins(f)
      BY <1>1, <2>4, <3>1 DEF Begins, Follower
    <3>3. /\ \A g \in Followers \ {f} : follower'[g] = follower[g]
          /\ follower[f].gone => follower'[f].gone
      BY <1>1, <2>4 DEF Follower
    <3> QED BY <2>1, <3>2, <3>3 DEF Moves
  <2> QED BY <2>3, <2>4
<1>5. ASSUME NEW f \in Followers, NEW start \in Starts, Follow(f, start)
      PROVE  Moves(f)
  <2>1. Asks(f)
    BY <1>1, <1>5 DEF Follow, Asks, Follower
  <2> QED BY <1>1, <1>5, <2>1 DEF Follow, Moves, Follower
<1>6. ASSUME NEW f \in Followers, SendRead(f) \/ ClientTakes(f) PROVE Moves(f)
  <2>1. Continues(f)
    BY <1>1, <1>6 DEF SendRead, ClientTakes, Continues, Becomes, Follower
  <2> QED BY <1>1, <1>6, <2>1 DEF SendRead, ClientTakes, Moves, Follower
<1>7. ASSUME NEW f \in Followers, Receive(f) PROVE Moves(f)
  <2>1. /\ follower[f].pos \in Nat /\ follower[f].pos + 1 \in DOMAIN bcast
        /\ follower[f].phase = "running" /\ ~Backfilling(f) /\ follower[f].held = None
    BY <1>1, <1>7 DEF Receive, Follower, Fits
  <2> DEFINE record == bcast[follower[f].pos + 1]
  <2>2. \/ follower' = [follower EXCEPT ![f].phase = "sending", ![f].held = Err]
        \/ /\ follower[f].next <= record.seq_num
           /\ follower' = [follower EXCEPT ![f].pos = @ + 1, ![f].phase = "sending",
                                           ![f].held = record]
        \/ /\ ~(follower[f].next <= record.seq_num)
           /\ follower' = [follower EXCEPT ![f].pos = @ + 1,
                                           ![f].phase = @, ![f].held = @]
    <3>1. Relays(f, record) <=> follower[f].next <= record.seq_num
      <4>1. record.seq_num \in Nat /\ follower[f].next \in Nat
        <5>1. record \in S!Record
          BY <1>1, <2>1
        <5> HIDE DEF record
        <5> QED BY <1>1, <5>1 DEF S!Record, Follower
      <4> QED BY <4>1 DEF Relays
    <3> QED BY <1>7, <3>1 DEF Receive, Lag
  <2> HIDE DEF record
  <2>3. Fails(f) \/ RelaysNext(f) \/ DropsNext(f)
    <3>1. ASSUME follower' = [follower EXCEPT ![f].phase = "sending", ![f].held = Err]
          PROVE  Fails(f)
      BY <1>1, <2>1, <3>1 DEF Fails, Becomes, Follower
    <3>2. ASSUME follower[f].next <= record.seq_num,
                 follower' = [follower EXCEPT ![f].pos = @ + 1, ![f].phase = "sending",
                                              ![f].held = record]
          PROVE  RelaysNext(f)
      <4>1. Becomes(f, "sending", follower[f].cursor, follower[f].pos + 1,
                    record, follower[f].sent)
        BY <1>1, <2>1, <3>2 DEF Becomes, Follower
      <4> QED BY <2>1, <3>2, <4>1 DEF RelaysNext, Receives, record
    <3>3. ASSUME ~(follower[f].next <= record.seq_num),
                 follower' = [follower EXCEPT ![f].pos = @ + 1, ![f].phase = @, ![f].held = @]
          PROVE  DropsNext(f)
      <4>1. Becomes(f, "running", follower[f].cursor, follower[f].pos + 1,
                    None, follower[f].sent)
        BY <1>1, <2>1, <3>3 DEF Becomes, Follower
      <4> QED BY <2>1, <3>3, <4>1 DEF DropsNext, Receives, record
    <3> QED BY <2>2, <3>1, <3>2, <3>3
  <2>4. \A g \in Followers \ {f} : follower'[g] = follower[g]
    BY <1>1, <2>2
  <2>5. follower'[f].gone = follower[f].gone
    BY <1>1, <2>2 DEF Follower
  <2> QED BY <1>7, <2>3, <2>4, <2>5 DEF Receive, Moves
<1>8. ASSUME NEW f \in Followers, Send(f) PROVE Moves(f)
  <2>1. Finishes(f) \/ Delivers(f)
    <3>1. /\ follower[f].phase = "sending" /\ follower[f].held # None
          /\ follower[f].cursor \in Nat
      BY <1>1, <1>8 DEF Send, Fits, Follower
    <3>2. CASE follower[f].gone
      BY <1>1, <1>8, <3>1, <3>2 DEF Send, Finishes, Follower
    <3>3. CASE follower[f].held = Err /\ ~follower[f].gone
      BY <1>1, <1>8, <3>1, <3>3 DEF Send, Finishes, Follower
    <3>4. CASE follower[f].held # Err /\ ~follower[f].gone
      BY <1>1, <1>8, <3>1, <3>4 DEF Send, Delivers, Becomes, Follower
    <3> QED BY <3>2, <3>3, <3>4
  <2>2. /\ \A g \in Followers \ {f} : follower'[g] = follower[g]
        /\ follower[f].gone => follower'[f].gone
    BY <1>1, <1>8 DEF Send, Follower
  <2> QED BY <1>8, <2>1, <2>2 DEF Send, Moves
<1>9. ASSUME NEW f \in Followers, Disconnect(f) PROVE Moves(f)
  <2>1. Continues(f) \/ Finishes(f)
    <3>1. follower[f].held = None \/ follower[f].phase = "sending"
      BY <1>1 DEF Fits
    <3> QED BY <1>1, <1>9, <3>1 DEF Disconnect, Continues, Becomes, Finishes, Follower
  <2> QED BY <1>1, <1>9, <2>1 DEF Disconnect, Moves, Follower
<1> QED
  BY <1>3, <1>4, <1>5, <1>6, <1>7, <1>8, <1>9
     DEF Next, vars, Open, Actor, ServeAppend, FinishAppend, FailAppend, Settled,
         SendAppend, CancelAppend, Task

-----------------------------------------------------------------------------
(* ActorInv is inductive, whatever fails. *)

\* While there is no actor, only the stream below changes.
LEMMA NoActorSteps ==
  ASSUME TypeOK, QuietWithoutActor, ~HasActor, [Next]_vars
  PROVE  UNCHANGED <<inbox, bcast, follower>>
<1>1. /\ inbox = << >> /\ Len(<< >>) = 0
      /\ \A f \in Followers :
           /\ follower[f].phase = "idle" /\ follower[f].taken = 0
           /\ follower[f].sent = << >>
  BY NotFollowingFits DEF QuietWithoutActor
<1>2. ~HasActor /\ pc \notin {"ready", "applying"}
  BY DEF HasActor
<1>3. ~Actor /\ ~Crash
  BY <1>2 DEF Actor, ServeAppend, ServeRead, ServeSubscribe, Takes, FinishAppend, FailAppend,
              S!AppendOk, S!AppendFailed, Crash, S!Crash
<1>4. ASSUME NEW f \in Followers
      PROVE  /\ \A start \in Starts : ~Follow(f, start)
             /\ ~Task(f) /\ ~ClientTakes(f) /\ ~Disconnect(f)
  BY <1>1, <1>2 DEF Follow, Task, SendRead, Receive, Send, ClientTakes, Disconnect
<1> QED BY <1>1, <1>2, <1>3, <1>4 DEF Next, vars, Open, Settled, SendAppend, CancelAppend

\* The actor's own progress: the next number stays, or an append is over, which
\* moves no follow and broadcasts its record or nothing.
AppendOver ==
  /\ pc = "applying" /\ UNCHANGED follower
  /\ NextNum' = NextNum + 1
  /\ \/ FinishAppend /\ bcast' = Append(bcast, batch.record)
     \/ FailAppend /\ bcast' = bcast

LEMMA ActorSteps ==
  ASSUME D!StoreInv, TypeOK, HasActor, [Next]_vars, ~Crash
  PROVE  HasActor' /\ (AppendOver \/ UNCHANGED <<NextNum, bcast>>)
<1>1. CASE FinishAppend \/ FailAppend
  <2>1. /\ pc = "applying" /\ pc' = "ready" /\ alloc' = alloc /\ UNCHANGED follower
        /\ \/ FinishAppend /\ bcast' = Append(bcast, batch.record)
           \/ FailAppend /\ bcast' = bcast
    BY <1>1 DEF FinishAppend, FailAppend, S!AppendOk, S!AppendFailed
  <2>2. NextNum' = NextNum + 1
    BY <2>1, StreamFacts DEF NextNum
  <2> QED BY <2>1, <2>2 DEF AppendOver, HasActor
<1>2. CASE ServeAppend
  BY <1>2 DEF ServeAppend, S!StartAppend, NextNum, HasActor
<1>3. CASE UNCHANGED <<pc, alloc, batch, bcast>>
  BY <1>3 DEF NextNum, HasActor
<1>4. ~Open \/ UNCHANGED <<pc, alloc, batch, bcast>>
  BY DEF HasActor, Open, S!NewMetadata, S!NewBlock, S!InterruptedNew, S!Load
<1> QED
  BY <1>1, <1>2, <1>3, <1>4
     DEF Next, vars, streamVars, Actor, ServeRead, ServeSubscribe, Settled, SendAppend,
         CancelAppend, Follow, Task, SendRead, Receive, Send, ClientTakes, Disconnect

\* Commands keep fitting their senders' phases.
LEMMA MailboxKept ==
  ASSUME TypeOK, MailboxFits, [Next]_vars
  PROVE  MailboxFits'
<1>0. /\ inbox \in Seq(Command) /\ follower \in [Followers -> Follower]
      /\ \A i \in DOMAIN inbox :
           /\ inbox[i].kind \in {"append", "read", "subscribe"}
           /\ inbox[i].kind # "append" => inbox[i].from \in Followers
  <2>1. inbox \in Seq(Command) /\ follower \in [Followers -> Follower]
    BY DEF TypeOK
  <2>2. \A i \in DOMAIN inbox : inbox[i] \in Command
    BY <2>1
  <2> QED BY <2>1, <2>2 DEF Command
\* Nothing enters or leaves, and who waits goes on waiting.
<1>1. ASSUME inbox' = inbox,
             \A g \in Followers :
               /\ follower[g].phase = "reading" =>
                    follower'[g].phase = "reading" /\ follower'[g].cursor = follower[g].cursor
               /\ follower[g].phase \in {"subscribing", "ended"} =>
                    follower'[g].phase \in {"subscribing", "ended"}
      PROVE  MailboxFits'
  <2>1. \A i \in DOMAIN inbox : inbox'[i] = inbox[i] /\ DOMAIN inbox' = DOMAIN inbox
    BY <1>1
  <2> QED BY <1>0, <1>1, <2>1 DEF MailboxFits
\* The first command is served.
<1>2. ASSUME NEW kind, Takes(kind), inbox' = Tail(inbox),
             \A g \in Followers :
               follower'[g] = follower[g] \/ (kind # "append" /\ g = inbox[1].from)
      PROVE  MailboxFits'
  <2>1. /\ 1 \in DOMAIN inbox /\ inbox[1].kind = kind
        /\ \A i \in DOMAIN inbox' : /\ i + 1 \in DOMAIN inbox /\ inbox'[i] = inbox[i + 1]
                                    /\ i \in Nat \ {0}
    BY <1>2, CommandServed, LenProperties, <1>0
  <2>2. \A i \in DOMAIN inbox' :
          inbox'[i].kind # "append" => follower'[inbox'[i].from] = follower[inbox'[i].from]
    <3> SUFFICES ASSUME NEW i \in DOMAIN inbox', inbox'[i].kind # "append",
                        kind # "append", inbox'[i].from = inbox[1].from
                 PROVE  FALSE
      BY <1>0, <1>2, <2>1
    <3>1. i + 1 = 1
      BY <2>1 DEF MailboxFits
    <3> QED BY <2>1, <3>1
  <2>3. \A i, j \in DOMAIN inbox' :
          /\ inbox'[i].kind # "append" /\ inbox'[j].kind # "append"
          /\ inbox'[i].from = inbox'[j].from
          => i = j
    <3> SUFFICES ASSUME NEW i \in DOMAIN inbox', NEW j \in DOMAIN inbox',
                        inbox'[i].kind # "append", inbox'[j].kind # "append",
                        inbox'[i].from = inbox'[j].from
                 PROVE  i = j
      OBVIOUS
    <3>1. i + 1 = j + 1
      BY <2>1 DEF MailboxFits
    <3> QED BY <2>1, <3>1
  <2>4. \A i \in DOMAIN inbox' :
       /\ inbox'[i].kind = "read" =>
            /\ follower'[inbox'[i].from].phase = "reading"
            /\ follower'[inbox'[i].from].cursor = inbox'[i].seq_num
       /\ inbox'[i].kind = "subscribe" =>
            follower'[inbox'[i].from].phase \in {"subscribing", "ended"}
    BY <2>1, <2>2 DEF MailboxFits
  <2> QED BY <2>3, <2>4 DEF MailboxFits
\* A command enters; its sender had none there.
<1>3. ASSUME NEW c \in Command, inbox' = Append(inbox, c),
             \A g \in Followers :
               follower'[g] = follower[g] \/ (c.kind # "append" /\ g = c.from),
             c.kind # "append" => follower[c.from].phase \in {"idle", "running"},
             c.kind = "read" => /\ follower'[c.from].phase = "reading"
                                /\ follower'[c.from].cursor = c.seq_num,
             c.kind = "subscribe" => follower'[c.from].phase = "subscribing"
      PROVE  MailboxFits'
  <2> DEFINE n == Len(inbox) + 1
  <2>1. /\ n \in DOMAIN inbox' /\ inbox'[n] = c
        /\ \A i \in DOMAIN inbox' : i = n \/ (i \in DOMAIN inbox /\ inbox'[i] = inbox[i])
    <3>1. /\ Len(inbox) \in Nat /\ DOMAIN inbox = 1 .. Len(inbox)
          /\ Len(inbox') = Len(inbox) + 1 /\ DOMAIN inbox' = 1 .. Len(inbox')
          /\ \A i \in 1 .. Len(inbox) : inbox'[i] = inbox[i]
          /\ inbox'[n] = c
      BY <1>0, <1>3, AppendProperties, LenProperties
    <3> QED BY <3>1
  <2> HIDE DEF n
  <2>2. \A i \in DOMAIN inbox : inbox[i].kind # "append" /\ c.kind # "append" => inbox[i].from # c.from
    BY <1>0, <1>3 DEF MailboxFits
  <2>3. \A i \in DOMAIN inbox : inbox[i].kind # "append" => follower'[inbox[i].from] = follower[inbox[i].from]
    BY <1>0, <1>3, <2>2
  <2>4. \A i, j \in DOMAIN inbox' :
          /\ inbox'[i].kind # "append" /\ inbox'[j].kind # "append"
          /\ inbox'[i].from = inbox'[j].from
          => i = j
    BY <2>1, <2>2 DEF MailboxFits
  <2>5. \A i \in DOMAIN inbox' :
       /\ inbox'[i].kind = "read" =>
            /\ follower'[inbox'[i].from].phase = "reading"
            /\ follower'[inbox'[i].from].cursor = inbox'[i].seq_num
       /\ inbox'[i].kind = "subscribe" =>
            follower'[inbox'[i].from].phase \in {"subscribing", "ended"}
    BY <1>3, <2>1, <2>3 DEF MailboxFits
  <2> QED BY <2>4, <2>5 DEF MailboxFits
<1>4. CASE ServeAppend
  BY <1>2, <1>4 DEF ServeAppend
<1>5. CASE ServeRead
  <2>1. Takes("read") /\ inbox' = Tail(inbox) /\ Head(inbox) = inbox[1]
    BY <1>5, CommandServed DEF ServeRead
  <2>2. \A g \in Followers : follower'[g] = follower[g] \/ g = inbox[1].from
    BY <1>0, <1>5, <2>1 DEF ServeRead
  <2> QED BY <1>2, <2>1, <2>2
<1>6. CASE ServeSubscribe
  <2>1. Takes("subscribe") /\ inbox' = Tail(inbox) /\ Head(inbox) = inbox[1]
    BY <1>6, CommandServed DEF ServeSubscribe
  <2>2. \A g \in Followers : follower'[g] = follower[g] \/ g = inbox[1].from
    BY <1>0, <1>6, <2>1 DEF ServeSubscribe
  <2> QED BY <1>2, <2>1, <2>2
<1>7. ASSUME NEW c \in Appends, SendAppend(c) PROVE MailboxFits'
  <2> DEFINE x == [kind |-> "append", from |-> c]
  <2>1. x \in Command /\ x.kind = "append"
    BY DEF Command
  <2>2. inbox' = Append(inbox, x) /\ follower' = follower
    BY <1>7 DEF SendAppend
  <2> HIDE DEF x
  <2> QED BY <1>3, <2>1, <2>2
<1>8. ASSUME NEW f \in Followers, NEW start \in Starts, Follow(f, start) PROVE MailboxFits'
  <2> DEFINE x == [kind |-> "subscribe", from |-> f]
  <2>1. x \in Command /\ x.kind = "subscribe" /\ x.from = f
    BY DEF Command
  <2>2. /\ inbox' = Append(inbox, x) /\ follower[f].phase = "idle"
        /\ follower'[f].phase = "subscribing"
        /\ \A g \in Followers : follower'[g] = follower[g] \/ g = f
    BY <1>0, <1>8 DEF Follow, Follower
  <2> HIDE DEF x
  <2> QED BY <1>3, <2>1, <2>2
<1>9. ASSUME NEW f \in Followers, SendRead(f) PROVE MailboxFits'
  <2> DEFINE x == [kind |-> "read", from |-> f, seq_num |-> follower[f].cursor]
  <2>1. x \in Command /\ x.kind = "read" /\ x.from = f /\ x.seq_num = follower[f].cursor
    BY <1>0 DEF Command, Follower
  <2>2. /\ inbox' = Append(inbox, x) /\ follower[f].phase = "running"
        /\ follower'[f].phase = "reading" /\ follower'[f].cursor = follower[f].cursor
        /\ \A g \in Followers : follower'[g] = follower[g] \/ g = f
    BY <1>0, <1>9 DEF SendRead, Follower
  <2> HIDE DEF x
  <2> QED BY <1>3, <2>1, <2>2
<1>10. ASSUME NEW f \in Followers, Receive(f) \/ Send(f) \/ ClientTakes(f) \/ Disconnect(f)
       PROVE  MailboxFits'
  <2>1. inbox' = inbox /\ \A g \in Followers : follower'[g] = follower[g] \/ g = f
    BY <1>0, <1>10 DEF Receive, Lag, Send, ClientTakes, Disconnect
  <2>2. CASE ClientTakes(f) \/ Disconnect(f)
    <3>1. /\ follower'[f].cursor = follower[f].cursor
          /\ \/ follower'[f].phase = follower[f].phase
             \/ follower[f].phase = "subscribing" /\ follower'[f].phase = "ended"
      BY <1>0, <2>2 DEF ClientTakes, Disconnect, Follower
    <3> QED BY <1>1, <2>1, <3>1
  <2>3. CASE Receive(f) \/ Send(f)
    <3>1. follower[f].phase \in {"running", "sending"}
      BY <2>3 DEF Receive, Send
    <3> QED BY <1>1, <2>1, <3>1
  <2> QED BY <1>10, <2>2, <2>3
<1>11. CASE Crash
  <2>1. inbox' = << >>
    BY <1>11 DEF Crash
  <2>2. DOMAIN inbox' = {}
    BY <2>1
  <2> QED BY <2>2 DEF MailboxFits
<1>12. CASE UNCHANGED <<inbox, follower>>
  BY <1>12 DEF MailboxFits
<1> QED
  BY <1>4, <1>5, <1>6, <1>7, <1>8, <1>9, <1>10, <1>11, <1>12
     DEF Next, vars, Open, Actor, FinishAppend, FailAppend, Settled, CancelAppend, Task

LEMMA QuietKept ==
  ASSUME D!StoreInv, TypeOK, QuietWithoutActor, [Next]_vars
  PROVE  QuietWithoutActor'
<1>1. CASE Crash
  BY <1>1 DEF Crash, QuietWithoutActor
<1>2. CASE ~HasActor /\ ~Crash
  BY <1>2, NoActorSteps DEF QuietWithoutActor
<1>3. CASE HasActor /\ ~Crash
  BY <1>3, ActorSteps DEF QuietWithoutActor
<1> QED BY <1>1, <1>2, <1>3

LEMMA BroadcastKept ==
  ASSUME D!StoreInv, TypeOK, QuietWithoutActor, BroadcastInOrder, [Next]_vars
  PROVE  BroadcastInOrder'
<1>1. CASE bcast' = << >>
  <2>1. DOMAIN bcast' = {}
    BY <1>1
  <2> QED BY <2>1 DEF BroadcastInOrder
<1>2. CASE HasActor /\ UNCHANGED <<NextNum, bcast>>
  BY <1>2 DEF BroadcastInOrder
<1>3. CASE HasActor /\ AppendOver
  <2>1. /\ NextNum \in Nat /\ NextNum' = NextNum + 1
        /\ batch.record.seq_num = NextNum /\ batch.record \in S!Record
        /\ bcast \in Seq(S!Record)
    BY <1>3, StreamFacts DEF AppendOver, TypeOK
  <2>2. CASE bcast' = bcast
    <3>1. \A i \in DOMAIN bcast : bcast[i].seq_num \in Nat
      <4>1. \A i \in DOMAIN bcast : bcast[i] \in S!Record
        BY <2>1
      <4> QED BY <4>1 DEF S!Record
    <3> QED BY <2>1, <2>2, <3>1 DEF BroadcastInOrder
  <2>3. CASE bcast' = Append(bcast, batch.record)
    <3> DEFINE n == Len(bcast) + 1
    <3>1. /\ bcast'[n] = batch.record
          /\ \A i \in DOMAIN bcast : bcast[i].seq_num \in Nat
          /\ \A i \in DOMAIN bcast' :
               /\ i \in Nat /\ i <= n
               /\ i # n => i \in DOMAIN bcast /\ bcast'[i] = bcast[i]
      <4>1. /\ Len(bcast) \in Nat /\ DOMAIN bcast = 1 .. Len(bcast)
            /\ Len(bcast') = Len(bcast) + 1 /\ DOMAIN bcast' = 1 .. Len(bcast')
            /\ \A i \in 1 .. Len(bcast) : bcast'[i] = bcast[i]
            /\ bcast'[n] = batch.record
        BY <2>1, <2>3, AppendProperties, LenProperties
      <4>2. \A i \in DOMAIN bcast : bcast[i] \in S!Record
        BY <2>1
      <4> QED BY <4>1, <4>2 DEF S!Record
    <3>2. n \in Nat
      BY <2>1, LenProperties
    <3> HIDE DEF n
    <3> QED BY <2>1, <3>1, <3>2 DEF BroadcastInOrder
  <2> QED BY <1>3, <2>2, <2>3 DEF AppendOver
<1>4. CASE Crash
  BY <1>1, <1>4 DEF Crash
<1>5. CASE ~HasActor /\ ~Crash
  BY <1>1, <1>5, NoActorSteps DEF QuietWithoutActor
<1> QED BY <1>2, <1>3, <1>4, <1>5, ActorSteps

LEMMA RangeKept ==
  ASSUME D!StoreInv, TypeOK, NextInRange, [Next]_vars
  PROVE  NextInRange'
<1>0. BlockSize \in Nat /\ MaxSeqNum \in Nat
  BY StreamAssumption
<1>1. CASE HasActor /\ ~Crash
  BY <1>0, <1>1, ActorSteps, StreamFacts DEF NextInRange, AppendOver
<1>2. CASE Crash
  BY <1>2 DEF Crash, S!Crash, NextInRange, HasActor
<1>3. CASE S!NewBlock
  BY <1>0, <1>3 DEF S!NewBlock, S!DefaultAllocator, NextInRange, NextNum
<1>4. CASE S!Load
  <2>1. CASE seqBlock = None
    BY <1>0, <1>4, <2>1 DEF S!Load, S!DefaultAllocator, NextInRange, NextNum
  <2>2. CASE seqBlock # None
    <3>1. seqBlock \in S!SeqBlock
      BY <2>2, StreamFacts DEF S!TypeOK
    <3>2. /\ seqBlock.start \in Nat /\ seqBlock.block_size = BlockSize
          /\ seqBlock.start <= MaxSeqNum + 1
      <4>1. seqBlock.start \in Nat
        BY <3>1 DEF S!SeqBlock
      <4>2. \/ seqBlock.start = 0
            \/ \E s \in DOMAIN records : seqBlock.start <= s + 1
        BY <2>2 DEF D!StoreInv, D!BlockEarned
      <4>3. \A s \in DOMAIN records : s \in Nat /\ s <= MaxSeqNum
        BY <1>0, StreamFacts
      <4> QED BY <1>0, <2>2, <4>1, <4>2, <4>3 DEF D!StoreInv, D!BlocksSized
    <3>3. NextNum' = seqBlock.start + seqBlock.block_size
      BY <1>4, <2>2 DEF S!Load, S!FromBlock, S!NextBase, NextNum
    <3> QED BY <1>0, <3>2, <3>3 DEF NextInRange
  <2> QED BY <2>1, <2>2
<1>5. CASE ~HasActor /\ ~HasActor'
  BY <1>5 DEF NextInRange
<1>6. CASE ~HasActor /\ HasActor'
  <2>1. S!NewBlock \/ S!Load
    BY <1>6
       DEF HasActor, Next, vars, streamVars, Open, Actor, ServeAppend, ServeRead, ServeSubscribe,
           Takes, FinishAppend, FailAppend, S!AppendOk, S!AppendFailed, Crash, S!Crash,
           S!NewMetadata, S!InterruptedNew, Settled, SendAppend, CancelAppend, Follow, Task,
           SendRead, Receive, Send, ClientTakes, Disconnect
  <2> QED BY <2>1, <1>3, <1>4
<1> QED BY <1>1, <1>2, <1>5, <1>6

\* What the types say of one follow.
LEMMA FollowFacts ==
  ASSUME TypeOK, NEW f \in Followers
  PROVE  /\ follower[f].start \in Nat /\ follower[f].next \in Nat
         /\ follower[f].cursor \in Nat /\ follower[f].pos \in Nat
         /\ follower[f].pos <= Len(bcast) /\ Len(bcast) \in Nat
         /\ DOMAIN bcast = 1 .. Len(bcast)
         /\ \A k \in DOMAIN bcast : bcast[k] \in S!Record /\ bcast[k].seq_num \in Nat
         /\ follower[f].sent \in Seq(S!Record \cup {Err})
         /\ follower[f].held \in S!Record \cup {Err, None}
         /\ (follower[f].held # None) <=> (follower[f].phase = "sending")
         /\ \A r \in RecordsSent(f) \cup Holding(f) : r \in S!Record /\ r.seq_num \in Nat
<1>1. follower[f] \in Follower /\ Fits(f) /\ bcast \in Seq(S!Record)
  BY DEF TypeOK, Fits
<1>2. \A r \in S!Record : r.seq_num \in Nat
  BY DEF S!Record
<1>3. follower[f].sent \in Seq(S!Record \cup {Err}) /\ follower[f].held \in S!Record \cup {Err, None}
  BY <1>1 DEF Follower
<1>4. \A r \in RecordsSent(f) \cup Holding(f) : r \in S!Record
  BY <1>3 DEF RecordsSent, Holding
<1>5. \A k \in DOMAIN bcast : bcast[k] \in S!Record
  BY <1>1
<1>6. /\ follower[f].start \in Nat /\ follower[f].next \in Nat
      /\ follower[f].cursor \in Nat /\ follower[f].pos \in Nat
  <2>1. \A start \in Starts \cup {0} : start \in Nat
    BY StreamActorAssumption
  <2>2. /\ follower[f].start \in Starts \cup {0} /\ follower[f].next \in Nat
        /\ follower[f].cursor \in Nat /\ follower[f].pos \in Nat
    BY <1>1 DEF Follower
  <2> QED BY <2>1, <2>2
<1> QED BY <1>1, <1>2, <1>3, <1>4, <1>5, <1>6, LenProperties DEF Fits

\* A follow stays in place while the actor makes progress.
LEMMA FollowAside ==
  ASSUME D!StoreInv, TypeOK, BroadcastInOrder, HasActor,
         NEW f \in Followers, FollowInv(f), follower'[f] = follower[f],
         AppendOver \/ UNCHANGED <<NextNum, bcast>>
  PROVE  FollowInv(f)'
<1>1. /\ RecordsSent(f)' = RecordsSent(f) /\ Holding(f)' = Holding(f)
      /\ On(f)' = On(f) /\ SentInPhase(f)' = SentInPhase(f)
      /\ Backfilling(f)' = Backfilling(f)
  BY DEF RecordsSent, Holding, On, SentInPhase, Backfilling
<1>2. CASE UNCHANGED <<NextNum, bcast>>
  BY <1>1, <1>2 DEF FollowInv, Position, Behind
<1>3. CASE AppendOver
  <2>1. /\ NextNum \in Nat /\ NextNum' = NextNum + 1
        /\ batch.record.seq_num = NextNum
        /\ bcast \in Seq(S!Record) /\ batch.record \in S!Record
    BY <1>3, StreamFacts DEF AppendOver, TypeOK
  <2>2. /\ \A k \in DOMAIN bcast : k \in DOMAIN bcast' /\ bcast'[k] = bcast[k]
        /\ \A k \in DOMAIN bcast' \ DOMAIN bcast : bcast'[k].seq_num = NextNum
    <3>1. CASE bcast' = bcast
      BY <3>1
    <3>2. CASE bcast' = Append(bcast, batch.record)
      <4>1. /\ Len(bcast) \in Nat /\ DOMAIN bcast = 1 .. Len(bcast)
            /\ Len(bcast') = Len(bcast) + 1 /\ DOMAIN bcast' = 1 .. Len(bcast')
            /\ \A i \in 1 .. Len(bcast) : bcast'[i] = bcast[i]
            /\ bcast'[Len(bcast) + 1] = batch.record
        BY <2>1, <3>2, AppendProperties, LenProperties
      <4>2. \A k \in DOMAIN bcast' \ DOMAIN bcast : k = Len(bcast) + 1
        BY <4>1
      <4>3. \A k \in DOMAIN bcast : k \in DOMAIN bcast'
        BY <4>1
      <4> QED BY <2>1, <4>1, <4>2, <4>3
    <3> QED BY <1>3, <3>1, <3>2 DEF AppendOver
  <2>3. ASSUME On(f) PROVE Position(f)'
    <3>1. Position(f)
      BY <2>3 DEF FollowInv
    <3> QED BY <1>1, <2>1, <2>2, <3>1, FollowFacts DEF Position
  <2>4. ASSUME On(f), NEW r \in RecordsSent(f) PROVE Behind(f, r)'
    <3>1. Behind(f, r)
      BY <2>4 DEF FollowInv
    <3>2. r.seq_num \in Nat
      BY FollowFacts
    <3>3. r.seq_num < NextNum' /\ (Backfilling(f) => r.seq_num < follower'[f].cursor)
      BY <2>1, <3>1, <3>2 DEF Behind
    <3>4. \A h \in Holding(f) : r.seq_num < h.seq_num
      BY <3>1 DEF Behind
    <3>5. \A k \in DOMAIN bcast' :
            follower'[f].pos < k /\ follower'[f].next <= bcast'[k].seq_num
              => r.seq_num < bcast'[k].seq_num
      BY <2>1, <2>2, <3>1, <3>2 DEF Behind
    <3> QED BY <1>1, <3>3, <3>4, <3>5 DEF Behind
  <2> QED BY <1>1, <2>3, <2>4 DEF FollowInv
<1> QED BY <1>2, <1>3

\* Sending adds to what was sent.
LEMMA SentAppended ==
  ASSUME TypeOK, NEW f \in Followers, NEW item \in S!Record \cup {Err},
         follower'[f].sent = Append(follower[f].sent, item)
  PROVE  /\ RecordsSent(f)' = RecordsSent(f) \cup ({item} \ {Err})
         /\ \A i \in DOMAIN follower[f].sent :
              i \in DOMAIN follower'[f].sent /\ follower'[f].sent[i] = follower[f].sent[i]
         /\ \A i \in DOMAIN follower'[f].sent :
              \/ i \in DOMAIN follower[f].sent
              \/ i = Len(follower[f].sent) + 1 /\ follower'[f].sent[i] = item
         /\ Len(follower[f].sent) + 1 \in DOMAIN follower'[f].sent
         /\ follower'[f].sent[Len(follower[f].sent) + 1] = item
         /\ Len(follower'[f].sent) = Len(follower[f].sent) + 1
<1> DEFINE old == follower[f].sent
           new == follower'[f].sent
<1>1. old \in Seq(S!Record \cup {Err}) /\ new = Append(old, item)
  BY FollowFacts
<1>2. /\ Len(old) \in Nat /\ DOMAIN old = 1 .. Len(old)
      /\ Len(new) = Len(old) + 1 /\ DOMAIN new = 1 .. Len(new)
      /\ \A i \in 1 .. Len(old) : new[i] = old[i]
      /\ new[Len(old) + 1] = item
  BY <1>1, AppendProperties, LenProperties
<1> DEFINE n == Len(old) + 1
<1>3. /\ \A i \in DOMAIN old : i \in DOMAIN new /\ new[i] = old[i]
      /\ \A i \in DOMAIN new : i \in DOMAIN old \/ (i = n /\ new[i] = item)
      /\ n \in DOMAIN new /\ new[n] = item
  BY <1>2
<1> HIDE DEF n
<1>4. RecordsSent(f) = {old[i] : i \in DOMAIN old} \ {Err}
  BY DEF RecordsSent
<1>5. RecordsSent(f)' = {new[i] : i \in DOMAIN new} \ {Err}
  BY DEF RecordsSent
<1> HIDE DEF old, new
<1>6. {new[i] : i \in DOMAIN new} = {old[i] : i \in DOMAIN old} \cup {item}
  BY <1>3
<1> QED BY <1>2, <1>3, <1>4, <1>5, <1>6 DEF old, new, n

\* A follow stays in place by its own steps.
LEMMA FollowMoves ==
  ASSUME D!StoreInv, TypeOK, BroadcastInOrder, HasActor,
         NEW f \in Followers, FollowInv(f), Moves(f)
  PROVE  FollowInv(f)'
<1>0. UNCHANGED <<NextNum, bcast, pc>> /\ NextNum \in Nat
  BY StreamFacts DEF Moves, streamVars, NextNum
<1>1. Err # None /\ Err \notin S!Record /\ None \notin S!Record
  BY StreamAssumption
<1>2. SentInPhase(f) /\ (On(f) => Position(f) /\ \A r \in RecordsSent(f) : Behind(f, r))
  BY DEF FollowInv
\* As long as nothing is sent, what was sent is the same.
<1>3. ASSUME follower'[f].sent = follower[f].sent
      PROVE  RecordsSent(f)' = RecordsSent(f)
  BY <1>3 DEF RecordsSent
<1>4. CASE Asks(f)
  BY <1>2, <1>4 DEF Asks, FollowInv, SentInPhase, On
<1>5. CASE Begins(f)
  <2>1. follower'[f].sent = << >> /\ RecordsSent(f)' = {} /\ Holding(f)' = {}
    <3>1. follower'[f].sent = << >>
      BY <1>2, <1>5 DEF Begins, SentInPhase
    <3>2. DOMAIN follower'[f].sent = {}
      BY <3>1
    <3> QED BY <1>5, <3>1, <3>2 DEF Begins, RecordsSent, Holding
  <2>2. SentInPhase(f)'
    BY <1>2, <1>5, <2>1 DEF Begins, SentInPhase
  <2>3. NextNum = alloc.next
    BY <1>5 DEF Begins, NextNum
  <2>4. Position(f)'
    BY <1>0, <1>5, <2>1, <2>3, FollowFacts DEF Begins, Position
  <2> QED BY <2>1, <2>2, <2>4 DEF FollowInv
<1>6. CASE Continues(f)
  <2>1. RecordsSent(f)' = RecordsSent(f) /\ Holding(f)' = Holding(f)
        /\ Backfilling(f)' = Backfilling(f) /\ On(f)' = On(f)
    BY <1>3, <1>6 DEF Continues, Becomes, Holding, Backfilling, On
  <2>2. SentInPhase(f)'
    BY <1>2, <1>6 DEF Continues, Becomes, SentInPhase
  <2>3. On(f) => Position(f)'
    BY <1>0, <1>2, <1>6, <2>1 DEF Continues, Becomes, Position
  <2>4. On(f) => \A r \in RecordsSent(f) : Behind(f, r)'
    BY <1>0, <1>2, <1>6, <2>1 DEF Continues, Becomes, Behind
  <2> QED BY <2>1, <2>2, <2>3, <2>4 DEF FollowInv
<1>7. CASE Finds(f)
  <2>1. /\ On(f) /\ Backfilling(f)
        /\ records[follower[f].cursor].seq_num = follower[f].cursor
        /\ records[follower[f].cursor] \in S!Record
    BY <1>2, <1>7, StreamFacts DEF Finds, On, Position
  <2>2. RecordsSent(f)' = RecordsSent(f) /\ Holding(f)' = {records[follower[f].cursor]}
        /\ Backfilling(f)' = Backfilling(f)
    BY <1>1, <1>3, <1>7, <2>1 DEF Finds, Becomes, Holding, Backfilling
  <2>3. SentInPhase(f)'
    BY <1>2, <1>7 DEF Finds, Becomes, SentInPhase
  <2>4. Position(f)'
    BY <1>0, <1>2, <1>7, <2>1, <2>2, FollowFacts DEF Finds, Becomes, Position, Backfilling
  <2>5. \A r \in RecordsSent(f) : Behind(f, r)'
    BY <1>0, <1>2, <1>7, <2>1, <2>2 DEF Finds, Becomes, Behind
  <2> QED BY <2>2, <2>3, <2>4, <2>5 DEF FollowInv
<1>8. CASE Skips(f)
  <2>1. On(f) /\ Backfilling(f)
    BY <1>2, <1>8 DEF Skips, On, Position
  <2>2. RecordsSent(f)' = RecordsSent(f) /\ Holding(f)' = {}
    BY <1>3, <1>8 DEF Skips, Becomes, Holding
  <2>3. SentInPhase(f)'
    BY <1>2, <1>8 DEF Skips, Becomes, SentInPhase
  <2>4. Position(f)'
    BY <1>0, <1>2, <1>8, <2>1, <2>2, FollowFacts DEF Skips, Becomes, Position
  <2>5. \A r \in RecordsSent(f) : Behind(f, r)'
    BY <1>0, <1>2, <1>8, <2>1, <2>2, FollowFacts DEF Skips, Becomes, Behind, Backfilling
  <2> QED BY <2>2, <2>3, <2>4, <2>5 DEF FollowInv
<1>9. CASE Fails(f)
  <2>1. On(f)
    BY <1>9 DEF Fails, On
  <2>2. RecordsSent(f)' = RecordsSent(f) /\ Holding(f)' = {}
        /\ Backfilling(f)' = Backfilling(f)
    BY <1>3, <1>9 DEF Fails, Becomes, Holding, Backfilling
  <2>3. SentInPhase(f)'
    BY <1>2, <1>9 DEF Fails, Becomes, SentInPhase
  <2>4. Position(f)'
    BY <1>0, <1>2, <1>9, <2>1, <2>2 DEF Fails, Becomes, Position
  <2>5. \A r \in RecordsSent(f) : Behind(f, r)'
    BY <1>0, <1>2, <1>9, <2>1, <2>2 DEF Fails, Becomes, Behind
  <2> QED BY <2>2, <2>3, <2>4, <2>5 DEF FollowInv
<1>10. CASE RelaysNext(f)
  <2> DEFINE k == follower[f].pos + 1
  <2>1. /\ On(f) /\ ~Backfilling(f) /\ k \in DOMAIN bcast
        /\ bcast[k] \in S!Record /\ bcast[k].seq_num < NextNum
        /\ follower[f].next <= bcast[k].seq_num
    BY <1>10, FollowFacts DEF RelaysNext, Receives, On, BroadcastInOrder
  <2>2. RecordsSent(f)' = RecordsSent(f) /\ Holding(f)' = {bcast[k]}
        /\ Backfilling(f)' = Backfilling(f)
    BY <1>1, <1>3, <1>10, <2>1 DEF RelaysNext, Becomes, Holding, Backfilling
  <2>3. SentInPhase(f)'
    BY <1>2, <1>10 DEF RelaysNext, Receives, Becomes, SentInPhase
  <2>4. Position(f)'
    BY <1>0, <1>2, <1>10, <2>1, <2>2, FollowFacts DEF RelaysNext, Becomes, Position
  <2>5. \A r \in RecordsSent(f) : Behind(f, r)'
    BY <1>0, <1>2, <1>10, <2>1, <2>2, FollowFacts DEF RelaysNext, Becomes, Behind
  <2> QED BY <2>2, <2>3, <2>4, <2>5 DEF FollowInv
<1>11. CASE DropsNext(f)
  <2>1. On(f) /\ ~Backfilling(f)
    BY <1>11 DEF DropsNext, Receives, On
  <2>2. RecordsSent(f)' = RecordsSent(f) /\ Holding(f)' = {}
        /\ Backfilling(f)' = Backfilling(f)
    BY <1>3, <1>11 DEF DropsNext, Becomes, Holding, Backfilling
  <2>3. SentInPhase(f)'
    BY <1>2, <1>11 DEF DropsNext, Receives, Becomes, SentInPhase
  <2>4. Position(f)'
    BY <1>0, <1>2, <1>11, <2>1, <2>2 DEF DropsNext, Becomes, Position
  <2>5. \A r \in RecordsSent(f) : Behind(f, r)'
    BY <1>0, <1>2, <1>11, <2>1, <2>2, FollowFacts DEF DropsNext, Becomes, Behind
  <2> QED BY <2>2, <2>3, <2>4, <2>5 DEF FollowInv
<1>12. CASE Delivers(f)
  <2>0. PICK h \in S!Record : h = follower[f].held
    BY <1>12, FollowFacts DEF Delivers
  <2>1. On(f) /\ h.seq_num \in Nat /\ h \in Holding(f) /\ h = follower[f].held
    BY <1>12, <2>0, FollowFacts DEF Delivers, On, Holding
  <2>2. /\ RecordsSent(f)' = RecordsSent(f) \cup {h} /\ Holding(f)' = {}
        /\ \A i \in DOMAIN follower'[f].sent :
             \/ i \in DOMAIN follower[f].sent /\ follower'[f].sent[i] = follower[f].sent[i]
             \/ follower'[f].sent[i] = h
    BY <1>1, <1>12, <2>1, SentAppended DEF Delivers, Becomes, Holding
  <2>3. SentInPhase(f)'
    BY <1>1, <1>2, <1>12, <2>1, <2>2 DEF Delivers, Becomes, SentInPhase
  <2>4. Position(f)'
    BY <1>0, <1>2, <1>12, <2>1, <2>2, FollowFacts DEF Delivers, Becomes, Position
  <2>5. \A r \in RecordsSent(f) : Behind(f, r)'
    <3>1. Backfilling(f)' => Backfilling(f) /\ follower'[f].cursor = follower[f].cursor + 1
      BY <1>12, FollowFacts DEF Delivers, Becomes, Backfilling
    <3> QED BY <1>0, <1>2, <1>12, <2>1, <2>2, <3>1, FollowFacts DEF Delivers, Becomes, Behind
  <2>6. Behind(f, h)'
    <3>1. h.seq_num < NextNum'
      BY <1>0, <1>2, <2>1 DEF Position
    <3>2. Backfilling(f)' => h.seq_num < follower'[f].cursor
      BY <1>2, <1>12, <2>1, FollowFacts DEF Delivers, Becomes, Backfilling, Position
    <3>3. ASSUME NEW k \in DOMAIN bcast, follower[f].pos < k,
                 follower[f].next <= bcast[k].seq_num
          PROVE  h.seq_num < bcast[k].seq_num
      <4>1. CASE Backfilling(f)
        <5>1. h.seq_num = follower[f].cursor /\ follower[f].cursor < follower[f].next
          BY <1>2, <2>1, <4>1 DEF Position, Backfilling
        <5> QED BY <3>3, <5>1, FollowFacts
      <4>2. CASE ~Backfilling(f)
        <5>1. follower[f].pos > 0 /\ h = bcast[follower[f].pos]
          BY <1>2, <2>1, <4>2 DEF Position
        <5>2. follower[f].pos \in DOMAIN bcast
          BY <5>1, FollowFacts
        <5> QED BY <3>3, <5>1, <5>2 DEF BroadcastInOrder
      <4> QED BY <4>1, <4>2
    <3>4. bcast' = bcast /\ follower'[f].pos = follower[f].pos /\ follower'[f].next = follower[f].next
      BY <1>0, <1>12 DEF Delivers, Becomes
    <3> QED BY <2>2, <3>1, <3>2, <3>3, <3>4 DEF Behind
  <2> QED BY <2>2, <2>3, <2>4, <2>5, <2>6 DEF FollowInv
<1>13. CASE Finishes(f)
  BY <1>13 DEF Finishes, FollowInv, SentInPhase, On
<1> QED
  BY <1>4, <1>5, <1>6, <1>7, <1>8, <1>9, <1>10, <1>11, <1>12, <1>13 DEF Moves

LEMMA ActorInvInit == Init => ActorInv
<1> SUFFICES ASSUME Init PROVE ActorInv
  OBVIOUS
<1>1. D!StoreInv
  BY StreamInit, D!StoreInvInit, StreamAssumption
     DEF S!SeqBlock, D!SeqBlock, S!FaultKinds, D!FaultKinds
<1>2. /\ inbox = << >> /\ bcast = << >> /\ DOMAIN inbox = {} /\ DOMAIN bcast = {}
      /\ ~HasActor
      /\ follower = [f \in Followers |-> NotFollowing]
  BY DEF Init, S!Init, HasActor
<1>3. TypeOK
  <2>1. Len(<< >>) = 0 /\ CommandBuffer \in Nat
    BY StreamActorAssumption
  <2>2. request \in [Appends -> Request]
    BY DEF Init, Request
  <2>3. follower \in [Followers -> Follower]
    BY <1>2, NotFollowingFits
  <2>4. \A f \in Followers : Fits(f)
    BY <1>2, <2>1, NotFollowingFits DEF Fits
  <2>5. inbox \in Seq(Command) /\ Len(inbox) <= CommandBuffer /\ bcast \in Seq(S!Record)
    BY <1>2, <2>1, EmptySeq
  <2>6. S!TypeOK
    BY <1>1, StreamFacts
  <2> QED BY <2>2, <2>3, <2>4, <2>5, <2>6 DEF TypeOK, Fits
<1>4. \A f \in Followers : FollowInv(f)
  BY <1>2, NotFollowingFits DEF FollowInv, SentInPhase, On
<1>5. QuietWithoutActor /\ MailboxFits /\ BroadcastInOrder /\ NextInRange
  BY <1>2 DEF QuietWithoutActor, MailboxFits, BroadcastInOrder, NextInRange
<1> QED BY <1>1, <1>3, <1>4, <1>5 DEF ActorInv

LEMMA ActorInvStep == ActorInv /\ [Next]_vars => ActorInv'
<1> SUFFICES ASSUME ActorInv, [Next]_vars PROVE ActorInv'
  OBVIOUS
<1> USE DEF ActorInv
<1>1. \A f \in Followers : FollowInv(f)'
  <2> SUFFICES ASSUME NEW f \in Followers PROVE FollowInv(f)'
    OBVIOUS
  <2>1. CASE ~HasActor' 
    <3>1. follower'[f] = NotFollowing
      BY <2>1, QuietKept DEF QuietWithoutActor
    <3>2. DOMAIN follower'[f].sent = {}
      BY <3>1, NotFollowingFits
    <3> QED BY <3>1, <3>2, NotFollowingFits DEF FollowInv, SentInPhase, On
  <2>2. CASE HasActor' /\ ~HasActor /\ ~Crash
    <3>1. follower'[f] = NotFollowing
      BY <2>2, NoActorSteps DEF QuietWithoutActor
    <3>2. DOMAIN follower'[f].sent = {}
      BY <3>1, NotFollowingFits
    <3> QED BY <3>1, <3>2, NotFollowingFits DEF FollowInv, SentInPhase, On
  <2>3. CASE HasActor /\ ~Crash /\ follower'[f] = follower[f]
    BY <2>3, ActorSteps, FollowAside
  <2>4. CASE HasActor /\ ~Crash /\ follower'[f] # follower[f]
    <3>1. Moves(f)
      BY <2>4, FollowSteps DEF Moves
    <3> QED BY <2>4, <3>1, FollowMoves
  <2>5. Crash => ~HasActor'
    BY DEF Crash, S!Crash, HasActor
  <2> QED BY <2>1, <2>2, <2>3, <2>4, <2>5
<1> QED
  BY <1>1, StoreKept, TypesKept, QuietKept, MailboxKept, BroadcastKept, RangeKept

\* ActorInv holds under every combination of failures.
THEOREM ActorInvHolds == Spec => []ActorInv
BY ActorInvInit, ActorInvStep, PTL DEF Spec

\* Type correctness: mailbox and channels keep to their bounds, and a task waits
\* to send exactly when it has something to send, whatever fails.
THEOREM ActorTypeCorrect == Spec => []TypeOK
<1>1. ActorInv => TypeOK
  BY DEF ActorInv
<1> QED BY <1>1, ActorInvHolds, PTL

\* A follower gets records in increasing order and none twice, with any number
\* of followers, any start, buffers of any size, and whatever fails.
THEOREM FollowersAreOrdered == Spec => []FollowerOrder
<1>1. Init => FollowerOrder
  <2> SUFFICES ASSUME Init, NEW f \in Followers PROVE DOMAIN follower[f].sent = {}
    BY DEF FollowerOrder
  <2> QED BY NotFollowingFits DEF Init
<1>2. ActorInv /\ FollowerOrder /\ [Next]_vars => FollowerOrder'
  <2> SUFFICES ASSUME ActorInv, FollowerOrder, [Next]_vars, NEW f \in Followers
               PROVE  \A i, j \in DOMAIN follower'[f].sent :
                        i < j => \/ follower'[f].sent[j] = Err
                                 \/ /\ follower'[f].sent[i] # Err
                                    /\ follower'[f].sent[i].seq_num < follower'[f].sent[j].seq_num
    BY DEF FollowerOrder
  <2>1. CASE DOMAIN follower'[f].sent = {}
    BY <2>1
  <2>2. CASE follower'[f].sent = follower[f].sent
    BY <2>2 DEF FollowerOrder
  <2>3. CASE Crash
    <3>1. follower'[f] = NotFollowing
      BY <2>3 DEF Crash
    <3> QED BY <2>1, <3>1, NotFollowingFits
  <2>4. CASE /\ Moves(f)
             /\ \E item \in S!Record \cup {Err} :
                  /\ follower'[f].sent = Append(follower[f].sent, item)
                  /\ item # Err => On(f) /\ item \in Holding(f)
    <3>1. PICK item \in S!Record \cup {Err} :
                  /\ follower'[f].sent = Append(follower[f].sent, item)
                  /\ item # Err => On(f) /\ item \in Holding(f)
      BY <2>4
    <3>2. \A i \in DOMAIN follower[f].sent :
            item # Err => /\ follower[f].sent[i] # Err
                          /\ follower[f].sent[i].seq_num < item.seq_num
      <4> SUFFICES ASSUME NEW i \in DOMAIN follower[f].sent, item # Err
                   PROVE  /\ follower[f].sent[i] # Err
                          /\ follower[f].sent[i].seq_num < item.seq_num
        OBVIOUS
      <4>1. follower[f].sent[i] # Err
        BY <3>1 DEF ActorInv, FollowInv, SentInPhase, On
      <4>2. follower[f].sent[i] \in RecordsSent(f)
        BY <4>1 DEF RecordsSent
      <4> QED BY <3>1, <4>1, <4>2 DEF ActorInv, FollowInv, Behind
    <3> DEFINE n == Len(follower[f].sent) + 1
    <3>3. /\ \A i \in DOMAIN follower'[f].sent :
               \/ i \in DOMAIN follower[f].sent /\ follower'[f].sent[i] = follower[f].sent[i]
               \/ i = n /\ follower'[f].sent[i] = item
          /\ \A i \in DOMAIN follower[f].sent : i \in Nat /\ i < n
      <4>1. /\ Len(follower[f].sent) \in Nat
            /\ DOMAIN follower[f].sent = 1 .. Len(follower[f].sent)
        BY FollowFacts, LenProperties DEF ActorInv
      <4> QED BY <3>1, <4>1, SentAppended DEF ActorInv
    <3>4. n \in Nat
      BY FollowFacts, LenProperties DEF ActorInv
    <3> HIDE DEF n
    <3> QED BY <3>2, <3>3, <3>4 DEF FollowerOrder
  <2>5. CASE Moves(f)
    <3>1. CASE Delivers(f)
      <4>1. On(f) /\ follower[f].held \in S!Record /\ follower[f].held \in Holding(f)
        BY <3>1, FollowFacts DEF Delivers, On, Holding, ActorInv
      <4> QED BY <2>4, <2>5, <3>1, <4>1 DEF Delivers, Becomes
    <3>2. CASE Finishes(f)
      BY <2>2, <2>4, <2>5, <3>2 DEF Finishes
    <3>3. CASE ~Delivers(f) /\ ~Finishes(f)
      BY <2>2, <2>5, <3>3
         DEF Moves, Asks, Begins, Continues, Finds, Skips, Fails, RelaysNext, DropsNext, Becomes
    <3> QED BY <3>1, <3>2, <3>3
  <2> QED BY <2>2, <2>3, <2>5, FollowSteps DEF ActorInv, Moves
<1> QED BY <1>1, <1>2, ActorInvHolds, PTL DEF Spec

\* No follow ends without a word, whatever fails: its client left, or the error
\* is the last item in its channel.
THEOREM EndsAreReported == Spec => []EndIsReported
<1>1. Init => EndIsReported
  BY NotFollowingFits DEF Init, EndIsReported
<1>2. ActorInv /\ EndIsReported /\ [Next]_vars => EndIsReported'
  <2> SUFFICES ASSUME ActorInv, EndIsReported, [Next]_vars, NEW f \in Followers,
                      follower'[f].phase = "ended"
               PROVE  \/ follower'[f].gone
                      \/ /\ follower'[f].sent # << >>
                         /\ follower'[f].sent[Len(follower'[f].sent)] = Err
    BY DEF EndIsReported
  <2>1. CASE Crash
    BY <2>1, NotFollowingFits DEF Crash
  <2>2. CASE follower'[f] = follower[f]
    BY <2>2 DEF EndIsReported
  <2>3. CASE Moves(f)
    <3>1. CASE Continues(f)
      BY <2>3, <3>1 DEF Moves, Continues, Becomes, EndIsReported
    <3>2. CASE Finishes(f)
      <4>1. CASE follower'[f].sent = Append(follower[f].sent, Err)
        <5>1. /\ Len(follower'[f].sent) = Len(follower[f].sent) + 1
              /\ follower'[f].sent[Len(follower[f].sent) + 1] = Err
              /\ Len(follower[f].sent) + 1 \in DOMAIN follower'[f].sent
          BY <4>1, SentAppended DEF ActorInv
        <5>2. follower'[f].sent # << >>
          BY <5>1
        <5> QED BY <5>1, <5>2
      <4> QED BY <3>2, <4>1 DEF Finishes
    <3> QED
      BY <2>3, <3>1, <3>2
         DEF Moves, Asks, Begins, Finds, Skips, Fails, RelaysNext, DropsNext, Delivers, Becomes
  <2> QED BY <2>1, <2>2, <2>3, FollowSteps DEF ActorInv, Moves
<1> QED BY <1>1, <1>2, ActorInvHolds, PTL DEF Spec

-----------------------------------------------------------------------------
(* LogInv is inductive under SafeFaults. *)

\* What is stored and acknowledged changes only as an append ends.
LEMMA LogSteps ==
  ASSUME D!StoreInv, D!OrderInv, TypeOK, [Next]_vars, ~Crash
  PROVE  \/ UNCHANGED <<records, acked>> /\ (AppendOver => bcast' = bcast)
         \/ /\ AppendOver /\ D!Applied
            /\ \/ /\ bcast' = Append(bcast, batch.record)
                  /\ acked' = acked \cup {batch.record}
               \/ bcast' = bcast /\ acked' = acked
<1>1. CASE FinishAppend
  <2>1. /\ pc = "applying" /\ S!Applied /\ acked' = acked \cup {batch.record}
        /\ bcast' = Append(bcast, batch.record)
    BY <1>1 DEF FinishAppend, S!AppendOk
  <2>2. AppendOver /\ HasActor
    BY <1>1, <2>1, ActorSteps, StreamFacts DEF HasActor, AppendOver, FinishAppend, S!AppendOk, NextNum
  <2> QED BY <2>1, <2>2 DEF S!Applied, D!Applied
<1>2. CASE FailAppend
  <2>1. /\ pc = "applying" /\ acked' = acked /\ bcast' = bcast
        /\ S!Applied \/ records' = records
    BY <1>2 DEF FailAppend, S!AppendFailed, S!FailedApply, S!stored
  <2>2. AppendOver
    BY <1>2, <2>1, StreamFacts DEF AppendOver, FailAppend, S!AppendFailed, NextNum
  <2> QED BY <2>1, <2>2 DEF S!Applied, D!Applied
<1>3. CASE ~FinishAppend /\ ~FailAppend
  <2>1. UNCHANGED <<records, acked>>
    BY <1>3
       DEF Next, vars, streamVars, Open, Actor, ServeAppend, ServeRead, ServeSubscribe, Settled,
           SendAppend, CancelAppend, Follow, Task, SendRead, Receive, Send, ClientTakes,
           Disconnect, S!NewMetadata, S!NewBlock, S!InterruptedNew, S!Load, S!StartAppend,
           S!stored
  <2> QED BY <1>3, <2>1 DEF AppendOver
<1> QED BY <1>1, <1>2, <1>3

\* No record is lost or replaced.
LEMMA RecordsStay ==
  ASSUME D!StoreInv, D!OrderInv, TypeOK, [Next]_vars
  PROVE  \A s \in DOMAIN records : s \in DOMAIN records' /\ records'[s] = records[s]
<1>1. records' = records \/ (pc = "applying" /\ D!Applied)
  <2>1. CASE Crash
    BY <2>1 DEF Crash, S!Crash, S!stored, S!Applied, D!Applied
  <2>2. CASE ~Crash
    BY <2>2, LogSteps DEF AppendOver
  <2> QED BY <2>1, <2>2
<1>2. CASE pc = "applying" /\ D!Applied
  BY <1>2, D!AppliedAppends, StreamAssumption
     DEF S!SeqBlock, D!SeqBlock, S!FaultKinds, D!FaultKinds
<1> QED BY <1>1, <1>2

\* What a follow has sent and holds stays in storage.
LEMMA SentStays ==
  ASSUME D!StoreInv, D!OrderInv, TypeOK, [Next]_vars,
         NEW f \in Followers, SentStored(f),
         (RecordsSent(f) \cup Holding(f))' \subseteq RecordsSent(f) \cup Holding(f)
  PROVE  SentStored(f)'
BY RecordsStay DEF SentStored

\* Nothing is missed by a follow while an append ends.
LEMMA NothingMissedAside ==
  ASSUME ActorInv, LogInv, [Next]_vars, ~Crash, HasActor,
         NEW f \in Followers, On(f), follower'[f] = follower[f]
  PROVE  NothingMissed(f)'
<1>1. /\ RecordsSent(f)' = RecordsSent(f) /\ Holding(f)' = Holding(f)
      /\ NothingMissed(f) /\ Position(f)
  BY DEF RecordsSent, Holding, LogInv, ActorInv, FollowInv
<1>2. CASE UNCHANGED <<records, acked, bcast>>
  BY <1>1, <1>2 DEF NothingMissed
<1>3. CASE /\ AppendOver /\ D!Applied
           /\ \/ /\ bcast' = Append(bcast, batch.record)
                 /\ acked' = acked \cup {batch.record}
              \/ bcast' = bcast /\ acked' = acked
  <2>1. /\ pc = "applying" /\ batch.record.seq_num = NextNum /\ NextNum \in Nat
        /\ bcast \in Seq(S!Record) /\ batch.record \in S!Record
    BY <1>3, StreamFacts DEF AppendOver, ActorInv, TypeOK
  <2>2. \A n \in DOMAIN records' :
          \/ n \in DOMAIN records /\ records'[n] = records[n]
          \/ n = NextNum
    BY <2>1, <1>3, D!AppliedAdds, RecordsStay DEF ActorInv, LogInv, D!Applied
  <2>3. /\ \A k \in DOMAIN bcast : k \in DOMAIN bcast' /\ bcast'[k] = bcast[k]
        /\ \A k \in DOMAIN bcast' : k <= Len(bcast) => k \in DOMAIN bcast
        /\ \A r \in acked' : r \in acked \/ \E k \in DOMAIN bcast' : bcast'[k] = r
    <3>1. CASE bcast' = bcast /\ acked' = acked
      BY <3>1
    <3>2. CASE bcast' = Append(bcast, batch.record) /\ acked' = acked \cup {batch.record}
      <4>1. /\ Len(bcast) \in Nat /\ DOMAIN bcast = 1 .. Len(bcast)
            /\ Len(bcast') = Len(bcast) + 1 /\ DOMAIN bcast' = 1 .. Len(bcast')
            /\ \A i \in 1 .. Len(bcast) : bcast'[i] = bcast[i]
            /\ bcast'[Len(bcast) + 1] = batch.record
        BY <2>1, <3>2, AppendProperties, LenProperties
      <4> QED BY <3>2, <4>1
    <3> QED BY <1>3, <3>1, <3>2
  <2>4. /\ follower[f].next \in Nat /\ follower[f].next <= NextNum
        /\ follower[f].pos \in Nat /\ follower[f].pos <= Len(bcast) /\ Len(bcast) \in Nat
    BY <1>1, FollowFacts DEF ActorInv, Position
  <2>5. \A n \in DOMAIN records' :
          follower'[f].start <= n /\ n < follower'[f].cursor /\ n < follower'[f].next
            => records'[n] \in RecordsSent(f)
    BY <1>1, <2>1, <2>2, <2>4 DEF NothingMissed
  <2>6. \A k \in DOMAIN bcast' :
          k <= follower'[f].pos /\ follower'[f].next <= bcast'[k].seq_num
            => bcast'[k] \in RecordsSent(f) \cup Holding(f)
    <3> SUFFICES ASSUME NEW k \in DOMAIN bcast', k <= follower[f].pos,
                        follower[f].next <= bcast'[k].seq_num
                 PROVE  bcast'[k] \in RecordsSent(f) \cup Holding(f)
      OBVIOUS
    <3>1. k \in Nat
      <4>1. bcast' \in Seq(S!Record)
        BY TypesKept DEF ActorInv, TypeOK
      <4> QED BY <4>1, LenProperties
    <3>2. k \in DOMAIN bcast /\ bcast'[k] = bcast[k]
      BY <2>3, <2>4, <3>1
    <3> QED BY <1>1, <3>2 DEF NothingMissed
  <2>7. \A r \in acked' :
          follower'[f].next <= r.seq_num => \E k \in DOMAIN bcast' : bcast'[k] = r
    BY <1>1, <2>3 DEF NothingMissed
  <2> QED BY <1>1, <2>5, <2>6, <2>7 DEF NothingMissed
<1>4. \/ UNCHANGED <<records, acked, bcast>>
      \/ /\ AppendOver /\ D!Applied
         /\ \/ /\ bcast' = Append(bcast, batch.record)
               /\ acked' = acked \cup {batch.record}
            \/ bcast' = bcast /\ acked' = acked
  BY LogSteps, ActorSteps DEF ActorInv, LogInv
<1> QED BY <1>2, <1>3, <1>4

\* A follow's own steps miss nothing and send what is stored.
LEMMA NothingMissedMoves ==
  ASSUME ActorInv, LogInv, [Next]_vars, HasActor, NEW f \in Followers, Moves(f)
  PROVE  SentStored(f)' /\ (On(f)' => NothingMissed(f)')
<1>0. /\ UNCHANGED <<records, acked, bcast, pc, alloc>>
      /\ Err # None /\ Err \notin S!Record /\ None \notin S!Record
      /\ D!StoreInv /\ D!OrderInv /\ TypeOK
      /\ SentInPhase(f) /\ SentStored(f) /\ BroadcastAcked
      /\ On(f) => NothingMissed(f) /\ Position(f)
  BY StreamAssumption DEF Moves, streamVars, ActorInv, LogInv, FollowInv
<1>1. ASSUME follower'[f].sent = follower[f].sent
      PROVE  RecordsSent(f)' = RecordsSent(f)
  BY <1>1 DEF RecordsSent
<1>2. follower'[f].held \in {Err, None} => Holding(f)' = {}
  BY DEF Holding
\* What was missed by nothing goes on to be, if the task stays where it is.
<1>3. ASSUME (RecordsSent(f) \cup Holding(f))' = RecordsSent(f) \cup Holding(f)
      PROVE  SentStored(f)'
  BY <1>0, <1>3, SentStays
<1>4. CASE Asks(f)
  <2>1. Holding(f)' = Holding(f)
    BY <1>4 DEF Asks, Holding
  <2> QED BY <1>1, <1>3, <1>4, <2>1 DEF Asks, On
<1>5. CASE Begins(f)
  <2>1. RecordsSent(f)' = {} /\ Holding(f)' = {}
    <3>1. follower'[f].sent = << >>
      BY <1>0, <1>5 DEF Begins, SentInPhase
    <3>2. DOMAIN follower'[f].sent = {}
      BY <3>1
    <3> QED BY <1>2, <1>5, <3>2 DEF Begins, RecordsSent
  <2>2. /\ alloc.next = NextNum /\ NextNum \in Nat /\ follower'[f].next = NextNum
        /\ follower'[f].cursor = follower'[f].start /\ follower'[f].start \in Nat
    BY <1>0, <1>5, StreamFacts, FollowFacts DEF Begins, HasActor
  <2>3. \A s \in DOMAIN records : s < NextNum /\ s \in Nat
    BY <1>0, <1>5, <2>2, StreamFacts, StreamAssumption DEF Begins, D!OrderInv, D!AllocatorAhead
  <2>4. \A r \in acked : r.seq_num \in DOMAIN records
    BY <1>0 DEF D!OrderInv, D!AckedDurable
  <2>5. \A k \in DOMAIN bcast : bcast[k].seq_num < NextNum /\ bcast[k].seq_num \in Nat
    BY <1>0, FollowFacts DEF ActorInv, BroadcastInOrder
  <2>6. NothingMissed(f)'
    BY <1>0, <2>2, <2>3, <2>4, <2>5 DEF NothingMissed
  <2>7. SentStored(f)'
    BY <2>1 DEF SentStored
  <2> QED BY <2>6, <2>7
<1>6. CASE Continues(f)
  <2>1. RecordsSent(f)' = RecordsSent(f) /\ Holding(f)' = Holding(f) /\ On(f)' = On(f)
    BY <1>1, <1>6 DEF Continues, Becomes, Holding, On
  <2>2. On(f) => NothingMissed(f)'
    BY <1>0, <1>6, <2>1 DEF Continues, Becomes, NothingMissed
  <2> QED BY <1>3, <2>1, <2>2
<1>7. CASE Finds(f)
  <2> DEFINE s == follower[f].cursor
  <2>1. /\ On(f) /\ Holding(f) = {} /\ s \in DOMAIN records
        /\ records[s].seq_num = s /\ records[s] \in S!Record
    BY <1>0, <1>7, FollowFacts, StreamFacts DEF Finds, On, Holding
  <2>2. RecordsSent(f)' = RecordsSent(f) /\ Holding(f)' = {records[s]}
    BY <1>0, <1>1, <1>7, <2>1 DEF Finds, Becomes, Holding
  <2>3. SentStored(f)'
    BY <1>0, <2>1, <2>2 DEF SentStored
  <2>4. NothingMissed(f)'
    BY <1>0, <1>7, <2>1, <2>2 DEF Finds, Becomes, NothingMissed
  <2> QED BY <2>3, <2>4
<1>8. CASE Skips(f)
  <2>1. On(f) /\ Holding(f) = {} /\ Holding(f)' = {} /\ RecordsSent(f)' = RecordsSent(f)
    BY <1>0, <1>1, <1>2, <1>8, FollowFacts DEF Skips, Becomes, On, Holding
  <2>2. /\ \A n \in DOMAIN records :
             n \in Nat /\ (n < follower'[f].cursor => n < follower[f].cursor)
    BY <1>0, <1>8, StreamFacts, FollowFacts, StreamAssumption DEF Skips, Becomes
  <2>3. NothingMissed(f)'
    BY <1>0, <1>8, <2>1, <2>2 DEF Skips, Becomes, NothingMissed
  <2> QED BY <1>3, <2>1, <2>3
<1>9. CASE Fails(f)
  <2>1. On(f) /\ Holding(f) = {} /\ Holding(f)' = {} /\ RecordsSent(f)' = RecordsSent(f)
    BY <1>0, <1>1, <1>2, <1>9, FollowFacts DEF Fails, Becomes, On, Holding
  <2>2. NothingMissed(f)'
    BY <1>0, <1>9, <2>1 DEF Fails, Becomes, NothingMissed
  <2> QED BY <1>3, <2>1, <2>2
<1>10. CASE RelaysNext(f) \/ DropsNext(f)
  <2> DEFINE k == follower[f].pos + 1
  <2>1. /\ On(f) /\ Holding(f) = {} /\ RecordsSent(f)' = RecordsSent(f)
        /\ k \in DOMAIN bcast /\ bcast[k] \in S!Record
        /\ follower'[f].pos = k /\ follower'[f].next = follower[f].next
        /\ follower'[f].start = follower[f].start /\ follower'[f].cursor = follower[f].cursor
    BY <1>0, <1>1, <1>10, FollowFacts
       DEF RelaysNext, DropsNext, Receives, Becomes, On, Holding
  <2>2. \/ Holding(f)' = {bcast[k]}
        \/ Holding(f)' = {} /\ ~(follower[f].next <= bcast[k].seq_num)
    BY <1>0, <1>2, <1>10, <2>1 DEF RelaysNext, DropsNext, Becomes, Holding
  <2>3. bcast[k].seq_num \in DOMAIN records /\ records[bcast[k].seq_num] = bcast[k]
    BY <1>0, <2>1 DEF BroadcastAcked, D!OrderInv, D!AckedDurable
  <2>4. \A j \in DOMAIN bcast : j <= k => j <= follower[f].pos \/ j = k
    BY <1>0, FollowFacts
  <2> HIDE DEF k
  <2>5. SentStored(f)'
    BY <1>0, <2>1, <2>2, <2>3 DEF SentStored
  <2>6. NothingMissed(f)'
    BY <1>0, <2>1, <2>2, <2>4 DEF NothingMissed
  <2> QED BY <2>5, <2>6
<1>11. CASE Delivers(f)
  <2>1. PICK h \in S!Record : h = follower[f].held
    BY <1>0, <1>11, FollowFacts DEF Delivers
  <2>2. /\ On(f) /\ Holding(f) = {h} /\ Holding(f)' = {}
        /\ RecordsSent(f)' = RecordsSent(f) \cup {h}
    BY <1>0, <1>2, <1>11, <2>1, SentAppended DEF Delivers, Becomes, On, Holding
  <2>3. SentStored(f)'
    BY <1>0, <2>2 DEF SentStored
  <2>4. ASSUME NEW n \in DOMAIN records, follower[f].start <= n,
               n < follower'[f].cursor, n < follower[f].next
        PROVE  records[n] \in RecordsSent(f) \cup {h}
    <3>1. n \in Nat
      BY <1>0, StreamFacts, StreamAssumption
    <3>2. CASE n < follower[f].cursor
      BY <1>0, <2>2, <2>4, <3>2 DEF NothingMissed
    <3>3. CASE ~(n < follower[f].cursor)
      <4>1. Backfilling(f) /\ n = follower[f].cursor
        BY <1>0, <1>11, <2>4, <3>1, <3>3, FollowFacts DEF Delivers, Becomes
      <4>2. h.seq_num = n
        BY <1>0, <2>2, <4>1 DEF Position
      <4> QED BY <1>0, <2>2, <4>2 DEF SentStored
    <3> QED BY <3>2, <3>3
  <2>5. NothingMissed(f)'
    BY <1>0, <1>11, <2>2, <2>4 DEF Delivers, Becomes, NothingMissed
  <2> QED BY <2>3, <2>5
<1>12. CASE Finishes(f)
  <2>1. Holding(f)' = {} /\ ~On(f)'
    BY <1>2, <1>12 DEF Finishes, On
  <2>2. RecordsSent(f)' = RecordsSent(f)
    <3>1. CASE follower'[f].sent = Append(follower[f].sent, Err)
      <4>1. RecordsSent(f)' = RecordsSent(f) \cup ({Err} \ {Err})
        BY <1>0, <3>1, SentAppended
      <4> QED BY <4>1
    <3> QED BY <1>1, <1>12, <3>1 DEF Finishes
  <2> QED BY <1>0, <2>1, <2>2, SentStays
<1> QED
  BY <1>4, <1>5, <1>6, <1>7, <1>8, <1>9, <1>10, <1>11, <1>12 DEF Moves

LEMMA LogInvInit == Init => LogInv
<1> SUFFICES ASSUME Init PROVE LogInv
  OBVIOUS
<1>1. D!OrderInv
  BY StreamInit, D!OrderInvInit, StreamAssumption
     DEF S!SeqBlock, D!SeqBlock, S!FaultKinds, D!FaultKinds
<1>2. /\ DOMAIN bcast = {}
      /\ \A f \in Followers : /\ DOMAIN follower[f].sent = {} /\ follower[f].held = None
                              /\ follower[f].phase = "idle"
  BY NotFollowingFits DEF Init
<1> QED BY <1>1, <1>2 DEF LogInv, BroadcastAcked, SentStored, RecordsSent, Holding, On

LEMMA LogInvStep ==
  ASSUME S!SafeFaults, ActorInv, LogInv, [Next]_vars
  PROVE  LogInv'
<1>0. D!StoreInv /\ D!OrderInv /\ TypeOK /\ QuietWithoutActor
  BY DEF ActorInv, LogInv
<1>1. D!OrderInv'
  BY <1>0, StreamSteps, D!OrderInvStep, StreamAssumption
     DEF S!SeqBlock, D!SeqBlock, S!FaultKinds, D!FaultKinds, S!SafeFaults, D!SafeFaults,
         S!NoBlockLost, D!NoBlockLost
\* A follow that is not there has nothing to miss.
<1>2. ASSUME NEW f \in Followers, follower'[f] = NotFollowing
      PROVE  SentStored(f)' /\ ~On(f)'
  <2>1. DOMAIN follower'[f].sent = {} /\ follower'[f].held = None /\ follower'[f].phase = "idle"
    BY <1>2, NotFollowingFits
  <2> QED BY <2>1 DEF SentStored, RecordsSent, Holding, On
<1>3. CASE bcast' = << >> /\ \A f \in Followers : follower'[f] = NotFollowing
  <2>1. DOMAIN bcast' = {}
    BY <1>3
  <2> QED BY <1>1, <1>2, <1>3, <2>1 DEF LogInv, BroadcastAcked
<1>4. CASE HasActor /\ ~Crash
  <2>1. BroadcastAcked'
    <3>1. CASE UNCHANGED <<acked, bcast>>
      BY <3>1 DEF LogInv, BroadcastAcked
    <3>2. CASE AppendOver /\ bcast' = Append(bcast, batch.record) /\ acked' = acked \cup {batch.record}
      <4>1. bcast \in Seq(S!Record) /\ batch.record \in S!Record
        BY <1>0, <3>2, StreamFacts DEF AppendOver, TypeOK
      <4>2. /\ Len(bcast) \in Nat /\ DOMAIN bcast = 1 .. Len(bcast)
            /\ Len(bcast') = Len(bcast) + 1 /\ DOMAIN bcast' = 1 .. Len(bcast')
            /\ \A i \in 1 .. Len(bcast) : bcast'[i] = bcast[i]
            /\ bcast'[Len(bcast) + 1] = batch.record
        BY <3>2, <4>1, AppendProperties, LenProperties
      <4>3. \A i \in DOMAIN bcast' : i \in DOMAIN bcast \/ i = Len(bcast) + 1
        BY <4>2
      <4> QED BY <3>2, <4>2, <4>3 DEF LogInv, BroadcastAcked
    <3> QED BY <1>0, <1>4, <3>1, <3>2, LogSteps, ActorSteps
  <2>2. ASSUME NEW f \in Followers PROVE SentStored(f)' /\ (On(f)' => NothingMissed(f)')
    <3>1. CASE follower'[f] = follower[f]
      <4>1. /\ On(f)' = On(f) /\ RecordsSent(f)' = RecordsSent(f) /\ Holding(f)' = Holding(f)
            /\ SentStored(f)
        BY <3>1 DEF On, RecordsSent, Holding, LogInv
      <4> QED BY <1>0, <1>4, <3>1, <4>1, SentStays, NothingMissedAside
    <3>2. CASE follower'[f] # follower[f]
      BY <1>0, <1>4, <3>2, FollowSteps, NothingMissedMoves DEF Moves, ActorInv
    <3> QED BY <3>1, <3>2
  <2> QED BY <1>1, <2>1, <2>2 DEF LogInv
<1>5. CASE ~HasActor /\ ~Crash
  BY <1>0, <1>3, <1>5, NoActorSteps DEF QuietWithoutActor
<1>6. CASE Crash
  BY <1>3, <1>6 DEF Crash
<1> QED BY <1>4, <1>5, <1>6

\* LogInv holds under SafeFaults.
THEOREM LogInvHolds == ASSUME S!SafeFaults PROVE Spec => []LogInv
BY ActorInvHolds, LogInvInit, LogInvStep, PTL DEF Spec

\* The actor with all its requests, followers and clients is a DurableStream:
\* what the actor does between a StartAppend and its end is nothing to storage.
THEOREM ActorImplementsStream == Spec => S!Spec
<1>1. Init => S!Init
  BY DEF Init
<1>2. TypeOK /\ [Next]_vars => [S!Next]_(S!vars)
  <2>1. TypeOK /\ [Next]_vars => [D!Next]_(D!vars)
    BY StreamSteps
  <2>2. [D!Next]_(D!vars) => [S!Next]_(S!vars)
    <3>1. ASSUME NEW d \in Appends, D!StartAppend(d) PROVE S!StartAppend(d)
      BY <3>1 DEF S!StartAppend, D!StartAppend, S!stored, D!stored,
         S!Allocate, D!Allocate, S!BlockToPersist, D!BlockToPersist, S!Rolls, D!Rolls,
         S!Remaining, D!Remaining, S!NextBase, D!NextBase, S!Following, D!Following
    <3>2. D!NewMetadata \/ D!NewBlock \/ D!InterruptedNew \/ D!Load => S!Next
      BY DEF S!Next, S!NewMetadata, S!NewBlock, S!InterruptedNew, S!Load,
         D!NewMetadata, D!NewBlock, D!InterruptedNew, D!Load, S!stored, D!stored,
         S!DefaultAllocator, D!DefaultAllocator, S!FromBlock, D!FromBlock,
         S!NextBase, D!NextBase
    <3>3. D!AppendOk \/ D!AppendFailed \/ D!Crash => S!Next
      BY DEF S!Next, S!AppendOk, D!AppendOk, S!Applied, D!Applied,
         S!AppendFailed, D!AppendFailed, S!FailedApply, D!FailedApply,
         S!Crash, D!Crash, S!stored, D!stored
    <3>4. D!BoundReached => S!Next
      BY DEF S!Next, S!BoundReached, D!BoundReached, S!vars, D!vars, S!stored, D!stored
    <3>5. UNCHANGED D!vars => UNCHANGED S!vars
      BY DEF S!vars, D!vars, S!stored, D!stored
    <3> QED BY <3>1, <3>2, <3>3, <3>4, <3>5 DEF D!Next, S!Next
  <2> QED BY <2>1, <2>2
<1> QED BY <1>1, <1>2, ActorTypeCorrect, PTL DEF Spec, S!Spec

\* What an append was acknowledged for is in storage and stays there, whoever
\* reads, follows, cancels or leaves.
THEOREM AcknowledgedStaysStored == ASSUME S!SafeFaults PROVE Spec => []S!AckedDurable
<1>1. LogInv => S!AckedDurable
  BY DEF LogInv, D!OrderInv, D!AckedDurable, S!AckedDurable
<1> QED BY <1>1, LogInvHolds, PTL

\* No step of the actor and its clients replaces or removes a stored record.
THEOREM ActorNeverRewrites == ASSUME S!SafeFaults PROVE Spec => S!AppendOnly
<1>1. ActorInv /\ LogInv /\ [Next]_vars =>
        [\A s \in DOMAIN records : s \in DOMAIN records' /\ records'[s] = records[s]]_(S!vars)
  BY RecordsStay DEF ActorInv, LogInv
<1> QED BY <1>1, ActorInvHolds, LogInvHolds, PTL DEF Spec, S!AppendOnly

\* However many appends were queued or cancelled when the process ended, the
\* actor that loads the stream again skips one block of numbers at most.
THEOREM ActorRestartWastesABlock == Spec => []S!RestartWasteBounded
<1>1. ActorInv => S!RestartWasteBounded
  <2>1. ActorInv => D!RestartWasteBounded
    BY D!WasteFollows, StreamAssumption
       DEF ActorInv, S!SeqBlock, D!SeqBlock, S!FaultKinds, D!FaultKinds
  <2> QED BY <2>1 DEF D!RestartWasteBounded, S!RestartWasteBounded, D!RestartPoint,
                      S!RestartPoint, D!NextBase, S!NextBase
<1> QED BY <1>1, ActorInvHolds, PTL

-----------------------------------------------------------------------------
(* What clients may rely on under SafeFaults. *)

\* A running task has sent every record it owes that lies below all it has
\* still to send.
LEMMA OwedWasSent ==
  ASSUME ActorInv, LogInv, NEW f \in Followers, On(f), NEW s \in Nat,
         Backfilling(f) => s <= follower[f].cursor,
         \A h \in Holding(f) : s <= h.seq_num,
         \A k \in DOMAIN bcast :
           follower[f].pos < k /\ follower[f].next <= bcast[k].seq_num => s <= bcast[k].seq_num,
         NEW n \in DOMAIN records, follower[f].start <= n, n < s,
         n < follower[f].next \/ records[n] \in acked
  PROVE  records[n] \in RecordsSent(f)
<1>1. NothingMissed(f) /\ TypeOK /\ n \in Nat /\ records[n].seq_num = n
  BY StreamFacts, StreamAssumption DEF LogInv, ActorInv
<1>2. CASE n < follower[f].next
  <2>1. n < follower[f].cursor
    BY <1>1, <1>2, FollowFacts DEF Backfilling
  <2> QED BY <1>1, <1>2, <2>1 DEF NothingMissed
<1>3. CASE ~(n < follower[f].next)
  <2>1. follower[f].next <= n /\ ~Backfilling(f)
    BY <1>1, <1>3, FollowFacts DEF Backfilling
  <2>2. PICK k \in DOMAIN bcast : bcast[k] = records[n]
    BY <1>1, <1>3, <2>1 DEF NothingMissed
  <2>3. k <= follower[f].pos
    BY <1>1, <2>1, <2>2, FollowFacts
  <2>4. records[n] \in RecordsSent(f) \cup Holding(f)
    BY <1>1, <2>1, <2>2, <2>3 DEF NothingMissed
  <2>5. records[n] \notin Holding(f)
    BY <1>1
  <2> QED BY <2>4, <2>5
<1> QED BY <1>2, <1>3

\* The tail that answers an append is one past its own record, whatever other
\* requests are queued, cancelled or failed.
THEOREM AcksNameTheirRecord == ASSUME S!SafeFaults PROVE Spec => []AckNamesOwnRecord
<1>1. Init => AckNamesOwnRecord
  BY DEF Init, AckNamesOwnRecord
<1>2. ActorInv /\ LogInv /\ AckNamesOwnRecord /\ [Next]_vars => AckNamesOwnRecord'
  <2> SUFFICES ASSUME ActorInv, LogInv, AckNamesOwnRecord, [Next]_vars,
                      NEW c \in Appends, request'[c].status = "ok"
               PROVE  /\ request'[c].tail - 1 \in DOMAIN records'
                      /\ records'[request'[c].tail - 1].data = c
    BY DEF AckNamesOwnRecord
  <2>1. CASE request'[c] = request[c]
    BY <2>1, RecordsStay DEF AckNamesOwnRecord, ActorInv, LogInv
  <2>2. CASE FinishAppend /\ request'[c] # request[c]
    <3>1. /\ pc = "applying" /\ D!Applied
          /\ c = batch.record.data /\ request'[c].tail = alloc.next
      BY <2>2 DEF FinishAppend, S!AppendOk, S!Applied, D!Applied, Reply, ActorInv, TypeOK
    <3>2. alloc.next - 1 = batch.record.seq_num
      BY <3>1, StreamFacts, StreamAssumption DEF ActorInv, S!Record
    <3>3. batch.record.seq_num \in DOMAIN records' /\ records'[batch.record.seq_num] = batch.record
      BY <3>1, D!AppliedAdds, StreamAssumption
         DEF ActorInv, S!SeqBlock, D!SeqBlock, S!FaultKinds, D!FaultKinds
    <3> QED BY <3>1, <3>2, <3>3
  <2>3. request'[c] = request[c] \/ FinishAppend
    <3>1. request \in [Appends -> Request]
      BY DEF ActorInv, TypeOK
    <3>2. ASSUME NEW d \in Appends, SendAppend(d) \/ CancelAppend(d)
          PROVE  request'[c] = request[c]
      BY <3>1, <3>2 DEF SendAppend, CancelAppend, Request
    <3>3. CASE FailAppend
      BY <3>1, <3>3 DEF FailAppend, Reply
    <3>4. CASE Crash
      BY <3>1, <3>4 DEF Crash, Request
    <3> QED
      BY <3>2, <3>3, <3>4
         DEF Next, vars, Open, Actor, ServeAppend, ServeRead, ServeSubscribe, Settled, Follow,
             Task, SendRead, Receive, Send, ClientTakes, Disconnect
  <2> QED BY <2>1, <2>2, <2>3
<1> QED BY <1>1, <1>2, ActorInvHolds, LogInvHolds, PTL DEF Spec

\* The part of NoAckedRecordSkipped about one follow.
NothingSkipped(f) ==
  \A last \in RecordsSent(f) : \A r \in acked :
    follower[f].start <= r.seq_num /\ r.seq_num <= last.seq_num
      => r \in RecordsSent(f)

\* A task that runs has skipped nothing.
LEMMA RunningSkipsNothing ==
  ASSUME ActorInv, LogInv, NEW f \in Followers, On(f)
  PROVE  NothingSkipped(f)
<1> SUFFICES ASSUME NEW last \in RecordsSent(f), NEW r \in acked,
                    follower[f].start <= r.seq_num, r.seq_num <= last.seq_num
             PROVE  r \in RecordsSent(f)
  BY DEF NothingSkipped
<1>1. /\ r.seq_num \in DOMAIN records /\ records[r.seq_num] = r
      /\ r.seq_num \in Nat /\ last.seq_num \in Nat
      /\ Behind(f, last) /\ TypeOK
  BY FollowFacts, StreamFacts, StreamAssumption
     DEF ActorInv, LogInv, FollowInv, D!OrderInv, D!AckedDurable
<1> DEFINE s == last.seq_num + 1
<1>2. /\ s \in Nat /\ r.seq_num < s
      /\ Backfilling(f) => s <= follower[f].cursor
      /\ \A h \in Holding(f) : s <= h.seq_num
      /\ \A k \in DOMAIN bcast :
           follower[f].pos < k /\ follower[f].next <= bcast[k].seq_num => s <= bcast[k].seq_num
  BY <1>1, FollowFacts DEF Behind
<1> HIDE DEF s
<1> QED BY <1>1, <1>2, OwedWasSent

\* A follower that got a record got every acknowledged record from its start up
\* to it: none falls between backfill and broadcast, through restarts, failed
\* writes, lagging and clients that leave.
THEOREM NothingAckedIsSkipped == ASSUME S!SafeFaults PROVE Spec => []NoAckedRecordSkipped
<1> DEFINE Running == \A f \in Followers : On(f) => NothingSkipped(f)
           Skipless == \A f \in Followers : NothingSkipped(f)
<1>1. ActorInv /\ LogInv => Running
  BY RunningSkipsNothing
<1>2. Init => Skipless
  <2> SUFFICES ASSUME Init, NEW f \in Followers PROVE DOMAIN follower[f].sent = {}
    BY DEF NothingSkipped, RecordsSent
  <2> QED BY NotFollowingFits DEF Init
<1>3. ActorInv /\ LogInv /\ Running' /\ Skipless /\ [Next]_vars => Skipless'
  <2> SUFFICES ASSUME ActorInv, LogInv, Running', Skipless, [Next]_vars,
                      NEW f \in Followers, ~On(f)'
               PROVE  NothingSkipped(f)'
    OBVIOUS
  <2> HIDE DEF Running
  <2>1. CASE Crash
    <3>1. follower'[f] = NotFollowing
      BY <2>1 DEF Crash
    <3>2. DOMAIN follower'[f].sent = {}
      BY <3>1, NotFollowingFits
    <3> QED BY <3>2 DEF NothingSkipped, RecordsSent
  <2>2. CASE Moves(f)
    <3>0. acked' = acked /\ TypeOK
      BY <2>2 DEF ActorInv, Moves, streamVars
    <3>1. RecordsSent(f)' = RecordsSent(f)
      <4>1. CASE follower'[f].sent = Append(follower[f].sent, Err)
        <5>1. RecordsSent(f)' = RecordsSent(f) \cup ({Err} \ {Err})
          BY <3>0, <4>1, SentAppended
        <5> QED BY <5>1
      <4>2. CASE follower'[f].sent = follower[f].sent
        BY <4>2 DEF RecordsSent
      <4>3. Asks(f) \/ Continues(f) \/ Finishes(f)
        BY <2>2
           DEF Moves, Begins, Finds, Skips, Fails, RelaysNext, DropsNext, Delivers, Becomes, On
      <4>4. \/ follower'[f].sent = follower[f].sent
            \/ follower'[f].sent = Append(follower[f].sent, Err)
        BY <4>3 DEF Asks, Continues, Finishes, Becomes
      <4> QED BY <4>1, <4>2, <4>4
    <3>2. CASE follower'[f].start = follower[f].start
      BY <3>0, <3>1, <3>2 DEF NothingSkipped
    <3>3. CASE Asks(f)
      <4>1. follower'[f].sent = << >>
        BY <3>3 DEF Asks, ActorInv, FollowInv, SentInPhase
      <4>2. DOMAIN follower'[f].sent = {}
        BY <4>1
      <4> QED BY <4>2 DEF NothingSkipped, RecordsSent
    <3> QED
      BY <2>2, <3>2, <3>3
         DEF Moves, Begins, Continues, Finds, Skips, Fails, RelaysNext, DropsNext, Delivers,
             Finishes, Becomes
  <2>3. CASE follower'[f] = follower[f] /\ ~Crash
    <3>1. RecordsSent(f)' = RecordsSent(f) /\ NothingSkipped(f)
      BY <2>3 DEF RecordsSent
    <3>2. CASE acked' = acked
      BY <2>3, <3>1, <3>2 DEF NothingSkipped
    <3>3. CASE AppendOver /\ acked' = acked \cup {batch.record}
      <4>1. pc = "applying"
        BY <3>3 DEF AppendOver
      <4>2. \A last \in RecordsSent(f) : ~(batch.record.seq_num <= last.seq_num)
        <5> SUFFICES ASSUME NEW last \in RecordsSent(f)
                     PROVE  ~(batch.record.seq_num <= last.seq_num)
          OBVIOUS
        <5>1. last.seq_num \in DOMAIN records
          BY DEF LogInv, SentStored
        <5>2. last.seq_num < batch.record.seq_num
          BY <4>1, <5>1 DEF LogInv, D!OrderInv, D!AllocatorAhead
        <5>3. last.seq_num \in Nat /\ batch.record.seq_num \in Nat
          BY <4>1, <5>1, StreamFacts, StreamAssumption, FollowFacts DEF ActorInv, HasActor
        <5> QED BY <5>2, <5>3
      <4> QED BY <2>3, <3>1, <3>3, <4>2 DEF NothingSkipped
    <3> QED BY <2>3, <3>2, <3>3, LogSteps DEF ActorInv, LogInv
  <2> QED BY <2>1, <2>2, <2>3, FollowSteps DEF ActorInv, Moves
<1>4. Skipless => NoAckedRecordSkipped
  BY DEF NothingSkipped, NoAckedRecordSkipped
<1> HIDE DEF Running, Skipless
<1> QED BY <1>1, <1>2, <1>3, <1>4, ActorInvHolds, LogInvHolds, PTL DEF Spec

-----------------------------------------------------------------------------
(* The actor and its followers implement the followed log. *)

Promised == [f \in Followers |-> Promise(f)]

\* A promise in full, as the phase has it.
LEMMA PromiseIs ==
  ASSUME NEW f \in Followers
  PROVE  /\ On(f) => Promise(f) = [on |-> TRUE, start |-> follower[f].start,
                                   tail |-> follower[f].next, got |-> RecordsSent(f)]
         /\ ~On(f) => Promise(f) = [on |-> FALSE, start |-> 0, tail |-> 0,
                                    got |-> RecordsSent(f)]
         /\ On(f)' => Promise(f)' = [on |-> TRUE, start |-> follower'[f].start,
                                     tail |-> follower'[f].next, got |-> RecordsSent(f)']
         /\ ~On(f)' => Promise(f)' = [on |-> FALSE, start |-> 0, tail |-> 0,
                                      got |-> RecordsSent(f)']
<1>1. ASSUME On(f)
      PROVE  Promise(f) = [on |-> TRUE, start |-> follower[f].start,
                           tail |-> follower[f].next, got |-> RecordsSent(f)]
  <2>1. (follower[f].phase \in {"running", "reading", "sending"}) = TRUE
    BY <1>1 DEF On
  <2> QED BY <2>1, Zenon DEF Promise
<1>2. ASSUME ~On(f)
      PROVE  Promise(f) = [on |-> FALSE, start |-> 0, tail |-> 0, got |-> RecordsSent(f)]
  <2>1. (follower[f].phase \in {"running", "reading", "sending"}) = FALSE
    BY <1>2 DEF On
  <2> QED BY <2>1, Zenon DEF Promise
<1>3. ASSUME On(f)'
      PROVE  Promise(f)' = [on |-> TRUE, start |-> follower'[f].start,
                            tail |-> follower'[f].next, got |-> RecordsSent(f)']
  <2>1. (follower'[f].phase \in {"running", "reading", "sending"}) = TRUE
    BY <1>3 DEF On
  <2> QED BY <2>1, Zenon DEF Promise
<1>4. ASSUME ~On(f)'
      PROVE  Promise(f)' = [on |-> FALSE, start |-> 0, tail |-> 0, got |-> RecordsSent(f)']
  <2>1. (follower'[f].phase \in {"running", "reading", "sending"}) = FALSE
    BY <1>4 DEF On
  <2> QED BY <2>1, Zenon DEF Promise
<1> QED BY <1>1, <1>2, <1>3, <1>4

\* apply puts the batch's record in the followed log.
LEMMA AppliedEntersLog ==
  ASSUME D!StoreInv, D!OrderInv, pc = "applying", D!Applied
  PROVE  batch.record \in FL!Log!Record /\ FL!Log!Enter(batch.record)
<1>1. /\ batch.record.seq_num \in 0 .. MaxSeqNum + BlockSize + 1
      /\ batch.record \in S!Record
  BY StreamFacts, StreamAssumption DEF HasActor
<1>2. batch.record \in FL!Log!Record
  BY <1>1 DEF S!Record, FL!Log!Record
<1>3. \A s \in DOMAIN records : s < batch.record.seq_num
  BY D!AppliedAppends, StreamAssumption
     DEF S!SeqBlock, D!SeqBlock, S!FaultKinds, D!FaultKinds
<1>4. FL!Log!Enter(batch.record)
  BY <1>3 DEF D!Applied, FL!Log!Enter
<1> QED BY <1>2, <1>4

\* A step that moves one promise, and what it makes of them all.
LEMMA OnePromiseMoves ==
  ASSUME NEW f \in Followers, \A g \in Followers \ {f} : follower'[g] = follower[g],
         NEW p, Promise(f)' = p
  PROVE  Promised' = [Promised EXCEPT ![f] = p]
<1>1. \A g \in Followers \ {f} : Promise(g)' = Promise(g)
  BY DEF Promise, RecordsSent
<1> QED BY <1>1 DEF Promised

\* A step of one follow is a step of its promise or leaves it.
LEMMA MovesRefine ==
  ASSUME ActorInv, LogInv, HasActor, NEW f \in Followers, Moves(f)
  PROVE  FL!Follow(f) \/ UNCHANGED <<records, acked, Promised>>
<1>0. /\ UNCHANGED <<records, acked, bcast>>
      /\ \A g \in Followers \ {f} : follower'[g] = follower[g]
      /\ D!StoreInv /\ D!OrderInv /\ TypeOK
      /\ SentInPhase(f) /\ SentStored(f)
      /\ On(f) => NothingMissed(f) /\ Position(f) /\ \A r \in RecordsSent(f) : Behind(f, r)
      /\ Promised[f] = Promise(f)
      /\ Err # None /\ Err \notin S!Record
  BY StreamAssumption DEF Moves, streamVars, ActorInv, LogInv, FollowInv, Promised
\* What others see of f is the same.
<1>1. ASSUME On(f)' <=> On(f), RecordsSent(f)' = RecordsSent(f),
             On(f) => /\ follower'[f].start = follower[f].start
                      /\ follower'[f].next = follower[f].next
      PROVE  UNCHANGED <<records, acked, Promised>>
  <2>1. Promise(f)' = Promise(f)
    BY <1>1, PromiseIs
  <2>2. Promised' = [Promised EXCEPT ![f] = Promise(f)]
    BY <1>0, <2>1, OnePromiseMoves
  <2> QED BY <1>0, <2>2 DEF Promised
<1>2. CASE Begins(f)
  <2> DEFINE start == follower[f].start
             tail == alloc.next
  <2>1. follower[f].sent = << >> /\ start \in Starts
    BY <1>0, <1>2 DEF Begins, SentInPhase
  <2>2. RecordsSent(f) = {} /\ RecordsSent(f)' = {}
    <3>1. DOMAIN follower[f].sent = {} /\ DOMAIN follower'[f].sent = {}
      BY <1>2, <2>1 DEF Begins
    <3> QED BY <3>1 DEF RecordsSent
  <2>3. tail \in 0 .. MaxSeqNum + BlockSize + 1
    <3>1. tail = NextNum /\ NextNum \in Nat /\ NextNum <= MaxSeqNum + BlockSize + 1
      BY <1>0, <1>2, StreamFacts DEF Begins, ActorInv, NextInRange
    <3>2. BlockSize \in Nat /\ MaxSeqNum \in Nat
      BY StreamAssumption
    <3> HIDE DEF tail
    <3> QED BY <3>1, <3>2
  <2>4. Promise(f) = FL!NoFollow
    <3>1. ~On(f)
      BY <1>2 DEF Begins, On
    <3> QED BY <2>2, <3>1, PromiseIs DEF FL!NoFollow
  <2>5. Promise(f)' = [on |-> TRUE, start |-> start, tail |-> tail, got |-> {}]
    <3>1. On(f)' /\ follower'[f].start = start /\ follower'[f].next = tail
      BY <1>2 DEF Begins, On
    <3> QED BY <2>2, <3>1, PromiseIs
  <2>6. \A s \in DOMAIN records : s < tail
    BY <1>0, <1>2 DEF Begins, D!OrderInv, D!AllocatorAhead
  <2>7. Promised' = [Promised EXCEPT ![f] = [on |-> TRUE, start |-> start, tail |-> tail, got |-> {}]]
    BY <1>0, <2>5, OnePromiseMoves
  <2> HIDE DEF start, tail
  <2>8. FL!Begin(f, start, tail)
    BY <2>6, <2>7 DEF FL!Begin, Promised
  <2> QED BY <1>0, <2>1, <2>3, <2>4, <2>8 DEF FL!Follow, Promised
<1>3. CASE Delivers(f)
  <2>1. PICK h \in S!Record : h = follower[f].held /\ h.seq_num \in Nat
    BY <1>0, <1>3, FollowFacts DEF Delivers, Holding
  <2>2. /\ On(f) /\ On(f)' /\ Holding(f) = {h}
        /\ RecordsSent(f)' = RecordsSent(f) \cup {h}
        /\ follower'[f].start = follower[f].start /\ follower'[f].next = follower[f].next
    BY <1>0, <1>3, <2>1, SentAppended DEF Delivers, Becomes, On, Holding
  <2>3. h.seq_num \in DOMAIN records /\ records[h.seq_num] = h
    BY <1>0, <2>2 DEF SentStored
  <2> DEFINE p == [on |-> TRUE, start |-> follower[f].start, tail |-> follower[f].next,
                   got |-> RecordsSent(f)]
             q == [p EXCEPT !.got = RecordsSent(f) \cup {h}]
  <2>4. Promised[f] = p /\ Promise(f)' = q
    <3>1. Promised[f] = p
      BY <1>0, <2>2, PromiseIs
    <3>2. Promise(f)' = [on |-> TRUE, start |-> follower[f].start, tail |-> follower[f].next,
                         got |-> RecordsSent(f) \cup {h}]
      BY <2>2, PromiseIs
    <3>3. q = [on |-> TRUE, start |-> follower[f].start, tail |-> follower[f].next,
               got |-> RecordsSent(f) \cup {h}]
      <4> DEFINE yes == TRUE
      <4>1. p = [on |-> yes, start |-> follower[f].start, tail |-> follower[f].next,
                 got |-> RecordsSent(f)]
        OBVIOUS
      <4> HIDE DEF yes, p
      <4>2. q = [on |-> yes, start |-> follower[f].start, tail |-> follower[f].next,
                 got |-> RecordsSent(f) \cup {h}]
        BY <4>1
      <4> QED BY <4>2 DEF yes
    <3> HIDE DEF q
    <3> QED BY <3>1, <3>2, <3>3
  <2>5. \A r \in RecordsSent(f) : r.seq_num < h.seq_num
    BY <1>0, <2>2 DEF Behind
  <2>6. follower[f].start <= h.seq_num \/ follower[f].next <= h.seq_num
    BY <1>0, <2>2, FollowFacts DEF Position
  <2>7. ASSUME NEW n \in DOMAIN records, follower[f].start <= n, n < h.seq_num,
               n < follower[f].next \/ records[n] \in acked
        PROVE  records[n] \in RecordsSent(f)
    <3>1. Backfilling(f) => h.seq_num <= follower[f].cursor
      BY <1>0, <2>1, <2>2 DEF Position
    <3>2. \A k \in DOMAIN bcast :
            follower[f].pos < k /\ follower[f].next <= bcast[k].seq_num
              => h.seq_num <= bcast[k].seq_num
      <4> SUFFICES ASSUME NEW k \in DOMAIN bcast, follower[f].pos < k,
                          follower[f].next <= bcast[k].seq_num
                   PROVE  h.seq_num <= bcast[k].seq_num
        OBVIOUS
      <4>1. CASE Backfilling(f)
        BY <1>0, <2>1, <2>2, <4>1, FollowFacts DEF Position, Backfilling
      <4>2. CASE ~Backfilling(f)
        <5>1. follower[f].pos > 0 /\ h = bcast[follower[f].pos]
          BY <1>0, <2>2, <4>2 DEF Position
        <5>2. follower[f].pos \in DOMAIN bcast
          BY <1>0, <5>1, FollowFacts
        <5>3. h.seq_num < bcast[k].seq_num /\ bcast[k].seq_num \in Nat
          BY <1>0, <5>1, <5>2, FollowFacts DEF ActorInv, BroadcastInOrder
        <5> QED BY <2>1, <5>3
      <4> QED BY <4>1, <4>2
    <3>3. \A x \in Holding(f) : h.seq_num <= x.seq_num
      BY <2>1, <2>2
    <3> QED BY <2>1, <2>2, <2>7, <3>1, <3>2, <3>3, OwedWasSent
  <2>8. FL!Owed(f, h.seq_num) \subseteq RecordsSent(f)
    BY <2>4, <2>7 DEF FL!Owed, Promised
  <2>9. Promised' = [Promised EXCEPT ![f] = q]
    BY <1>0, <2>4, OnePromiseMoves
  <2>10. FL!Deliver(f, h.seq_num)
    <3>1. /\ p.got = RecordsSent(f) /\ p.start = follower[f].start
          /\ p.tail = follower[f].next
      OBVIOUS
    <3>2. q = [p EXCEPT !.got = p.got \cup {records[h.seq_num]}]
      BY <2>3
    <3> HIDE DEF p, q
    <3> QED BY <2>4, <2>5, <2>6, <2>8, <2>9, <3>1, <3>2 DEF FL!Deliver, Promised
  <2>11. Promised[f].on
    BY <2>4
  <2> HIDE DEF p, q
  <2> QED BY <1>0, <2>3, <2>10, <2>11 DEF FL!Follow, Promised
<1>4. CASE Finishes(f)
  <2>1. RecordsSent(f)' = RecordsSent(f)
    <3>1. CASE follower'[f].sent = Append(follower[f].sent, Err)
      <4>1. RecordsSent(f)' = RecordsSent(f) \cup ({Err} \ {Err})
        BY <1>0, <3>1, SentAppended
      <4> QED BY <4>1
    <3>2. CASE follower'[f].sent = follower[f].sent
      BY <3>2 DEF RecordsSent
    <3> QED BY <1>4, <3>1, <3>2 DEF Finishes
  <2>2. ~On(f)'
    BY <1>4 DEF Finishes, On
  <2>3. CASE ~On(f)
    BY <1>1, <2>1, <2>2, <2>3
  <2>4. CASE On(f)
    <3>1. Promised[f] = [on |-> TRUE, start |-> follower[f].start,
                         tail |-> follower[f].next, got |-> RecordsSent(f)]
      BY <1>0, <2>4, PromiseIs
    <3>2. Promise(f)' = [FL!NoFollow EXCEPT !.got = RecordsSent(f)]
      <4>1. Promise(f)' = [on |-> FALSE, start |-> 0, tail |-> 0, got |-> RecordsSent(f)]
        BY <2>1, <2>2, PromiseIs
      <4>2. [FL!NoFollow EXCEPT !.got = RecordsSent(f)]
              = [on |-> FALSE, start |-> 0, tail |-> 0, got |-> RecordsSent(f)]
        <5> DEFINE no == FALSE
        <5>1. FL!NoFollow = [on |-> no, start |-> 0, tail |-> 0, got |-> {}]
          BY DEF FL!NoFollow
        <5> HIDE DEF no
        <5>2. [FL!NoFollow EXCEPT !.got = RecordsSent(f)]
                = [on |-> no, start |-> 0, tail |-> 0, got |-> RecordsSent(f)]
          BY <5>1
        <5> QED BY <5>2 DEF no
      <4> QED BY <4>1, <4>2
    <3>3. Promised' = [Promised EXCEPT ![f] = [FL!NoFollow EXCEPT !.got = RecordsSent(f)]]
      BY <1>0, <3>2, OnePromiseMoves
    <3>4. Promised[f].got = RecordsSent(f) /\ Promised[f].on
      BY <3>1
    <3>5. FL!End(f)
      BY <3>3, <3>4 DEF FL!End, Promised
    <3> QED BY <1>0, <3>4, <3>5 DEF FL!Follow, Promised
  <2> QED BY <2>3, <2>4
<1>5. CASE Asks(f) \/ Continues(f)
  <2>1. (On(f)' <=> On(f)) /\ RecordsSent(f)' = RecordsSent(f)
    BY <1>5 DEF Asks, Continues, Becomes, On, RecordsSent
  <2>2. On(f) => /\ follower'[f].start = follower[f].start
                 /\ follower'[f].next = follower[f].next
    BY <1>5 DEF Asks, Continues, Becomes, On
  <2> QED BY <1>1, <2>1, <2>2
<1>6. CASE Finds(f) \/ Skips(f) \/ Fails(f) \/ RelaysNext(f) \/ DropsNext(f)
  <2>1. /\ On(f) /\ On(f)' /\ follower'[f].sent = follower[f].sent
        /\ follower'[f].start = follower[f].start /\ follower'[f].next = follower[f].next
    BY <1>6 DEF Finds, Skips, Fails, RelaysNext, DropsNext, Receives, Becomes, On
  <2>2. RecordsSent(f)' = RecordsSent(f)
    BY <2>1 DEF RecordsSent
  <2> QED BY <1>1, <2>1, <2>2
<1> QED BY <1>2, <1>3, <1>4, <1>5, <1>6 DEF Moves

LEMMA StepsImplement ==
  ASSUME ActorInv, LogInv, [Next]_vars
  PROVE  [FL!Next]_<<records, acked, Promised>>
<1>0. D!StoreInv /\ D!OrderInv /\ TypeOK /\ QuietWithoutActor /\ MailboxFits
  BY DEF ActorInv, LogInv
<1>1. ASSUME follower' = follower PROVE Promised' = Promised
  BY <1>1 DEF Promised, Promise, RecordsSent
<1>2. CASE Crash
  <2>1. Promised' = [f \in Followers |-> FL!NoFollow]
    <3> SUFFICES ASSUME NEW f \in Followers PROVE Promise(f)' = FL!NoFollow
      BY DEF Promised
    <3>1. follower'[f] = NotFollowing
      BY <1>2 DEF Crash
    <3>2. DOMAIN follower'[f].sent = {} /\ follower'[f].phase = "idle"
      BY <3>1, NotFollowingFits
    <3>3. ~On(f)' /\ RecordsSent(f)' = {}
      BY <3>2 DEF On, RecordsSent
    <3> QED BY <3>3, PromiseIs DEF FL!NoFollow
  <2>2. acked' = acked /\ (records' = records \/ (pc = "applying" /\ D!Applied))
    BY <1>2 DEF Crash, S!Crash, S!stored, S!Applied, D!Applied
  <2>3. \/ \E r \in FL!Log!Record : FL!Log!Unacknowledged(r)
        \/ UNCHANGED <<records, acked>>
    BY <1>0, <2>2, AppliedEntersLog DEF FL!Log!Unacknowledged
  <2>4. FL!Restart
    BY <2>1, <2>3 DEF FL!Restart, Promised
  <2> QED BY <2>4 DEF FL!Next
<1>3. CASE ~Crash /\ AppendOver
  <2>1. Promised' = Promised /\ pc = "applying"
    BY <1>1, <1>3 DEF AppendOver
  <2>2. CASE D!Applied /\ (acked' = acked \cup {batch.record} \/ acked' = acked)
    <3>1. FL!Log!Acknowledged(batch.record) \/ FL!Log!Unacknowledged(batch.record)
      BY <1>0, <2>1, <2>2, AppliedEntersLog DEF FL!Log!Acknowledged, FL!Log!Unacknowledged
    <3>2. FL!Log!Next
      BY <1>0, <2>1, <2>2, <3>1, AppliedEntersLog DEF FL!Log!Next
    <3> QED BY <2>1, <3>2 DEF FL!Append, FL!Next, Promised
  <2> QED BY <1>0, <1>3, <2>1, <2>2, LogSteps
<1>4. CASE ~Crash /\ UNCHANGED <<records, acked, follower>>
  BY <1>1, <1>4
<1>5. ASSUME ~Crash, NEW f \in Followers, Moves(f), follower' # follower
      PROVE  [FL!Next]_<<records, acked, Promised>>
  <2>1. HasActor
    BY <1>0, <1>5, NoActorSteps
  <2> QED BY <1>5, <2>1, MovesRefine DEF FL!Next
<1> QED BY <1>0, <1>2, <1>3, <1>4, <1>5, FollowSteps, LogSteps

\* The actor, its mailbox, broadcast, lag and channels implement the followed
\* log, restarts and failed writes included, for any number of followers.
THEOREM ActorImplementsFollowedLog ==
  ASSUME S!SafeFaults PROVE Spec => ImplementsFollowedLog
<1>1. Init => FL!Init
  <2> SUFFICES ASSUME Init PROVE FL!Init
    OBVIOUS
  <2>1. FL!Log!Init
    BY DEF Init, S!Init, FL!Log!Init
  <2>2. ASSUME NEW f \in Followers PROVE Promise(f) = FL!NoFollow
    <3>1. DOMAIN follower[f].sent = {} /\ follower[f].phase = "idle"
      BY NotFollowingFits DEF Init
    <3>2. ~On(f) /\ RecordsSent(f) = {}
      BY <3>1 DEF On, RecordsSent
    <3> QED BY <3>2, PromiseIs DEF FL!NoFollow
  <2> QED BY <2>1, <2>2 DEF FL!Init
<1>2. ActorInv /\ LogInv /\ [Next]_vars => [FL!Next]_<<records, acked, Promised>>
  BY StepsImplement
<1> QED
  BY <1>1, <1>2, ActorInvHolds, LogInvHolds, PTL
     DEF Spec, ImplementsFollowedLog, FL!Spec, Promised
=============================================================================
