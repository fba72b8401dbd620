---------------------------- MODULE StreamActor ----------------------------
(***************************************************************************)
(* One stream as its clients see it: the actor that owns the Stream, the   *)
(* append requests and the read_follow tasks that talk to it               *)
(* (StreamHandle, StreamActor and StreamController::read_follow of         *)
(* stream_controller.rs), over the stream of DurableStream.                *)
(*                                                                         *)
(* Requests send commands to the actor's bounded mailbox and wait on a     *)
(* oneshot reply.  The actor serves one command at a time: while it awaits *)
(* the write of an append (pc = "applying") nobody else is served, so a    *)
(* read or a subscription is one step.  It broadcasts each appended record *)
(* to a ring of BroadcastBuffer messages, each receiver reading at its own *)
(* pace.  A follower task backfills from the start it was given to the     *)
(* subscription's next_seq_num by reading through the actor, then relays   *)
(* the broadcast; it sends to its client through a bounded channel.        *)
(*                                                                         *)
(* Each element of Appends is one append request, its own payload, so that *)
(* a record tells whose it is.  Names are valid and the stream is found    *)
(* (get_stream): a request starts when the handle exists.                  *)
(***************************************************************************)
EXTENDS Naturals, Sequences, FiniteSets

CONSTANTS
  BlockSize, None, Faults, MaxSeqNum,   \* of DurableStream
  Appends,          \* the append requests
  Followers,        \* the read_follow requests of a process
  Starts,           \* the values of start_seq_num they may give
  ReadsFail,        \* may storage fail to get a record?
  CommandBuffer,    \* STREAM_COMMAND_BUFFER: mailbox, and a follower's channel
  BroadcastBuffer,  \* STREAM_BROADCAST_BUFFER
  Err               \* what a follower sends in place of a record

ASSUME StreamActorAssumption ==
  /\ Starts \subseteq Nat
  /\ ReadsFail \in BOOLEAN
  /\ CommandBuffer \in Nat \ {0} /\ BroadcastBuffer \in Nat \ {0}
  \* Every append finds a number, whatever the restarts waste: the bound of
  \* DurableStream is never what stops the actor.
  /\ MaxSeqNum + 1 >= Cardinality(Appends) * (BlockSize + 1)

VARIABLES
  metadata, seqBlock, records, pc, alloc, batch, acked,   \* of DurableStream
  inbox,     \* the commands in the actor's mailbox
  bcast,     \* the records this process has broadcast on the stream
  request,   \* what became of each append request
  follower   \* the state of each read_follow task and its channel

S == INSTANCE DurableStream WITH Data <- Appends

\* What DurableStream assumes of its constants, and that records and the two
\* markers can be told apart.
ASSUME StreamAssumption ==
  /\ BlockSize \in Nat \ {0} /\ MaxSeqNum \in Nat
  /\ Faults \subseteq S!FaultKinds
  /\ None \notin S!SeqBlock
  /\ None \notin S!Record /\ Err \notin S!Record /\ Err # None

streamVars == <<metadata, seqBlock, records, pc, alloc, batch, acked>>
vars == <<streamVars, inbox, bcast, request, follower>>

Command ==
  [kind : {"append"}, from : Appends]
    \cup [kind : {"read"}, from : Followers, seq_num : Nat]
    \cup [kind : {"subscribe"}, from : Followers]

\* tail is the next_seq_num an append was answered with.
Request == [status : {"new", "sent", "ok", "failed", "cancelled"}, tail : Nat]

\* sent is all that was put in the client's channel, the first taken of it
\* received; next is subscription.next_seq_num, pos the receiver's position,
\* cursor the seq_num of the backfill loop, held what tx.send waits with.
Follower ==
  [phase : {"idle", "subscribing", "running", "reading", "sending", "ended"},
   start : Starts \cup {0}, next : Nat, cursor : Nat, pos : Nat,
   held : S!Record \cup {Err, None}, sent : Seq(S!Record \cup {Err}),
   taken : Nat, gone : BOOLEAN]

NotFollowing ==
  [phase |-> "idle", start |-> 0, next |-> 0, cursor |-> 0, pos |-> 0,
   held |-> None, sent |-> << >>, taken |-> 0, gone |-> FALSE]

TypeOK ==
  /\ S!TypeOK
  /\ inbox \in Seq(Command) /\ Len(inbox) <= CommandBuffer
  /\ bcast \in Seq(S!Record)
  /\ request \in [Appends -> Request]
  /\ follower \in [Followers -> Follower]
  /\ \A f \in Followers :
       /\ (follower[f].held # None) <=> (follower[f].phase = "sending")
       /\ follower[f].pos <= Len(bcast)
       /\ follower[f].taken <= Len(follower[f].sent)
       /\ Len(follower[f].sent) - follower[f].taken <= CommandBuffer

Init ==
  /\ S!Init
  /\ inbox = << >> /\ bcast = << >>
  /\ request = [c \in Appends |-> [status |-> "new", tail |-> 0]]
  /\ follower = [f \in Followers |-> NotFollowing]

-----------------------------------------------------------------------------
(* Requests. *)

\* Some request creates or loads the stream and spawns its actor.
Open ==
  /\ S!NewMetadata \/ S!NewBlock \/ S!InterruptedNew \/ S!Load
  /\ UNCHANGED <<inbox, bcast, request, follower>>

\* Mutant: one command too many fits the mailbox.
HasRoom_OffByOne == Len(inbox) <= CommandBuffer

HasActor == pc \in {"ready", "applying"}
HasRoom == Len(inbox) < CommandBuffer

\* StreamHandle::append sends its command, having waited for room.
SendAppend(c) ==
  /\ HasActor /\ HasRoom /\ request[c].status = "new"
  /\ request' = [request EXCEPT ![c].status = "sent"]
  /\ inbox' = Append(inbox, [kind |-> "append", from |-> c])
  /\ UNCHANGED <<streamVars, bcast, follower>>

\* The caller of an append goes away: its future is dropped, the command stays.
CancelAppend(c) ==
  /\ request[c].status = "sent"
  /\ request' = [request EXCEPT ![c].status = "cancelled"]
  /\ UNCHANGED <<streamVars, inbox, bcast, follower>>

\* read_follow subscribes before it reads anything.
Follow(f, start) ==
  /\ HasActor /\ HasRoom /\ follower[f].phase = "idle"
  /\ follower' = [follower EXCEPT ![f].phase = "subscribing", ![f].start = start]
  /\ inbox' = Append(inbox, [kind |-> "subscribe", from |-> f])
  /\ UNCHANGED <<streamVars, bcast, request>>

-----------------------------------------------------------------------------
(* The actor: StreamActor::run. *)

\* Mutant: the actor waits while a client's channel is full.
Takes_ClientsReady(kind) ==
  /\ pc = "ready" /\ inbox # << >> /\ Head(inbox).kind = kind
  /\ \A f \in Followers :
       follower[f].gone \/ Len(follower[f].sent) - follower[f].taken < CommandBuffer

Takes(kind) == pc = "ready" /\ inbox # << >> /\ Head(inbox).kind = kind

ServeAppend ==
  /\ Takes("append")
  /\ S!StartAppend(Head(inbox).from)
  /\ inbox' = Tail(inbox)
  /\ UNCHANGED <<bcast, request, follower>>

\* The reply reaches the request that still waits for it.
Reply(c, answer) ==
  request' = IF request[c].status = "sent"
             THEN [request EXCEPT ![c] = answer] ELSE request

\* The write returned: the record is broadcast and the append answered.
FinishAppend ==
  /\ S!AppendOk
  /\ bcast' = Append(bcast, batch.record)
  /\ Reply(batch.record.data, [status |-> "ok", tail |-> alloc.next])
  /\ UNCHANGED <<inbox, follower>>

\* Mutant: the record is broadcast whatever the write returned.
FailAppend_Broadcasts ==
  /\ S!AppendFailed
  /\ bcast' = Append(bcast, batch.record)
  /\ Reply(batch.record.data, [status |-> "failed", tail |-> 0])
  /\ UNCHANGED <<inbox, follower>>

\* The write returned an error: nothing is broadcast.
FailAppend ==
  /\ S!AppendFailed
  /\ Reply(batch.record.data, [status |-> "failed", tail |-> 0])
  /\ UNCHANGED <<inbox, bcast, follower>>

\* A record to send, a missing one to skip, or a failure to report.
ServeRead ==
  /\ Takes("read")
  /\ inbox' = Tail(inbox)
  /\ LET f == Head(inbox).from
         found == S!Read(Head(inbox).seq_num)
     IN \/ /\ found # None
           /\ follower' = [follower EXCEPT ![f].phase = "sending", ![f].held = found]
        \/ /\ found = None
           /\ follower' = [follower EXCEPT ![f].phase = "running", ![f].cursor = @ + 1]
        \/ /\ ReadsFail
           /\ follower' = [follower EXCEPT ![f].phase = "sending", ![f].held = Err]
  /\ UNCHANGED <<streamVars, bcast, request>>

\* The receiver and next_seq_num are taken together, between two appends.
ServeSubscribe ==
  /\ Takes("subscribe")
  /\ inbox' = Tail(inbox)
  /\ LET f == Head(inbox).from
     IN follower' = IF follower[f].phase = "subscribing"
                    THEN [follower EXCEPT ![f].phase = "running",
                                          ![f].next = alloc.next,
                                          ![f].cursor = follower[f].start,
                                          ![f].pos = Len(bcast)]
                    ELSE follower
  /\ UNCHANGED <<streamVars, bcast, request>>

Actor == ServeAppend \/ FinishAppend \/ FailAppend \/ ServeRead \/ ServeSubscribe

-----------------------------------------------------------------------------
(* The follower's task, spawned by read_follow. *)

\* Mutant: the backfill includes next_seq_num.
Backfilling_Inclusive(f) == follower[f].cursor <= follower[f].next

Backfilling(f) == follower[f].cursor < follower[f].next

\* The backfill loop reads its next record through the actor.
SendRead(f) ==
  /\ HasRoom /\ follower[f].phase = "running" /\ Backfilling(f)
  /\ inbox' = Append(inbox, [kind    |-> "read", from |-> f,
                             seq_num |-> follower[f].cursor])
  /\ follower' = [follower EXCEPT ![f].phase = "reading"]
  /\ UNCHANGED <<streamVars, bcast, request>>

\* The ring no longer holds the receiver's next message.
Lagged(f) == Len(bcast) - follower[f].pos > BroadcastBuffer

\* Mutant: the task goes on with the oldest message of the ring.
Lag_GoesOn(f) == [follower EXCEPT ![f].pos = Len(bcast) - BroadcastBuffer]

\* Mutant: the task returns without a word.
Lag_Ends(f) == [follower EXCEPT ![f].phase = "ended"]

\* A task that lagged reports it.
Lag(f) == [follower EXCEPT ![f].phase = "sending", ![f].held = Err]

\* Mutant: the filter leaves out next_seq_num itself.
Relays_Above(f, record) == record.seq_num > follower[f].next

\* The filter on live records.
Relays(f, record) == record.seq_num >= follower[f].next

\* live_records.recv(): a record to relay, one to drop, or Lagged.
Receive(f) ==
  /\ follower[f].phase = "running" /\ ~Backfilling(f)
  /\ follower[f].pos < Len(bcast)
  /\ LET record == bcast[follower[f].pos + 1]
     IN \/ Lagged(f) /\ follower' = Lag(f)
        \/ /\ ~Lagged(f)
           /\ follower' =
                [follower EXCEPT
                   ![f].pos   = @ + 1,
                   ![f].phase = IF Relays(f, record) THEN "sending" ELSE @,
                   ![f].held  = IF Relays(f, record) THEN record ELSE @]
  /\ UNCHANGED <<streamVars, inbox, bcast, request>>

\* Mutant: a failed tx.send goes unnoticed.
Send_Unchecked(f) ==
  /\ follower[f].phase = "sending"
  /\ follower[f].gone \/ Len(follower[f].sent) - follower[f].taken < CommandBuffer
  /\ follower' =
       [follower EXCEPT
          ![f].phase  = IF follower[f].held = Err THEN "ended" ELSE "running",
          ![f].cursor = IF Backfilling(f) THEN @ + 1 ELSE @,
          ![f].sent   = IF follower[f].gone THEN @ ELSE Append(@, follower[f].held),
          ![f].held   = None]
  /\ UNCHANGED <<streamVars, inbox, bcast, request>>

\* tx.send: waits for room in the client's channel; fails once the client is
\* gone, and the task returns.  It returns as well after an error was sent.
Send(f) ==
  /\ follower[f].phase = "sending"
  /\ \/ /\ follower[f].gone
        /\ follower' = [follower EXCEPT ![f].phase = "ended", ![f].held = None]
     \/ /\ ~follower[f].gone
        /\ Len(follower[f].sent) - follower[f].taken < CommandBuffer
        /\ follower' =
             [follower EXCEPT
                ![f].phase  = IF follower[f].held = Err THEN "ended" ELSE "running",
                ![f].cursor = IF Backfilling(f) THEN @ + 1 ELSE @,
                ![f].sent   = Append(@, follower[f].held),
                ![f].held   = None]
  /\ UNCHANGED <<streamVars, inbox, bcast, request>>

Task(f) == SendRead(f) \/ Receive(f) \/ Send(f)

\* The client takes an item of its channel.
ClientTakes(f) ==
  /\ ~follower[f].gone /\ follower[f].taken < Len(follower[f].sent)
  /\ follower' = [follower EXCEPT ![f].taken = @ + 1]
  /\ UNCHANGED <<streamVars, inbox, bcast, request>>

\* The client disconnects: a read_follow that has not answered is dropped, a
\* task it spawned only learns of it when it sends.
Disconnect(f) ==
  /\ ~follower[f].gone /\ follower[f].phase \notin {"idle", "ended"}
  /\ follower' = [follower EXCEPT
                    ![f].gone = TRUE,
                    ![f].phase = IF @ = "subscribing" THEN "ended" ELSE @]
  /\ UNCHANGED <<streamVars, inbox, bcast, request>>

-----------------------------------------------------------------------------
\* The process stops: mailbox, broadcast and tasks are gone, clients cut off.
Crash ==
  /\ S!Crash
  /\ inbox' = << >> /\ bcast' = << >>
  /\ request' = [c \in Appends |->
                   IF request[c].status = "sent"
                   THEN [request[c] EXCEPT !.status = "cancelled"] ELSE request[c]]
  /\ follower' = [f \in Followers |-> NotFollowing]

\* Every request is served and every client has all there is.
Settled ==
  /\ pc = "ready" /\ inbox = << >>
  /\ \A c \in Appends : request[c].status \notin {"new", "sent"}
  /\ \A f \in Followers :
       \/ follower[f].phase = "ended"
       \/ /\ follower[f].phase = "running" /\ ~Backfilling(f)
          /\ follower[f].pos = Len(bcast)
          /\ follower[f].taken = Len(follower[f].sent) \/ follower[f].gone
  /\ UNCHANGED vars

Next ==
  \/ Open \/ Actor \/ Crash \/ Settled
  \/ \E c \in Appends : SendAppend(c) \/ CancelAppend(c)
  \/ \E f \in Followers :
       \/ (\E start \in Starts : Follow(f, start))
       \/ Task(f) \/ ClientTakes(f) \/ Disconnect(f)

Spec == Init /\ [][Next]_vars

\* The runtime polls the actor's task while it can go on, and a write ends.
ActorRuns == WF_vars(Actor)

\* The runtime polls the followers' tasks, and their clients keep reading.
FollowersRun ==
  \A f \in Followers : WF_vars(Task(f)) /\ WF_vars(ClientTakes(f))

-----------------------------------------------------------------------------
(* Properties. *)

RecordsSent(f) ==
  {follower[f].sent[i] : i \in DOMAIN follower[f].sent} \ {Err}

\* A follower gets records in increasing order and none twice, across the
\* change from backfill to live and while appends go on.
FollowerOrder ==
  \A f \in Followers : \A i, j \in DOMAIN follower[f].sent :
    i < j => \/ follower[f].sent[j] = Err
             \/ /\ follower[f].sent[i] # Err
                /\ follower[f].sent[i].seq_num < follower[f].sent[j].seq_num

\* A follower that got a record got every acknowledged record from its start
\* up to it: none falls between backfill and broadcast, none is lost to lag.
NoAckedRecordSkipped ==
  \A f \in Followers : \A last \in RecordsSent(f) : \A r \in acked :
    follower[f].start <= r.seq_num /\ r.seq_num <= last.seq_num
      => r \in RecordsSent(f)

\* A follow does not end silently: its client left, or is told.
EndIsReported ==
  \A f \in Followers :
    follower[f].phase = "ended" =>
      \/ follower[f].gone
      \/ /\ follower[f].sent # << >>
         /\ follower[f].sent[Len(follower[f].sent)] = Err

\* The tail that answers an append is one past that append's own record, with
\* other requests queued and earlier ones failed or cancelled.
AckNamesOwnRecord ==
  \A c \in Appends :
    request[c].status = "ok" =>
      /\ request[c].tail - 1 \in DOMAIN records
      /\ records[request[c].tail - 1].data = c

\* What f was promised, while its task runs.
Promise(f) ==
  LET on == follower[f].phase \in {"running", "reading", "sending"}
  IN [on    |-> on,
      start |-> IF on THEN follower[f].start ELSE 0,
      tail  |-> IF on THEN follower[f].next ELSE 0,
      got   |-> RecordsSent(f)]

\* A restart may leave up to a block of numbers above the last one used.
FL == INSTANCE FollowedLog
        WITH Data <- Appends, SeqNums <- 0 .. MaxSeqNum + BlockSize + 1,
             log <- records,
             follow <- [f \in Followers |-> Promise(f)]

\* The actor and its followers implement the followed log: what a follower gets
\* is stored, and a restart cannot undo it; it gets every record stored when it
\* subscribed, failed appends whose write was made included, and every one
\* acknowledged since.
ImplementsFollowedLog == FL!Spec

\* An append in the mailbox is answered, even if no follower and no client
\* ever makes a step again: the actor waits for none of them.
AppendsAnswered == <>[](\A c \in Appends : request[c].status # "sent")

Following(f) == follower[f].phase \notin {"idle", "ended"} /\ ~follower[f].gone

Delivered(f, r) == \E i \in 1 .. follower[f].taken : follower[f].sent[i] = r

\* An acknowledged record reaches each client that follows from below it and
\* keeps reading, or its follow ends.
FollowersCatchUp ==
  FollowersRun =>
    <>[](\A f \in Followers, r \in acked :
           Following(f) /\ follower[f].start <= r.seq_num => Delivered(f, r))

\* The task of a client that is gone ends once the stream has a record for it.
GoneTasksEnd ==
  FollowersRun =>
    \A f \in Followers :
      (follower[f].gone /\ follower[f].pos < Len(bcast)) ~> follower[f].phase = "ended"

LiveSpec == Spec /\ ActorRuns
=============================================================================
