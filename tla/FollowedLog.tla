---------------------------- MODULE FollowedLog ----------------------------
(***************************************************************************)
(* What read_follow promises: an append-only log (AppendOnlyLog) with      *)
(* followers.  A follow begins with a start and the tail the log has at    *)
(* that moment.  Its records are delivered in the order of their numbers,  *)
(* each at most once, from the log only, and none may be skipped that was  *)
(* in the log below the tail or was acknowledged since.  Records below the *)
(* start come only if the start lies beyond the tail.  A restart forgets   *)
(* the follows, never what is in the log.                                  *)
(*                                                                         *)
(* Mailbox, backfill, broadcast, lag and channels are not visible.         *)
(***************************************************************************)
EXTENDS Naturals

CONSTANTS Data, SeqNums,   \* of AppendOnlyLog
          Followers,
          Starts           \* the starts a follow may be given

VARIABLES log, acked,
          follow           \* what each follower was promised and got

Log == INSTANCE AppendOnlyLog

NoFollow == [on |-> FALSE, start |-> 0, tail |-> 0, got |-> {}]

Init == Log!Init /\ follow = [f \in Followers |-> NoFollow]

Append == UNCHANGED follow /\ Log!Next

\* The tail lies above all there is: numbers that failed appends used count.
Begin(f, start, tail) ==
  /\ \A s \in DOMAIN log : s < tail
  /\ follow' = [follow EXCEPT
                  ![f] = [on |-> TRUE, start |-> start, tail |-> tail, got |-> {}]]

\* The records f must have got before it may get number s.
Owed(f, s) ==
  {log[n] : n \in {m \in DOMAIN log : /\ follow[f].start <= m /\ m < s
                                      /\ m < follow[f].tail \/ log[m] \in acked}}

Deliver(f, s) ==
  /\ \A r \in follow[f].got : r.seq_num < s
  /\ follow[f].start <= s \/ follow[f].tail <= s
  /\ Owed(f, s) \subseteq follow[f].got
  /\ follow' = [follow EXCEPT ![f].got = @ \cup {log[s]}]

End(f) == follow' = [follow EXCEPT ![f] = [NoFollow EXCEPT !.got = follow[f].got]]

Follow(f) ==
  /\ UNCHANGED <<log, acked>>
  /\ \/ /\ follow[f] = NoFollow
        /\ \E start \in Starts, tail \in SeqNums : Begin(f, start, tail)
     \/ /\ follow[f].on
        /\ (\E s \in DOMAIN log : Deliver(f, s)) \/ End(f)

\* A write in flight may enter the log as the process stops.
Restart ==
  /\ follow' = [f \in Followers |-> NoFollow]
  /\ (\E r \in Log!Record : Log!Unacknowledged(r)) \/ UNCHANGED <<log, acked>>

Next == Append \/ Restart \/ \E f \in Followers : Follow(f)

Spec == Init /\ [][Next]_<<log, acked, follow>>
=============================================================================
