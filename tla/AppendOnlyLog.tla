--------------------------- MODULE AppendOnlyLog ---------------------------
(***************************************************************************)
(* What a stream promises its users: an append-only ordered log.  A record *)
(* enters the log under a number above every number in use and never       *)
(* changes afterwards; an append is acknowledged only as it enters the     *)
(* log.  An append that reports a failure may or may not have entered.     *)
(* Blocks, batches, restarts and the process's memory are not visible.     *)
(***************************************************************************)
EXTENDS Naturals

CONSTANTS Data,      \* the payloads
          SeqNums    \* the sequence numbers records may take, a set of Nat

VARIABLES log,       \* the records of the log, by sequence number
          acked      \* the records whose append was acknowledged

Record == [seq_num : SeqNums, data : Data]

Init == /\ log = << >>
        /\ acked = {}

Enter(r) ==
  /\ \A s \in DOMAIN log : s < r.seq_num
  /\ log' = [s \in DOMAIN log \cup {r.seq_num} |->
               IF s = r.seq_num THEN r ELSE log[s]]

Acknowledged(r) == Enter(r) /\ acked' = acked \cup {r}

Unacknowledged(r) == Enter(r) /\ UNCHANGED acked

Next == \E r \in Record : Acknowledged(r) \/ Unacknowledged(r)

Spec == Init /\ [][Next]_<<log, acked>>
=============================================================================
