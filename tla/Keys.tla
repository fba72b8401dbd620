-------------------------------- MODULE Keys --------------------------------
(***************************************************************************)
(* Keys of the two databases: how they are built (key/key.rs and the       *)
(* construct_*_key functions of Stream and Basin), how they are ordered,   *)
(* and the range of keys that a prefix scan asks for.                      *)
(*                                                                         *)
(* A key is a sequence of bytes 0 .. MaxByte.  An id is IdWidth bytes (16  *)
(* in the code), a sequence number SeqNumWidth digits, most significant    *)
(* first (8 in the code).  The code's MaxByte is 255.                      *)
(***************************************************************************)
EXTENDS Naturals, Sequences

CONSTANTS MaxByte,      \* u8::MAX
          IdWidth,      \* bytes of an id
          SeqNumWidth,  \* bytes of a sequence number
          Unbounded     \* Bound::Unbounded, None

Byte == 0 .. MaxByte
Key == Seq(Byte)

\* The tags need four byte values.
ASSUME KeysAssumption ==
  /\ MaxByte \in Nat /\ MaxByte >= 3
  /\ IdWidth \in Nat \ {0} /\ SeqNumWidth \in Nat \ {0}
  /\ Unbounded \notin Key

-----------------------------------------------------------------------------
(* Order and prefixes. *)

\* Reference definition: k starts with p.
HasPrefix(k, p) == Len(p) <= Len(k) /\ \A i \in 1 .. Len(p) : k[i] = p[i]

\* The order of Bytes: by the first byte that differs, a prefix first.
Less(a, b) ==
  \/ /\ Len(a) < Len(b)
     /\ \A i \in 1 .. Len(a) : a[i] = b[i]
  \/ \E i \in 1 .. Len(a) :
       /\ i <= Len(b) /\ a[i] < b[i]
       /\ \A j \in 1 .. i - 1 : a[j] = b[j]

\* The last byte of p that can be incremented.
IsLastBelowMax(p, i) ==
  /\ i \in 1 .. Len(p) /\ p[i] # MaxByte
  /\ \A j \in i + 1 .. Len(p) : p[j] = MaxByte

\* Mutant: what follows the incremented byte is kept.
IncrementedAt_Untruncated(p, i) == [p EXCEPT ![i] = @ + 1]

\* p up to i, with byte i incremented.
IncrementedAt(p, i) == [j \in 1 .. i |-> IF j = i THEN p[j] + 1 ELSE p[j]]

\* next_prefix: where the keys starting with p end.
NextPrefix(p) ==
  IF \E i \in 1 .. Len(p) : p[i] # MaxByte
  THEN IncrementedAt(p, CHOOSE i \in 1 .. Len(p) : IsLastBelowMax(p, i))
  ELSE Unbounded

\* prefix_range: from the prefix itself, up to the next prefix.
PrefixRange(p) == [start |-> p, end |-> NextPrefix(p)]

\* BytesRange::contains, for an included start and an excluded or open end.
InRange(range, k) ==
  /\ ~Less(k, range.start)
  /\ range.end = Unbounded \/ Less(k, range.end)

-----------------------------------------------------------------------------
(* The keys. *)

Id == [1 .. IdWidth -> Byte]

\* meta_storage: a basin by name, a stream by basin and name.
BasinPrefix == <<2>>
BasinKey(name) == BasinPrefix \o name

\* Mutant: the streams of all basins under one prefix.
StreamPrefix_WithoutBasin(basin) == <<1>>

StreamPrefix(basin) == <<1>> \o basin
StreamKey(basin, name) == StreamPrefix(basin) \o name

\* record_storage: the sequence block of a stream, and its records.
BlockKey(basin, stream) == <<1, 2>> \o basin \o stream

\* Mutant: only the low byte of the number.
SeqNumBytes_Low(n) == <<n % (MaxByte + 1)>>

\* What is left of n without its low i bytes: n >> 8i.
Shifted(n) ==
  LET shifted[i \in 0 .. SeqNumWidth] ==
        IF i = 0 THEN n ELSE shifted[i - 1] \div (MaxByte + 1)
  IN shifted

\* The numbers of that width: u64.
SeqNum == {n \in Nat : Shifted(n)[SeqNumWidth] = 0}

\* put_u64: big endian.
SeqNumBytes(n) ==
  [i \in 1 .. SeqNumWidth |-> Shifted(n)[SeqNumWidth - i] % (MaxByte + 1)]

RecordKey(basin, stream, n) == <<3>> \o basin \o stream \o SeqNumBytes(n)
=============================================================================
