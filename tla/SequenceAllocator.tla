------------------------- MODULE SequenceAllocator -------------------------
(***************************************************************************)
(* The block allocator of sequence numbers (storage/sequence.rs).          *)
(*                                                                         *)
(* A stream hands out sequence numbers from a block it has reserved in     *)
(* storage, so that an append need not persist a counter: only when the    *)
(* last number of the block goes out is the next block reserved, in the    *)
(* same write as the record.  After a restart the whole persisted block is *)
(* taken as used.                                                          *)
(*                                                                         *)
(* u64 arithmetic is modelled over Nat: a block only grows by allocation,  *)
(* and 2^64 appends are out of reach of a running stream.                  *)
(***************************************************************************)
EXTENDS Naturals

CONSTANTS BlockSize,   \* DEFAULT_BLOCK_SIZE
          None         \* Option::None

\* The code fixes the size at 4096; nothing else depends on its value.
ASSUME BlockSizeAssumption == BlockSize \in Nat \ {0}

\* A block is the range start .. start + block_size - 1.
SeqBlock == [start : Nat, block_size : Nat \ {0}]

ASSUME NoneIsNoBlock == None \notin SeqBlock

NextBase(b) == b.start + b.block_size

\* SequenceAllocator: the next number to issue and the block it reserves from.
Allocator == [next : Nat, block : SeqBlock]

DefaultAllocator ==
  [next |-> 0, block |-> [start |-> 0, block_size |-> BlockSize]]

\* Mutant: a restart takes the persisted block from its beginning.
FromBlockStart(b) == [next |-> b.start, block |-> b]

\* SequenceAllocator::new: what a restart continues with.
FromBlock(b) == [next |-> NextBase(b), block |-> b]

Remaining(a) == NextBase(a.block) - a.next

\* Mutant: the block is rolled one number too early.
RollsEarly(a, count) == count + 1 >= Remaining(a)

\* Taking count numbers uses up the block.
Rolls(a, count) == count >= Remaining(a)

Following(b) == [start |-> NextBase(b), block_size |-> b.block_size]

\* allocate(count): the numbers issued are a.next .. a.next + count - 1.
Allocate(a, count) ==
  IF Rolls(a, count)
  THEN [next  |-> NextBase(a.block) + (count - Remaining(a)),
        block |-> Following(a.block)]
  ELSE [a EXCEPT !.next = @ + count]

\* Mutant: the next block is not handed to the caller.
BlockToPersist_None(a, count) == None

\* The block that allocate(count) asks its caller to persist.
BlockToPersist(a, count) ==
  IF Rolls(a, count) THEN Following(a.block) ELSE None
=============================================================================
