-------------------------- MODULE QueueArithmetic --------------------------
(***************************************************************************)
(* The arithmetic of src/readerwriterqueue.h on machine integers of W      *)
(* bits: ceilToPow2, the constructor's number of blocks and, in            *)
(* BlockLayout, the memory of a block.  The variable word counts through   *)
(* all machine integers; every property compares what the code computes    *)
(* from it with what it should.                                            *)
(***************************************************************************)
EXTENDS BlockLayout, Bitwise

CONSTANTS Bytes,         \* sizeof(size_t): a power of two
          BlockSizes     \* the values of MAX_BLOCK_SIZE looked at

W    == 8 * Bytes
Size == 0..(2^W - 1)
Wrap(x) == x % 2^W

ASSUME ArithmeticAssumption ==
    /\ Bytes \in {1, 2, 4}
    /\ BlockSizes \subseteq {2^k : k \in 1..(W - 2)}
    /\ Alignments \subseteq {2^k : k \in 0..(W - 2)}

-----------------------------------------------------------------------------
(* ceilToPow2(x) *)

\* x |= x >> k
Smear(x, k) == x | (x \div 2^k)

\* The shifts by 1, 2 and 4, then those by whole bytes below the word size.
ceilToPow2(x) ==
    LET x1 == Smear(Wrap(x - 1), 1)
        x2 == Smear(x1, 2)
        x4 == Smear(x2, 4)
        x8 == IF Bytes > 1 THEN Smear(x4, 8) ELSE x4
        xs == IF Bytes > 2 THEN Smear(x8, 16) ELSE x8
    IN  Wrap(xs + 1)

-----------------------------------------------------------------------------
(* ReaderWriterQueue(maxSize) with MAX_BLOCK_SIZE = max *)

FirstBlockSize(maxSize, max) ==
    LET s == ceilToPow2(Wrap(maxSize + 1))
    IN  IF s > Wrap(2 * max) THEN max ELSE s

\* Mutant of FirstBlockCount: the spare slot of each block is forgotten.
FirstBlockCountNoSpare(maxSize, max) ==
    IF ceilToPow2(Wrap(maxSize + 1)) > Wrap(2 * max)
      THEN Wrap(maxSize + 2 * max - 3) \div max
      ELSE 1

FirstBlockCount(maxSize, max) ==
    IF ceilToPow2(Wrap(maxSize + 1)) > Wrap(2 * max)
      THEN Wrap(maxSize + 2 * max - 3) \div (max - 1)
      ELSE 1

-----------------------------------------------------------------------------
Init == word = 0
Next == word' = Wrap(word + 1)
Spec == Init /\ [][Next]_word

-----------------------------------------------------------------------------
(* Properties *)

\* ceilToPow2 yields the smallest power of two that is not below its argument;
\* it has no such value for 0 and above half the range, where it yields 0.
CeilIsRight ==
    LET c == ceilToPow2(word)
    IN  IF word = 0 \/ word > 2^(W - 1)
          THEN c = 0
          ELSE c \in {2^k : k \in 0..(W - 1)} /\ word <= c /\ c < 2 * word

\* "So the effective number of slots that are guaranteed to be usable is the
\* block size - 1 times the number of blocks - 1" (85-86): what the constructor
\* reserves is enough for maxSize elements, and one block less would not be,
\* as long as nothing overflows.  It rests on ceilToPow2.
ReservesEnough ==
    /\ CeilIsRight
    /\ \A max \in BlockSizes :
         word > 0 /\ word + 2 * max < 2^(W - 1) =>
           LET size  == FirstBlockSize(word, max)
               count == FirstBlockCount(word, max)
           IN  IF count = 1
                 THEN word <= size - 1 /\ size <= 2 * max
                 ELSE /\ word <= (size - 1) * (count - 1)
                      /\ word > (size - 1) * (count - 2)
=============================================================================
