---------------------------- MODULE BlockLayout ----------------------------
(***************************************************************************)
(* The memory of a block: make_block of src/readerwriterqueue.h asks       *)
(* malloc for one piece, and align_for places the block's header and its   *)
(* elements in it.  The variable word is the address malloc returns.       *)
(***************************************************************************)
EXTENDS Integers

CONSTANT Alignments    \* the alignments looked at

ASSUME LayoutAssumption == Alignments \subseteq Nat \ {0}

VARIABLE word

-----------------------------------------------------------------------------
(* align_for(ptr), and make_block(capacity): header, then the elements *)

AlignFor(ptr, alignment) ==
    ptr + ((alignment - (ptr % alignment)) % alignment)

\* Mutant of BlockBytes: no room to align the elements.
BlockBytesUnaligned(header, headerAlign, element, elementAlign, capacity) ==
    header + (headerAlign - 1) + element * capacity

\* What make_block asks malloc for.
BlockBytes(header, headerAlign, element, elementAlign, capacity) ==
    header + (headerAlign - 1) + element * capacity + (elementAlign - 1)

-----------------------------------------------------------------------------
(* Properties *)

\* Wherever malloc puts a block, its header and its elements are aligned, do
\* not overlap, and lie inside the memory asked for.
BlockFits ==
    \A a, b \in Alignments :
      LET header  == 2 * a       \* sizeof is a multiple of the alignment
          element == 3 * b
          block   == AlignFor(word, a)
          first   == AlignFor(block + header, b)
      IN  /\ block % a = 0 /\ first % b = 0
          /\ word <= block /\ block + header <= first
          /\ \A capacity \in {2, 4} :
               first + element * capacity
                 <= word + BlockBytes(header, a, element, b, capacity)
=============================================================================
