------------------------- MODULE ReaderWriterQueue -------------------------
(***************************************************************************)
(* The lock-free single-producer, single-consumer queue of                 *)
(* src/readerwriterqueue.h: a circular list of blocks, each a ring buffer. *)
(* PCAP_NEW's reader thread is the producer, its writer thread the         *)
(* consumer.                                                               *)
(*                                                                         *)
(* One action per access to a variable the other thread writes: the        *)
(* producer owns tailBlock, tail, localFront, next and largestBlockSize,   *)
(* the consumer owns frontBlock, front and localTail, and what a thread    *)
(* reads of its own variables belongs to the step around it.  Accesses are *)
(* sequentially consistent here, the fences of the source change nothing;  *)
(* WeakMemoryQueue is the same code on hardware that reorders accesses.    *)
(*                                                                         *)
(* Blocks are named by the order of their allocation (none is ever freed   *)
(* before the destructor), 0 is the null pointer, and the n-th element     *)
(* offered and accepted is the number n; 0 in a slot is raw storage.       *)
(***************************************************************************)
EXTENDS Integers

CONSTANTS MaxSize,         \* the constructor's argument
          MAX_BLOCK_SIZE,  \* the template's argument
          MaxBlocks,       \* bound: blocks malloc can provide
          MaxElements,     \* bound: elements the producer gets accepted
          ProducerOps,     \* the calls the producer makes
          ConsumerOps      \* the calls the consumer makes

\* The smallest power of two that is at least n (ceilToPow2; the bit trick
\* itself is checked in QueueArithmetic).
CeilPow2(n) == CHOOSE p \in {2^k : k \in 0..n} : n <= p /\ p < 2 * n

\* Several blocks of the maximal size, or a single one that is large enough.
ManyBlocks == CeilPow2(MaxSize + 1) > 2 * MAX_BLOCK_SIZE

\* Mutant of InitialBlockCount: the block the consumer may linger in is forgotten.
InitialBlockCountNoSpare ==
    IF ManyBlocks
      THEN (MaxSize + MAX_BLOCK_SIZE - 2) \div (MAX_BLOCK_SIZE - 1)
      ELSE 1

InitialBlockCount ==
    IF ManyBlocks
      THEN (MaxSize + 2 * MAX_BLOCK_SIZE - 3) \div (MAX_BLOCK_SIZE - 1)
      ELSE 1

InitialBlockSize ==
    IF ManyBlocks THEN MAX_BLOCK_SIZE ELSE CeilPow2(MaxSize + 1)

\* The assertions of the constructor, and that it did not throw bad_alloc.
ASSUME ConstructorAssumption ==
    /\ MaxSize \in Nat \ {0}
    /\ MAX_BLOCK_SIZE \in Nat \ {0, 1}
    /\ MaxBlocks \in Nat
    /\ MaxElements \in Nat
    /\ InitialBlockCount \in 1..MaxBlocks
    /\ InitialBlockSize \in Nat \ {0, 1}

\* The rounding of the constructor goes up.
ASSUME CeilAssumption == CeilPow2(MaxSize + 1) > MaxSize

ASSUME OperationsAssumption ==
    /\ ProducerOps \subseteq {"enqueue", "try_enqueue", "size_approx"}
    /\ ConsumerOps \subseteq {"try_dequeue", "pop", "peek", "size_approx"}

Null    == 0
Block   == 1..MaxBlocks
\* No block is larger than the first one or than twice MAX_BLOCK_SIZE.
SlotLimit == IF InitialBlockSize > 2 * MAX_BLOCK_SIZE
               THEN InitialBlockSize ELSE 2 * MAX_BLOCK_SIZE
Slot    == 0..(SlotLimit - 1)
Threads == {"producer", "consumer"}

VARIABLES
    frontBlock, tailBlock,    \* where the consumer reads, the producer writes
    front, tail,              \* per block: next slot to read, to write
    localFront, localTail,    \* per block: each side's copy of the other's
    next,                     \* per block: the next one of the circle
    size,                     \* per block: sizeMask + 1
    data,                     \* per block: its slots
    blocks,                   \* how many blocks make_block returned
    largestBlockSize,
    ppc, pmode, pblock,       \* producer: where, AllocationMode, the other block
    cpc, cop, cblock,         \* consumer: where, which call, the other block
    enqueued, dequeued,       \* elements accepted so far, removed so far
    wasFull, wasEmpty,        \* the state the call in progress found
    got,                      \* the element the consumer's call found; 0: none
    spc, walk                 \* size_approx, per thread

blockVars == <<front, tail, localFront, localTail, next, size, data, blocks,
               largestBlockSize>>
prodVars  == <<ppc, pmode, pblock, enqueued, wasFull>>
consVars  == <<cpc, cop, cblock, dequeued, wasEmpty, got>>
sizeVars  == <<spc, walk>>
vars == <<frontBlock, tailBlock, blockVars, prodVars, consVars, sizeVars>>

-----------------------------------------------------------------------------
(* Positions in a block *)

\* (i + 1) & sizeMask
Succ(b, i) == IF i + 1 = size[b] THEN 0 ELSE i + 1

\* Mutant of Dist: the mask is forgotten.
DistUnmasked(b, i, j) == j - i

\* (j - i) & sizeMask
Dist(b, i, j) == IF i <= j THEN j - i ELSE j + size[b] - i

Count(b) == Dist(b, front[b], tail[b])

QueueSize == enqueued - dequeued

\* The local variables of size_approx outside of it.
NoWalk == [from |-> Null, at |-> Null, sum |-> 0, before |-> 0]

-----------------------------------------------------------------------------
(* ReaderWriterQueue(maxSize) and Block(...) *)

Init ==
    /\ frontBlock = 1
    /\ tailBlock = 1
    /\ blocks = InitialBlockCount
    /\ largestBlockSize = InitialBlockSize
    /\ front = [b \in Block |-> 0]
    /\ tail = [b \in Block |-> 0]
    /\ localFront = [b \in Block |-> 0]
    /\ localTail = [b \in Block |-> 0]
    /\ next = [b \in Block |-> IF b < InitialBlockCount THEN b + 1
                               ELSE IF b = InitialBlockCount THEN 1 ELSE Null]
    /\ size = [b \in Block |-> IF b <= InitialBlockCount
                                 THEN InitialBlockSize ELSE 0]
    /\ data = [b \in Block |-> [i \in Slot |-> 0]]
    /\ ppc = "idle" /\ pmode = "CanAlloc" /\ pblock = Null
    /\ enqueued = 0 /\ wasFull = FALSE
    /\ cpc = "idle" /\ cop = "try_dequeue" /\ cblock = Null
    /\ dequeued = 0 /\ wasEmpty = FALSE /\ got = 0
    /\ spc = [t \in Threads |-> "off"]
    /\ walk = [t \in Threads |-> NoWalk]

-----------------------------------------------------------------------------
(* inner_enqueue<canAlloc> *)

\* The element the call in progress brings.
Element == enqueued + 1

\* The next slot is compared with localFront, the producer's own copy.
BeginEnqueue(mode) ==
    /\ ppc = "idle" /\ spc["producer"] = "off"
    /\ enqueued < MaxElements
    /\ pmode' = mode
    /\ wasFull' = (QueueSize >= MaxSize)
    /\ ppc' = IF Succ(tailBlock, tail[tailBlock]) # localFront[tailBlock]
                THEN "construct" ELSE "loadFront"
    /\ UNCHANGED <<frontBlock, tailBlock, blockVars, pblock, enqueued,
                   consVars, sizeVars>>

Enqueue    == "enqueue" \in ProducerOps /\ BeginEnqueue("CanAlloc")
TryEnqueue == "try_enqueue" \in ProducerOps /\ BeginEnqueue("CannotAlloc")

\* Mutant of LoadFront: whatever front says, the block has room.
LoadFrontAssumesRoom ==
    /\ ppc = "loadFront"
    /\ localFront' = [localFront EXCEPT ![tailBlock] = front[tailBlock]]
    /\ ppc' = "construct"
    /\ UNCHANGED <<frontBlock, tailBlock, front, tail, localTail, next, size,
                   data, blocks, largestBlockSize, pmode, pblock, enqueued,
                   wasFull, consVars, sizeVars>>

\* The copy says full: refresh it from the consumer's front.
LoadFront ==
    /\ ppc = "loadFront"
    /\ localFront' = [localFront EXCEPT ![tailBlock] = front[tailBlock]]
    /\ ppc' = IF Succ(tailBlock, tail[tailBlock]) # front[tailBlock]
                THEN "construct" ELSE "checkNext"
    /\ UNCHANGED <<frontBlock, tailBlock, front, tail, localTail, next, size,
                   data, blocks, largestBlockSize, pmode, pblock, enqueued,
                   wasFull, consVars, sizeVars>>

\* new (location) T(...) in the tail block
Construct ==
    /\ ppc = "construct"
    /\ data' = [data EXCEPT ![tailBlock][tail[tailBlock]] = Element]
    /\ ppc' = "publish"
    /\ UNCHANGED <<frontBlock, tailBlock, front, tail, localFront, localTail,
                   next, size, blocks, largestBlockSize, pmode, pblock,
                   enqueued, wasFull, consVars, sizeVars>>

\* The store that lets the consumer see the element; the call returns true.
PublishTail ==
    /\ ppc = "publish"
    /\ tail' = [tail EXCEPT ![tailBlock] = Succ(tailBlock, tail[tailBlock])]
    /\ enqueued' = enqueued + 1
    /\ ppc' = "idle"
    /\ UNCHANGED <<frontBlock, tailBlock, front, localFront, localTail, next,
                   size, data, blocks, largestBlockSize, pmode, pblock,
                   wasFull, consVars, sizeVars>>

\* Mutant of CheckNext: the next block is taken to be free.
CheckNextAssumesFree ==
    /\ ppc = "checkNext"
    /\ ppc' = "loadNext"
    /\ UNCHANGED <<frontBlock, tailBlock, blockVars, pmode, pblock, enqueued,
                   wasFull, consVars, sizeVars>>

\* The tail block is full: is the block after it free?
CheckNext ==
    /\ ppc = "checkNext"
    /\ \/ next[tailBlock] # frontBlock /\ ppc' = "loadNext"
       \/ next[tailBlock] = frontBlock /\ pmode = "CanAlloc" /\ ppc' = "alloc"
       \/ next[tailBlock] = frontBlock /\ pmode = "CannotAlloc"
          /\ ppc' = "idle"                                 \* return false
    /\ UNCHANGED <<frontBlock, tailBlock, blockVars, pmode, pblock, enqueued,
                   wasFull, consVars, sizeVars>>

\* The free block's front, read once, is the producer's copy from here on.
LoadNext ==
    /\ ppc = "loadNext"
    /\ pblock' = next[tailBlock]
    /\ localFront' = [localFront EXCEPT ![pblock'] = front[pblock']]
    /\ ppc' = "constructNext"
    /\ UNCHANGED <<frontBlock, tailBlock, front, tail, localTail, next, size,
                   data, blocks, largestBlockSize, pmode, enqueued, wasFull,
                   consVars, sizeVars>>

ConstructNext ==
    /\ ppc = "constructNext"
    /\ data' = [data EXCEPT ![pblock][tail[pblock]] = Element]
    /\ ppc' = "publishNext"
    /\ UNCHANGED <<frontBlock, tailBlock, front, tail, localFront, localTail,
                   next, size, blocks, largestBlockSize, pmode, pblock,
                   enqueued, wasFull, consVars, sizeVars>>

PublishNext ==
    /\ ppc = "publishNext"
    /\ tail' = [tail EXCEPT ![pblock] = Succ(pblock, tail[pblock])]
    /\ ppc' = "advance"
    /\ UNCHANGED <<frontBlock, tailBlock, front, localFront, localTail, next,
                   size, data, blocks, largestBlockSize, pmode, pblock,
                   enqueued, wasFull, consVars, sizeVars>>

\* make_block, and what is stored into the block while it is still private
MakeBlock ==
    LET b == blocks + 1
        newBlockSize == IF largestBlockSize >= MAX_BLOCK_SIZE
                          THEN largestBlockSize ELSE 2 * largestBlockSize
    IN  /\ ppc = "alloc"
        /\ blocks < MaxBlocks
        /\ blocks' = b
        /\ pblock' = b
        /\ largestBlockSize' = newBlockSize
        /\ size' = [size EXCEPT ![b] = newBlockSize]
        /\ data' = [data EXCEPT ![b][0] = Element]
        /\ tail' = [tail EXCEPT ![b] = 1]
        /\ localTail' = [localTail EXCEPT ![b] = 1]
        /\ ppc' = "link"
        /\ UNCHANGED <<frontBlock, tailBlock, front, localFront, next, pmode,
                       enqueued, wasFull, consVars, sizeVars>>

\* malloc may fail at any time: return false
MallocFails ==
    /\ ppc = "alloc"
    /\ ppc' = "idle"
    /\ UNCHANGED <<frontBlock, tailBlock, blockVars, pmode, pblock, enqueued,
                   wasFull, consVars, sizeVars>>

\* Mutant of LinkBlock: the new block closes the circle.
LinkBlockLast ==
    /\ ppc = "link"
    /\ next' = [next EXCEPT ![pblock] = frontBlock, ![tailBlock] = pblock]
    /\ ppc' = "advance"
    /\ UNCHANGED <<frontBlock, tailBlock, front, tail, localFront, localTail,
                   size, data, blocks, largestBlockSize, pmode, pblock,
                   enqueued, wasFull, consVars, sizeVars>>

\* newBlock->next = tailBlock_->next, then tailBlock_->next = newBlock
LinkBlock ==
    /\ ppc = "link"
    /\ next' = [next EXCEPT ![pblock] = next[tailBlock],
                            ![tailBlock] = pblock]
    /\ ppc' = "advance"
    /\ UNCHANGED <<frontBlock, tailBlock, front, tail, localFront, localTail,
                   size, data, blocks, largestBlockSize, pmode, pblock,
                   enqueued, wasFull, consVars, sizeVars>>

\* Mutant of AdvanceTailBlock: the store is missing.
AdvanceTailBlockForgotten ==
    /\ ppc = "advance"
    /\ enqueued' = enqueued + 1
    /\ ppc' = "idle"
    /\ UNCHANGED <<frontBlock, tailBlock, blockVars, pmode, pblock, wasFull,
                   consVars, sizeVars>>

\* The store that lets the consumer leave the old block; the call returns true.
AdvanceTailBlock ==
    /\ ppc = "advance"
    /\ tailBlock' = pblock
    /\ enqueued' = enqueued + 1
    /\ ppc' = "idle"
    /\ UNCHANGED <<frontBlock, blockVars, pmode, pblock, wasFull, consVars,
                   sizeVars>>

InnerEnqueue ==
    \/ LoadFront \/ Construct \/ PublishTail \/ CheckNext
    \/ LoadNext \/ ConstructNext \/ PublishNext
    \/ MakeBlock \/ MallocFails \/ LinkBlock
    \/ AdvanceTailBlock

-----------------------------------------------------------------------------
(* try_dequeue, pop and peek *)

\* front is compared with localTail, the consumer's own copy.
BeginDequeue(op) ==
    /\ op \in ConsumerOps
    /\ cpc = "idle" /\ spc["consumer"] = "off"
    /\ cop' = op
    /\ wasEmpty' = (QueueSize = 0)
    /\ got' = 0
    /\ cpc' = IF front[frontBlock] # localTail[frontBlock]
                THEN "read" ELSE "loadTail"
    /\ UNCHANGED <<frontBlock, tailBlock, blockVars, prodVars, cblock,
                   dequeued, sizeVars>>

TryDequeue == BeginDequeue("try_dequeue")
Pop        == BeginDequeue("pop")
Peek       == BeginDequeue("peek")

RefreshLocalTail(pc, then) ==
    /\ cpc = pc
    /\ localTail' = [localTail EXCEPT ![frontBlock] = tail[frontBlock]]
    /\ cpc' = IF front[frontBlock] # tail[frontBlock] THEN "read" ELSE then
    /\ UNCHANGED <<frontBlock, tailBlock, front, tail, localFront, next, size,
                   data, blocks, largestBlockSize, prodVars, cop, cblock,
                   dequeued, wasEmpty, got, sizeVars>>

\* The copy says empty: refresh it from the producer's tail.
LoadTail == RefreshLocalTail("loadTail", "checkTailBlock")

\* Mutant of CheckTailBlock: the tail is not read again.
CheckTailBlockNoReload ==
    /\ cpc = "checkTailBlock"
    /\ cpc' = IF frontBlock # tailBlock THEN "loadNext" ELSE "idle"
    /\ UNCHANGED <<frontBlock, tailBlock, blockVars, prodVars, cop, cblock,
                   dequeued, wasEmpty, got, sizeVars>>

\* The front block looks empty: is it also the tail block?
CheckTailBlock ==
    /\ cpc = "checkTailBlock"
    /\ cpc' = IF frontBlock # tailBlock THEN "reloadTail" ELSE "idle"
    /\ UNCHANGED <<frontBlock, tailBlock, blockVars, prodVars, cop, cblock,
                   dequeued, wasEmpty, got, sizeVars>>

\* The producer has moved on, but may have filled this block before it did.
ReloadTail == RefreshLocalTail("reloadTail", "loadNext")

FollowNext ==
    /\ cpc = "loadNext"
    /\ cblock' = next[frontBlock]
    /\ cpc' = "loadNextTail"
    /\ UNCHANGED <<frontBlock, tailBlock, blockVars, prodVars, cop, dequeued,
                   wasEmpty, got, sizeVars>>

\* peek asserts on the tail without keeping a copy, and reads ahead.
LoadNextTail ==
    /\ cpc = "loadNextTail"
    /\ IF cop = "peek"
         THEN /\ cpc' = "readNext"
              /\ UNCHANGED localTail
         ELSE /\ cpc' = "advanceFrontBlock"
              /\ localTail' = [localTail EXCEPT ![cblock] = tail[cblock]]
    /\ UNCHANGED <<frontBlock, tailBlock, front, tail, localFront, next, size,
                   data, blocks, largestBlockSize, prodVars, cop, cblock,
                   dequeued, wasEmpty, got, sizeVars>>

\* The old front block is the producer's to use from here on.
AdvanceFrontBlock ==
    /\ cpc = "advanceFrontBlock"
    /\ frontBlock' = cblock
    /\ cpc' = "read"
    /\ UNCHANGED <<tailBlock, blockVars, prodVars, cop, cblock, dequeued,
                   wasEmpty, got, sizeVars>>

\* Move the element out and destroy it, or (peek) return a pointer to it.
ReadElement ==
    /\ cpc = "read"
    /\ got' = data[frontBlock][front[frontBlock]]
    /\ IF cop = "peek"
         THEN /\ cpc' = "idle"
              /\ UNCHANGED data
         ELSE /\ cpc' = "advanceFront"
              /\ data' = [data EXCEPT ![frontBlock][front[frontBlock]] = 0]
    /\ UNCHANGED <<frontBlock, tailBlock, front, tail, localFront, localTail,
                   next, size, blocks, largestBlockSize, prodVars, cop, cblock,
                   dequeued, wasEmpty, sizeVars>>

ReadNext ==
    /\ cpc = "readNext"
    /\ got' = data[cblock][front[cblock]]
    /\ cpc' = "idle"
    /\ UNCHANGED <<frontBlock, tailBlock, blockVars, prodVars, cop, cblock,
                   dequeued, wasEmpty, sizeVars>>

\* The store that gives the slot back; the call returns true.
AdvanceFront ==
    /\ cpc = "advanceFront"
    /\ front' = [front EXCEPT
                   ![frontBlock] = Succ(frontBlock, front[frontBlock])]
    /\ dequeued' = dequeued + 1
    /\ cpc' = "idle"
    /\ UNCHANGED <<frontBlock, tailBlock, tail, localFront, localTail, next,
                   size, data, blocks, largestBlockSize, prodVars, cop, cblock,
                   wasEmpty, got, sizeVars>>

InnerDequeue ==
    \/ LoadTail \/ CheckTailBlock \/ ReloadTail
    \/ FollowNext \/ LoadNextTail \/ AdvanceFrontBlock
    \/ ReadElement \/ ReadNext \/ AdvanceFront

-----------------------------------------------------------------------------
(* size_approx, from either thread *)

ThreadIdle(t) == IF t = "producer"
                   THEN ppc = "idle" /\ "size_approx" \in ProducerOps
                   ELSE cpc = "idle" /\ "size_approx" \in ConsumerOps

SizeApprox(t) ==
    /\ ThreadIdle(t) /\ spc[t] = "off"
    /\ walk' = [walk EXCEPT ![t] = [from |-> frontBlock, at |-> frontBlock,
                                    sum |-> 0, before |-> QueueSize]]
    /\ spc' = [spc EXCEPT ![t] = "count"]
    /\ UNCHANGED <<frontBlock, tailBlock, blockVars, prodVars, consVars>>

\* One of front and tail is the caller's own: a single read matters.
CountBlock(t) ==
    /\ spc[t] = "count"
    /\ walk' = [walk EXCEPT ![t].sum = @ + Count(walk[t].at)]
    /\ spc' = [spc EXCEPT ![t] = "step"]
    /\ UNCHANGED <<frontBlock, tailBlock, blockVars, prodVars, consVars>>

StepBlock(t) ==
    /\ spc[t] = "step"
    /\ IF next[walk[t].at] = walk[t].from
         THEN /\ walk' = [walk EXCEPT ![t] = NoWalk]          \* return result
              /\ spc' = [spc EXCEPT ![t] = "off"]
         ELSE /\ walk' = [walk EXCEPT ![t].at = next[walk[t].at]]
              /\ spc' = [spc EXCEPT ![t] = "count"]
    /\ UNCHANGED <<frontBlock, tailBlock, blockVars, prodVars, consVars>>

Sizing == \E t \in Threads : SizeApprox(t) \/ CountBlock(t) \/ StepBlock(t)

-----------------------------------------------------------------------------
Next == \/ Enqueue \/ TryEnqueue \/ InnerEnqueue
        \/ TryDequeue \/ Pop \/ Peek \/ InnerDequeue
        \/ Sizing

Spec == Init /\ [][Next]_vars

\* A thread that is inside a call keeps running, and the consumer's loop
\* (PacketWriter.cc:128) asks for the next element again and again, whatever
\* else it calls in between.
Fairness == /\ WF_vars(InnerEnqueue)
            /\ WF_vars(InnerDequeue)
            /\ SF_vars(TryDequeue)

FairSpec == Spec /\ Fairness
-----------------------------------------------------------------------------
(* Properties *)

\* Every variable has its type, and every position is inside its block.
TypeOK ==
    /\ blocks \in Block /\ frontBlock \in Block /\ tailBlock \in Block
    /\ size \in [Block -> 0..SlotLimit]
    /\ front \in [Block -> Slot] /\ tail \in [Block -> Slot]
    /\ localFront \in [Block -> Slot] /\ localTail \in [Block -> Slot]
    /\ next \in [Block -> Block \cup {Null}]
    /\ data \in [Block -> [Slot -> 0..MaxElements]]
    /\ largestBlockSize \in 2..SlotLimit
    /\ ppc \in {"idle", "loadFront", "construct", "publish", "checkNext",
                "loadNext", "constructNext", "publishNext", "alloc", "link",
                "advance"}
    /\ pmode \in {"CanAlloc", "CannotAlloc"}
    /\ pblock \in Block \cup {Null}
    /\ cpc \in {"idle", "loadTail", "checkTailBlock", "reloadTail", "loadNext",
                "loadNextTail", "advanceFrontBlock", "read", "readNext",
                "advanceFront"}
    /\ cop \in {"try_dequeue", "pop", "peek"}
    /\ cblock \in Block \cup {Null}
    /\ enqueued \in 0..MaxElements /\ dequeued \in Nat
    /\ got \in 0..MaxElements
    /\ wasFull \in BOOLEAN /\ wasEmpty \in BOOLEAN
    /\ spc \in [Threads -> {"off", "count", "step"}]
    /\ walk \in [Threads -> [from : Block \cup {Null}, at : Block \cup {Null},
                             sum : Nat, before : Int]]

\* The assertions of the source: the block the producer moves on to is empty
\* (459), the one the consumer moves on to is not (252, 317, 368).
AssertionsHold ==
    /\ ppc = "constructNext" => localFront[pblock] = tail[pblock]
    /\ cpc = "advanceFrontBlock" => front[cblock] # localTail[cblock]
    /\ cpc = "readNext" => front[cblock] # tail[cblock]

\* An element is constructed in raw storage only: the producer never writes
\* over an element the consumer has not destroyed yet.
ConstructsInRawStorage ==
    /\ ppc = "construct" => data[tailBlock][tail[tailBlock]] = 0
    /\ ppc = "constructNext" => data[pblock][tail[pblock]] = 0

\* The two threads never touch one slot at the same time: the slot being
\* constructed is not the one being moved out, destroyed or peeked at.
NoSlotRace ==
    LET written == CASE ppc = "construct" -> {<<tailBlock, tail[tailBlock]>>}
                     [] ppc = "constructNext" -> {<<pblock, tail[pblock]>>}
                     [] OTHER -> {}
        read == CASE cpc = "read" -> {<<frontBlock, front[frontBlock]>>}
                  [] cpc = "readNext" -> {<<cblock, front[cblock]>>}
                  [] OTHER -> {}
    IN  written \cap read = {}

\* The queue takes maxSize elements without a further allocation (64): the
\* producer asks for memory, or gives up, only if it held as many already.
HoldsMaxSize ==
    [][ppc = "checkNext" /\ ppc' \in {"alloc", "idle"} => wasFull]_vars

\* size_approx never invents elements: the producer gets a size the queue had
\* during the call, the consumer at most one more, for the element whose
\* block is not the tail block yet.
SizeApproxIsClose ==
    [][\A t \in Threads :
         spc[t] # "off" /\ spc'[t] = "off" =>
           IF t = "producer"
             THEN walk[t].sum \in QueueSize..walk[t].before
             ELSE walk[t].sum \in walk[t].before..
                    (QueueSize + IF ppc = "advance" THEN 1 ELSE 0)]_vars

\* Every element that was accepted is removed sooner or later.
EveryElementLeaves ==
    \A n \in 1..MaxElements : enqueued >= n ~> dequeued >= n
=============================================================================
