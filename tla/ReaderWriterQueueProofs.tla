---------------------- MODULE ReaderWriterQueueProofs ----------------------
(***************************************************************************)
(* The inductive invariant of ReaderWriterQueue and the proofs, for every  *)
(* queue size, block size, number of blocks and number of elements.        *)
(*                                                                         *)
(* The first two layers say nothing about the circle as a whole            *)
(* (reachability over next would need induction): they relate a block to   *)
(* the one after it.  The third is what lies in the slots.  The fourth is  *)
(* about the circle: a numbering of its blocks, and how much it holds (a   *)
(* block the producer has left and the consumer has not reached is full).  *)
(* How many elements the blocks between two others hold is shown by the    *)
(* least counterexample along the circle.  The queue then implements       *)
(* SpscFifo with a capacity of MaxSize elements: first as the run of       *)
(* numbers it stands for, then as the walk along the circle that           *)
(* ReaderWriterQueueFifo reads off the blocks, and the destructor takes.   *)
(* Last comes size_approx, which walks the circle while the other thread   *)
(* moves on: what it has counted is compared with what lies before it.     *)
(***************************************************************************)
EXTENDS ReaderWriterQueueFifo, SequenceTheorems, WellFoundedInduction, TLAPS

-----------------------------------------------------------------------------
(* The inductive invariant, in two layers *)

\* The blocks of the circle: every block but the one not linked yet.
Linked == IF ppc = "link" THEN 1..(blocks - 1) ELSE 1..blocks

\* Layer 1: pointers lead to blocks and positions lie inside them.
Shape ==
    /\ \A b \in Block :
         IF b <= blocks
           THEN /\ size[b] >= 2
                /\ front[b] < size[b] /\ tail[b] < size[b]
                /\ localFront[b] < size[b] /\ localTail[b] < size[b]
           ELSE /\ front[b] = 0 /\ tail[b] = 0
                /\ localFront[b] = 0 /\ localTail[b] = 0
    /\ \A b \in Linked : next[b] \in Linked
    /\ frontBlock \in Linked /\ tailBlock \in Linked
    /\ ppc \in {"constructNext", "publishNext", "advance"} => pblock \in Linked
    /\ ppc = "link" => pblock = blocks
    /\ cpc \in {"loadNextTail", "advanceFrontBlock", "readNext"}
         => cblock \in Linked
    /\ \A t \in Threads : spc[t] # "off" => walk[t].at \in Linked
    /\ ppc # "idle" => enqueued < MaxElements

\* Layer 2: the positions of a block are in order, and the blocks in use are
\* in order along the circle.

\* The producer's copy of front is behind front, which is behind the
\* consumer's copy of tail, which is behind tail.
Ordered(b) ==
    /\ Dist(b, localFront[b], front[b]) + Dist(b, front[b], tail[b])
         = Dist(b, localFront[b], tail[b])
    /\ Dist(b, front[b], localTail[b]) + Dist(b, localTail[b], tail[b])
         = Dist(b, front[b], tail[b])

Positions ==
    /\ \A b \in 1..blocks : Ordered(b)
    /\ ppc \in {"construct", "publish"}
         => Succ(tailBlock, tail[tailBlock]) # localFront[tailBlock]
    /\ cpc \in {"read", "advanceFront"}
         => front[frontBlock] # localTail[frontBlock]

Empty(b) == front[b] = tail[b]
Free(b)  == Empty(b) /\ b # frontBlock

\* The last block of the queue: the producer has put its element into the
\* next block before it moves tailBlock there.
LastBlock == IF ppc = "advance" THEN pblock ELSE tailBlock

\* From the front block to the last one the blocks hold elements; after the
\* last one, up to the front block, they are free.
Circle ==
    /\ \A b, c \in Linked : next[b] = next[c] => b = c
    /\ ~Free(LastBlock)
    /\ \A b \in Linked : Free(b) \/ b = LastBlock
         => Free(next[b]) \/ next[b] = frontBlock
    /\ \A b \in Linked : ~Free(b) /\ b # LastBlock
         => ~Empty(next[b]) /\ next[b] # frontBlock

\* What the producer knows of the block it is about to use.
ProducerAt ==
    /\ ppc = "loadNext" => Free(next[tailBlock])
    /\ ppc \in {"constructNext", "publishNext"}
         => /\ pblock = next[tailBlock] /\ pblock # tailBlock
            /\ Free(pblock)
            /\ localFront[pblock] = front[pblock]
    /\ ppc = "advance"
         => /\ pblock = next[tailBlock] /\ pblock # tailBlock
            /\ pblock # frontBlock
            /\ Count(pblock) = 1
    /\ ppc = "link"
         => front[pblock] = 0 /\ tail[pblock] = 1

\* What the consumer knows of the block it is about to leave.
ConsumerAt ==
    /\ cpc \in {"reloadTail", "loadNext", "loadNextTail", "advanceFrontBlock",
                "readNext"} => frontBlock # tailBlock
    /\ cpc \in {"loadNext", "loadNextTail", "advanceFrontBlock", "readNext"}
         => Empty(frontBlock)
    /\ cpc \in {"loadNextTail", "advanceFrontBlock", "readNext"}
         => cblock = next[frontBlock]
    /\ cpc = "advanceFrontBlock" => front[cblock] # localTail[cblock]

Ring == Positions /\ Circle /\ ProducerAt /\ ConsumerAt

-----------------------------------------------------------------------------
(* Arithmetic of positions *)

LEMMA SlotLimitFacts ==
    /\ SlotLimit \in Nat /\ SlotLimit >= 2
    /\ InitialBlockSize <= SlotLimit
    /\ 2 * MAX_BLOCK_SIZE <= SlotLimit
    /\ Slot = 0..(SlotLimit - 1)
  BY ConstructorAssumption DEF ConstructorAssumption, SlotLimit, Slot

-----------------------------------------------------------------------------
(* Layer 1: TypeOK /\ Shape *)

LEMMA ShapeInit == Init => TypeOK /\ Shape
<1> SUFFICES ASSUME Init PROVE TypeOK /\ Shape
  OBVIOUS
<1> USE ConstructorAssumption DEF ConstructorAssumption, Block, Null
<1>1. Linked = 1..InitialBlockCount
  BY DEF Init, Linked
<1>2. blocks \in Block /\ frontBlock \in Block /\ tailBlock \in Block
  BY DEF Init
<1>3. size \in [Block -> 0..SlotLimit]
  BY SlotLimitFacts DEF Init
<1>4. 0 \in Slot
  BY SlotLimitFacts
<1>5. next \in [Block -> Block \cup {Null}]
  BY DEF Init
<1>6. data \in [Block -> [Slot -> 0..MaxElements]]
  BY DEF Init
<1>7. largestBlockSize \in 2..SlotLimit
  BY SlotLimitFacts DEF Init
<1>8. walk \in [Threads -> [from : Block \cup {Null}, at : Block \cup {Null},
                            sum : Nat, before : Int]]
  BY DEF Init, NoWalk
<1>9. TypeOK
  BY <1>2, <1>3, <1>4, <1>5, <1>6, <1>7, <1>8 DEF Init, TypeOK
<1>10. Shape
  BY <1>1 DEF Init, Shape, Threads
<1> QED
  BY <1>9, <1>10

LEMMA Basics ==
  ASSUME TypeOK, Shape
  PROVE  /\ MaxElements \in Nat /\ MaxBlocks \in Nat /\ MAX_BLOCK_SIZE \in Nat
         /\ Block = 1..MaxBlocks
         /\ enqueued \in Nat /\ blocks \in Nat /\ blocks \in Block
         /\ 0 \in Slot /\ 1 \in Slot /\ Slot \subseteq Nat
         /\ Linked \subseteq 1..blocks /\ 1..blocks \subseteq Block
         /\ Linked \subseteq Block
         /\ tailBlock \in Linked /\ frontBlock \in Linked
<1>1. /\ MaxElements \in Nat /\ MaxBlocks \in Nat /\ MAX_BLOCK_SIZE \in Nat
      /\ Block = 1..MaxBlocks
  BY ConstructorAssumption DEF ConstructorAssumption, Block
<1>2. enqueued \in Nat /\ blocks \in Nat /\ blocks \in Block
  BY <1>1 DEF TypeOK
<1>3. 0 \in Slot /\ 1 \in Slot /\ Slot \subseteq Nat
  BY SlotLimitFacts
<1>4. Linked \subseteq 1..blocks /\ 1..blocks \subseteq Block
  BY <1>1, <1>2 DEF Linked
<1>5. tailBlock \in Linked /\ frontBlock \in Linked
  BY DEF Shape
<1> QED
  BY <1>1, <1>2, <1>3, <1>4, <1>5

\* Inside the blocks in use, positions are natural numbers below the size.
LEMMA BlockFacts ==
  ASSUME TypeOK, Shape, NEW b \in 1..blocks
  PROVE  /\ size[b] \in Nat /\ size[b] >= 2 /\ size[b] <= SlotLimit
         /\ front[b] \in Nat /\ front[b] < size[b]
         /\ tail[b] \in Nat /\ tail[b] < size[b]
         /\ localFront[b] \in Nat /\ localFront[b] < size[b]
         /\ localTail[b] \in Nat /\ localTail[b] < size[b]
<1>1. b \in Block /\ b <= blocks
  BY Basics
<1>2. size[b] \in Nat /\ size[b] <= SlotLimit
  BY <1>1, SlotLimitFacts DEF TypeOK
<1>3. /\ front[b] \in Nat /\ tail[b] \in Nat
      /\ localFront[b] \in Nat /\ localTail[b] \in Nat
  BY <1>1, Basics DEF TypeOK
<1> QED
  BY <1>1, <1>2, <1>3 DEF Shape

LEMMA SuccInBlock ==
  ASSUME TypeOK, Shape, NEW b \in 1..blocks, NEW i \in Nat, i < size[b]
  PROVE  Succ(b, i) \in Nat /\ Succ(b, i) \in Slot /\ Succ(b, i) < size[b]
<1>1. size[b] \in Nat /\ size[b] >= 2 /\ size[b] <= SlotLimit
  BY BlockFacts
<1> QED
  BY <1>1, SlotLimitFacts DEF Succ

\* One step per action; what an action leaves alone keeps its type.
LEMMA ShapeEnqueue ==
  ASSUME TypeOK, Shape, Enqueue \/ TryEnqueue \/ InnerEnqueue
  PROVE  TypeOK' /\ Shape'
<1> USE DEF blockVars, prodVars, consVars, sizeVars
<1>0. /\ MaxElements \in Nat /\ MaxBlocks \in Nat /\ MAX_BLOCK_SIZE \in Nat
      /\ Block = 1..MaxBlocks
      /\ enqueued \in Nat /\ blocks \in Nat /\ blocks \in Block
      /\ 0 \in Slot /\ 1 \in Slot
      /\ Linked \subseteq 1..blocks /\ 1..blocks \subseteq Block
      /\ Linked \subseteq Block
      /\ tailBlock \in Linked /\ frontBlock \in Linked
  BY Basics
<1>1. ASSUME NEW mode \in {"CanAlloc", "CannotAlloc"}, BeginEnqueue(mode)
      PROVE  TypeOK' /\ Shape'
  <2>1. wasFull' \in BOOLEAN
    BY <1>1 DEF BeginEnqueue
  <2>2. ppc' \in {"construct", "loadFront"} /\ enqueued < MaxElements
    BY <1>1, <1>0 DEF BeginEnqueue
  <2>3. TypeOK'
    BY <1>1, <2>1, <2>2 DEF BeginEnqueue, TypeOK
  <2>4. Linked' = Linked
    BY <1>1, <2>2 DEF BeginEnqueue, Linked
  <2>5. Shape'
    BY <1>1, <2>2, <2>4 DEF BeginEnqueue, Shape
  <2> QED
    BY <2>3, <2>5
<1>2. CASE LoadFront
  <2>1. TypeOK'
    BY <1>2 DEF LoadFront, TypeOK
  <2>2. Linked' = Linked
    BY <1>2 DEF LoadFront, Linked
  <2>3. Shape'
    BY <1>2, <2>2 DEF LoadFront, TypeOK, Shape
  <2> QED
    BY <2>1, <2>3
<1>3. ASSUME NEW b \in Block, NEW i \in Slot,
             data' = [data EXCEPT ![b][i] = Element], ppc # "idle"
      PROVE  data' \in [Block -> [Slot -> 0..MaxElements]]
  <2>1. Element \in 0..MaxElements
    BY <1>0, <1>3 DEF Element, Shape
  <2>2. data[b] \in [Slot -> 0..MaxElements]
    BY DEF TypeOK
  <2>3. [data[b] EXCEPT ![i] = Element] \in [Slot -> 0..MaxElements]
    BY <2>1, <2>2
  <2> QED
    BY <1>3, <2>3 DEF TypeOK
<1>4. CASE Construct
  <2>1. data' \in [Block -> [Slot -> 0..MaxElements]]
    <3>1. tailBlock \in Block /\ tail[tailBlock] \in Slot
      BY DEF TypeOK
    <3> QED
      BY <1>3, <1>4, <3>1 DEF Construct
  <2>2. TypeOK'
    BY <1>4, <2>1 DEF Construct, TypeOK
  <2>3. Linked' = Linked
    BY <1>4 DEF Construct, Linked
  <2>4. Shape'
    BY <1>4, <2>3 DEF Construct, Shape
  <2> QED
    BY <2>2, <2>4
<1>5. CASE PublishTail
  <2>1. /\ Succ(tailBlock, tail[tailBlock]) \in Slot
        /\ Succ(tailBlock, tail[tailBlock]) < size[tailBlock]
    BY <1>0, BlockFacts, SuccInBlock
  <2>2. enqueued' \in 0..MaxElements
    BY <1>0, <1>5 DEF PublishTail, Shape
  <2>3. TypeOK'
    BY <1>5, <2>1, <2>2 DEF PublishTail, TypeOK
  <2>4. Linked' = Linked
    BY <1>5 DEF PublishTail, Linked
  <2>5. \A b \in Block : tail'[b] = IF b = tailBlock
                                       THEN Succ(b, tail[b]) ELSE tail[b]
    BY <1>5 DEF PublishTail, TypeOK
  <2>6. Shape'
    BY <1>0, <1>5, <2>1, <2>4, <2>5 DEF PublishTail, Shape
  <2> QED
    BY <2>3, <2>6
<1>6. CASE CheckNext
  <2>1. ppc' \in {"loadNext", "alloc", "idle"} /\ ppc = "checkNext"
    BY <1>6 DEF CheckNext
  <2>2. TypeOK'
    BY <1>6, <2>1 DEF CheckNext, TypeOK
  <2>3. Linked' = Linked
    BY <1>6, <2>1 DEF CheckNext, Linked
  <2>4. Shape'
    BY <1>6, <2>1, <2>3 DEF CheckNext, Shape
  <2> QED
    BY <2>2, <2>4
<1>7. CASE LoadNext
  <2>1. pblock' = next[tailBlock] /\ pblock' \in Linked /\ pblock' \in Block
    BY <1>0, <1>7 DEF LoadNext, Shape
  <2>2. TypeOK'
    BY <1>7, <2>1 DEF LoadNext, TypeOK
  <2>3. Linked' = Linked
    BY <1>7 DEF LoadNext, Linked
  <2>4. Shape'
    BY <1>0, <1>7, <2>1, <2>3 DEF LoadNext, TypeOK, Shape
  <2> QED
    BY <2>2, <2>4
<1>8. CASE ConstructNext
  <2>1. data' \in [Block -> [Slot -> 0..MaxElements]]
    <3>1. pblock \in Block /\ tail[pblock] \in Slot
      BY <1>0, <1>8 DEF ConstructNext, TypeOK, Shape
    <3> QED
      BY <1>3, <1>8, <3>1 DEF ConstructNext
  <2>2. TypeOK'
    BY <1>8, <2>1 DEF ConstructNext, TypeOK
  <2>3. Linked' = Linked
    BY <1>8 DEF ConstructNext, Linked
  <2>4. Shape'
    BY <1>8, <2>3 DEF ConstructNext, Shape
  <2> QED
    BY <2>2, <2>4
<1>9. CASE PublishNext
  <2>1. pblock \in Linked /\ pblock \in 1..blocks /\ pblock \in Block
    BY <1>0, <1>9 DEF PublishNext, Shape
  <2>2. /\ Succ(pblock, tail[pblock]) \in Slot
        /\ Succ(pblock, tail[pblock]) < size[pblock]
    BY <2>1, BlockFacts, SuccInBlock
  <2>3. TypeOK'
    BY <1>9, <2>2, ZenonT(20) DEF PublishNext, TypeOK
  <2>4. Linked' = Linked
    BY <1>9 DEF PublishNext, Linked
  <2>5. \A b \in Block : tail'[b] = IF b = pblock
                                       THEN Succ(b, tail[b]) ELSE tail[b]
    BY <1>9 DEF PublishNext, TypeOK
  <2>6. Shape'
    BY <1>0, <1>9, <2>1, <2>2, <2>4, <2>5 DEF PublishNext, Shape
  <2> QED
    BY <2>3, <2>6
<1>10. CASE MakeBlock
  <2> DEFINE b == blocks + 1
             newSize == IF largestBlockSize >= MAX_BLOCK_SIZE
                          THEN largestBlockSize ELSE 2 * largestBlockSize
  <2>1. b \in Block /\ b \notin 1..blocks
    BY <1>0, <1>10 DEF MakeBlock
  <2>2. newSize \in 2..SlotLimit
    BY <1>0, SlotLimitFacts DEF TypeOK
  <2>3. /\ blocks' = b /\ pblock' = b /\ largestBlockSize' = newSize
        /\ size' = [size EXCEPT ![b] = newSize]
        /\ data' = [data EXCEPT ![b][0] = Element]
        /\ tail' = [tail EXCEPT ![b] = 1]
        /\ localTail' = [localTail EXCEPT ![b] = 1]
        /\ ppc = "alloc" /\ ppc' = "link"
        /\ UNCHANGED <<frontBlock, tailBlock, front, localFront, next, pmode,
                       enqueued, wasFull, consVars, sizeVars>>
    BY <1>10 DEF MakeBlock
  <2>4. data' \in [Block -> [Slot -> 0..MaxElements]]
    BY <1>0, <1>3, <2>1, <2>3
  <2>5. newSize \in 0..SlotLimit
    BY <2>2, SlotLimitFacts
  <2> HIDE DEF newSize
  <2>6. TypeOK'
    BY <1>0, <2>1, <2>2, <2>3, <2>4, <2>5 DEF TypeOK
  <2>7. Linked = 1..blocks /\ Linked' = Linked
    BY <1>0, <2>3 DEF Linked
  <2>8. \A c \in Block :
          /\ size'[c] = IF c = b THEN newSize ELSE size[c]
          /\ tail'[c] = IF c = b THEN 1 ELSE tail[c]
          /\ localTail'[c] = IF c = b THEN 1 ELSE localTail[c]
    BY <2>3 DEF TypeOK
  <2>9. \A c \in Block : c <= blocks' <=> c <= blocks \/ c = b
    BY <1>0, <2>3
  <2>10. ASSUME NEW c \in Block
         PROVE  IF c <= blocks'
                  THEN /\ size'[c] >= 2
                       /\ front'[c] < size'[c] /\ tail'[c] < size'[c]
                       /\ localFront'[c] < size'[c] /\ localTail'[c] < size'[c]
                  ELSE /\ front'[c] = 0 /\ tail'[c] = 0
                       /\ localFront'[c] = 0 /\ localTail'[c] = 0
    <3>1. CASE c = b
      BY <1>0, <2>1, <2>2, <2>3, <2>8, <2>9, <3>1, SlotLimitFacts DEF Shape
    <3>2. CASE c # b
      BY <2>3, <2>8, <2>9, <3>2 DEF Shape
    <3> QED
      BY <3>1, <3>2
  <2>11. Shape'
    BY <1>0, <2>3, <2>7, <2>10 DEF Shape
  <2> QED
    BY <2>6, <2>11
<1>11. CASE MallocFails
  <2>1. TypeOK'
    BY <1>11 DEF MallocFails, TypeOK
  <2>2. Linked' = Linked
    BY <1>11 DEF MallocFails, Linked
  <2>3. Shape'
    BY <1>11, <2>2 DEF MallocFails, Shape
  <2> QED
    BY <2>1, <2>3
<1>12. CASE LinkBlock
  <2>1. /\ ppc = "link" /\ ppc' = "advance"
        /\ pblock = blocks /\ pblock \in Block
        /\ pblock \notin Linked /\ tailBlock # pblock
        /\ Linked' = Linked \cup {pblock}
    <3>1. /\ ppc = "link" /\ ppc' = "advance" /\ pblock = blocks
          /\ blocks' = blocks /\ pblock' = pblock
      BY <1>12 DEF LinkBlock, Shape
    <3>2. Linked = 1..(blocks - 1) /\ Linked' = 1..blocks
      BY <3>1 DEF Linked
    <3> QED
      BY <1>0, <3>1, <3>2
  <2>2. next[tailBlock] \in Linked /\ next[tailBlock] \in Block
    BY <1>0 DEF Shape
  <2>3. /\ next' \in [Block -> Block \cup {Null}]
        /\ next'[pblock] = next[tailBlock]
        /\ next'[tailBlock] = pblock
        /\ \A b \in Linked \ {tailBlock} : next'[b] = next[b]
    BY <1>0, <1>12, <2>1, <2>2 DEF LinkBlock, TypeOK
  <2>4. TypeOK'
    BY <1>12, <2>1, <2>3 DEF LinkBlock, TypeOK
  <2>5. \A b \in Linked' : next'[b] \in Linked'
    BY <2>1, <2>2, <2>3 DEF Shape
  <2>6. Shape'
    BY <1>0, <1>12, <2>1, <2>5 DEF LinkBlock, Shape
  <2> QED
    BY <2>4, <2>6
<1>13. CASE AdvanceTailBlock
  <2>1. /\ pblock \in Linked /\ pblock \in Block
        /\ enqueued' \in 0..MaxElements
    BY <1>0, <1>13 DEF AdvanceTailBlock, Shape
  <2>2. TypeOK'
    BY <1>13, <2>1 DEF AdvanceTailBlock, TypeOK
  <2>3. Linked' = Linked
    BY <1>13 DEF AdvanceTailBlock, Linked
  <2>4. Shape'
    BY <1>13, <2>1, <2>3 DEF AdvanceTailBlock, Shape
  <2> QED
    BY <2>2, <2>4
<1> QED
  BY <1>1, <1>2, <1>4, <1>5, <1>6, <1>7, <1>8, <1>9, <1>10, <1>11, <1>12, <1>13
     DEF Enqueue, TryEnqueue, InnerEnqueue

LEMMA ShapeDequeue ==
  ASSUME TypeOK, Shape, TryDequeue \/ Pop \/ Peek \/ InnerDequeue
  PROVE  TypeOK' /\ Shape'
<1> USE DEF blockVars, prodVars, consVars, sizeVars
<1>0. /\ Linked \subseteq 1..blocks /\ 1..blocks \subseteq Block
      /\ Linked \subseteq Block
      /\ tailBlock \in Linked /\ frontBlock \in Linked
      /\ 0 \in Slot
  BY Basics
<1>1. ASSUME NEW op \in {"try_dequeue", "pop", "peek"}, BeginDequeue(op)
      PROVE  TypeOK' /\ Shape'
  <2>1. wasEmpty' \in BOOLEAN
    BY <1>1 DEF BeginDequeue
  <2>2. cpc' \in {"read", "loadTail"} /\ got' \in 0..MaxElements
    BY <1>1, Basics DEF BeginDequeue
  <2>3. TypeOK'
    BY <1>1, <2>1, <2>2 DEF BeginDequeue, TypeOK
  <2>4. Linked' = Linked
    BY <1>1 DEF BeginDequeue, Linked
  <2>5. Shape'
    BY <1>1, <2>2, <2>4 DEF BeginDequeue, Shape
  <2> QED
    BY <2>3, <2>5
<1>2. ASSUME NEW pc \in {"loadTail", "reloadTail"},
             NEW then \in {"checkTailBlock", "loadNext"},
             RefreshLocalTail(pc, then)
      PROVE  TypeOK' /\ Shape'
  <2>1. cpc' \in {"read", "checkTailBlock", "loadNext"}
    BY <1>2 DEF RefreshLocalTail
  <2>2. TypeOK'
    BY <1>2, <2>1 DEF RefreshLocalTail, TypeOK
  <2>3. Linked' = Linked
    BY <1>2 DEF RefreshLocalTail, Linked
  <2>4. \A b \in Block : localTail'[b] = IF b = frontBlock
                                            THEN tail[b] ELSE localTail[b]
    BY <1>2 DEF RefreshLocalTail, TypeOK
  <2>5. Shape'
    BY <1>0, <1>2, <2>1, <2>3, <2>4 DEF RefreshLocalTail, Shape
  <2> QED
    BY <2>2, <2>5
<1>3. CASE CheckTailBlock
  <2>1. TypeOK'
    BY <1>3 DEF CheckTailBlock, TypeOK
  <2>2. Linked' = Linked
    BY <1>3 DEF CheckTailBlock, Linked
  <2>3. Shape'
    BY <1>3, <2>2 DEF CheckTailBlock, Shape
  <2> QED
    BY <2>1, <2>3
<1>4. CASE FollowNext
  <2>1. cblock' \in Linked /\ cblock' \in Block
    BY <1>0, <1>4 DEF FollowNext, Shape
  <2>2. TypeOK'
    BY <1>4, <2>1 DEF FollowNext, TypeOK
  <2>3. Linked' = Linked
    BY <1>4 DEF FollowNext, Linked
  <2>4. Shape'
    BY <1>4, <2>1, <2>3 DEF FollowNext, Shape
  <2> QED
    BY <2>2, <2>4
<1>5. CASE LoadNextTail
  <2>1. /\ cblock \in Linked /\ cblock \in Block /\ cblock' = cblock
        /\ cpc' \in {"readNext", "advanceFrontBlock"}
    BY <1>0, <1>5 DEF LoadNextTail, Shape
  <2>2. /\ localTail' \in [Block -> Slot]
        /\ \A b \in Block : localTail'[b] = localTail[b]
                              \/ (b = cblock /\ localTail'[b] = tail[b])
    BY <1>5, <2>1, SMTT(20) DEF LoadNextTail, TypeOK
  <2>3. TypeOK'
    BY <1>5, <2>1, <2>2 DEF LoadNextTail, TypeOK
  <2>4. Linked' = Linked
    BY <1>5 DEF LoadNextTail, Linked
  <2>5. Shape'
    BY <1>0, <1>5, <2>1, <2>2, <2>4 DEF LoadNextTail, Shape
  <2> QED
    BY <2>3, <2>5
<1>6. CASE AdvanceFrontBlock
  <2>1. frontBlock' \in Linked /\ frontBlock' \in Block
    BY <1>0, <1>6 DEF AdvanceFrontBlock, Shape
  <2>2. TypeOK'
    BY <1>6, <2>1 DEF AdvanceFrontBlock, TypeOK
  <2>3. Linked' = Linked
    BY <1>6 DEF AdvanceFrontBlock, Linked
  <2>4. Shape'
    BY <1>6, <2>1, <2>3 DEF AdvanceFrontBlock, Shape
  <2> QED
    BY <2>2, <2>4
<1>7. CASE ReadElement
  <2>1. front[frontBlock] \in Slot /\ frontBlock \in Block
    BY DEF TypeOK
  <2>2. got' \in 0..MaxElements
    BY <1>7, <2>1 DEF ReadElement, TypeOK
  <2>3. data' \in [Block -> [Slot -> 0..MaxElements]]
    <3>0. 0 \in 0..MaxElements
      BY Basics
    <3>1. data[frontBlock] \in [Slot -> 0..MaxElements]
      BY <2>1 DEF TypeOK
    <3>2. [data[frontBlock] EXCEPT ![front[frontBlock]] = 0]
            \in [Slot -> 0..MaxElements]
      BY <3>0, <3>1
    <3>3. data \in [Block -> [Slot -> 0..MaxElements]]
      BY DEF TypeOK
    <3>4. \/ data' = data
          \/ data' = [data EXCEPT ![frontBlock] =
                        [data[frontBlock] EXCEPT ![front[frontBlock]] = 0]]
      BY <1>7 DEF ReadElement
    <3> QED
      BY <2>1, <3>2, <3>3, <3>4
  <2>4. cpc' \in {"idle", "advanceFront"}
    BY <1>7 DEF ReadElement
  <2>5. TypeOK'
    BY <1>7, <2>2, <2>3, <2>4 DEF ReadElement, TypeOK
  <2>6. Linked' = Linked
    BY <1>7 DEF ReadElement, Linked
  <2>7. Shape'
    BY <1>7, <2>4, <2>6 DEF ReadElement, Shape
  <2> QED
    BY <2>5, <2>7
<1>8. CASE ReadNext
  <2>1. cblock \in Block /\ front[cblock] \in Slot
    BY <1>0, <1>8 DEF ReadNext, TypeOK, Shape
  <2>2. got' \in 0..MaxElements
    BY <1>8, <2>1 DEF ReadNext, TypeOK
  <2>3. TypeOK'
    BY <1>8, <2>2 DEF ReadNext, TypeOK
  <2>4. Linked' = Linked
    BY <1>8 DEF ReadNext, Linked
  <2>5. Shape'
    BY <1>8, <2>4 DEF ReadNext, Shape
  <2> QED
    BY <2>3, <2>5
<1>9. CASE AdvanceFront
  <2>1. /\ Succ(frontBlock, front[frontBlock]) \in Slot
        /\ Succ(frontBlock, front[frontBlock]) < size[frontBlock]
    BY <1>0, BlockFacts, SuccInBlock
  <2>2. TypeOK'
    BY <1>9, <2>1 DEF AdvanceFront, TypeOK
  <2>3. Linked' = Linked
    BY <1>9 DEF AdvanceFront, Linked
  <2>4. \A b \in Block : front'[b] = IF b = frontBlock
                                        THEN Succ(b, front[b]) ELSE front[b]
    BY <1>9 DEF AdvanceFront, TypeOK
  <2>5. Shape'
    BY <1>0, <1>9, <2>1, <2>3, <2>4 DEF AdvanceFront, Shape
  <2> QED
    BY <2>2, <2>5
<1> QED
  BY <1>1, <1>2, <1>3, <1>4, <1>5, <1>6, <1>7, <1>8, <1>9
     DEF TryDequeue, Pop, Peek, InnerDequeue, LoadTail, ReloadTail

LEMMA ShapeSizing ==
  ASSUME TypeOK, Shape, NEW t \in Threads,
         SizeApprox(t) \/ CountBlock(t) \/ StepBlock(t)
  PROVE  TypeOK' /\ Shape'
<1> DEFINE Walk == [from : Block \cup {Null}, at : Block \cup {Null},
                    sum : Nat, before : Int]
<1>1. /\ UNCHANGED <<frontBlock, tailBlock, blockVars, prodVars, consVars>>
      /\ Linked' = Linked
  BY DEF SizeApprox, CountBlock, StepBlock, prodVars, blockVars, Linked
<1>2. walk[t] \in Walk /\ walk \in [Threads -> Walk]
  BY DEF TypeOK
<1>3. /\ walk' \in [Threads -> Walk]
      /\ spc' \in [Threads -> {"off", "count", "step"}]
      /\ \A u \in Threads : spc'[u] # "off" => walk'[u].at \in Linked
  <2>1. CASE SizeApprox(t)
    <3>1. QueueSize \in Int
      BY DEF QueueSize, TypeOK
    <3>2. frontBlock \in Block /\ frontBlock \in Linked
      BY Basics
    <3> QED
      BY <1>2, <2>1, <3>1, <3>2 DEF SizeApprox, TypeOK, Shape
  <2>2. CASE CountBlock(t)
    <3>1. walk[t].at \in Linked /\ walk[t].at \in 1..blocks
      BY <2>2, Basics DEF CountBlock, Shape
    <3>2. Count(walk[t].at) \in Nat
      BY <3>1, BlockFacts DEF Count, Dist
    <3> DEFINE n == Count(walk[t].at)
    <3>3. walk' = [walk EXCEPT ![t].sum = @ + n]
      BY <2>2 DEF CountBlock
    <3>4. n \in Nat
      BY <3>2
    <3> HIDE DEF n
    <3>5. /\ walk' \in [Threads -> Walk]
          /\ \A u \in Threads : walk'[u].at = walk[u].at
      BY <1>2, <3>3, <3>4
    <3>6. /\ spc' \in [Threads -> {"off", "count", "step"}]
          /\ \A u \in Threads : spc'[u] # "off" => spc[u] # "off"
      BY <2>2 DEF CountBlock, TypeOK
    <3> QED
      BY <3>5, <3>6 DEF Shape
  <2>3. CASE StepBlock(t)
    <3>1. next[walk[t].at] \in Linked /\ next[walk[t].at] \in Block
      BY <2>3, Basics DEF StepBlock, Shape
    <3>2. CASE next[walk[t].at] = walk[t].from
      <4>1. /\ walk' = [walk EXCEPT ![t] = NoWalk]
            /\ spc' = [spc EXCEPT ![t] = "off"]
        BY <2>3, <3>2 DEF StepBlock
      <4>2. NoWalk \in Walk
        BY DEF NoWalk
      <4> QED
        BY <1>2, <4>1, <4>2 DEF TypeOK, Shape
    <3>3. CASE next[walk[t].at] # walk[t].from
      <4>1. /\ walk' = [walk EXCEPT ![t].at = next[walk[t].at]]
            /\ spc' = [spc EXCEPT ![t] = "count"]
        BY <2>3, <3>3 DEF StepBlock
      <4> QED
        BY <1>2, <3>1, <4>1 DEF TypeOK, Shape
    <3> QED
      BY <3>2, <3>3
  <2> QED
    BY <2>1, <2>2, <2>3
<1>4. TypeOK'
  BY <1>1, <1>3 DEF TypeOK, blockVars, prodVars, consVars
<1>5. Shape'
  BY <1>1, <1>3 DEF Shape, blockVars, prodVars, consVars
<1> QED
  BY <1>4, <1>5

LEMMA ShapeStep == TypeOK /\ Shape /\ [Next]_vars => TypeOK' /\ Shape'
<1> SUFFICES ASSUME TypeOK, Shape, [Next]_vars PROVE TypeOK' /\ Shape'
  OBVIOUS
<1>1. CASE Next
  BY <1>1, ShapeEnqueue, ShapeDequeue, ShapeSizing DEF Next, Sizing
<1>2. CASE UNCHANGED vars
  <2>1. Linked' = Linked
    BY <1>2 DEF vars, blockVars, prodVars, Linked
  <2> QED
    BY <1>2, <2>1 DEF vars, blockVars, prodVars, consVars, sizeVars, TypeOK,
                      Shape
<1> QED
  BY <1>1, <1>2

\* Every variable keeps its type, and every position and pointer of the queue
\* stays inside the blocks it belongs to.
THEOREM TypeCorrect == Spec => []TypeOK
<1>1. Init => TypeOK /\ Shape
  BY ShapeInit
<1>2. TypeOK /\ Shape /\ [Next]_vars => (TypeOK /\ Shape)'
  BY ShapeStep
<1> QED
  BY <1>1, <1>2, PTL DEF Spec

-----------------------------------------------------------------------------
(* Layer 2: Ring *)

LEMMA RingInit == Init => Ring
<1> SUFFICES ASSUME Init PROVE Ring
  OBVIOUS
<1>1. TypeOK /\ Shape
  BY ShapeInit
<1>2. blocks = InitialBlockCount /\ Linked = 1..InitialBlockCount
  BY DEF Init, Linked
<1>3. InitialBlockCount \in 1..MaxBlocks /\ MaxBlocks \in Nat
  BY ConstructorAssumption DEF ConstructorAssumption
<1>4. \A b \in Block : front[b] = 0 /\ tail[b] = 0 /\ localFront[b] = 0
                         /\ localTail[b] = 0
  BY DEF Init
<1>5. Positions
  BY <1>1, <1>2, <1>4, Basics DEF Init, Positions, Ordered, Dist
<1>6. \A b \in 1..InitialBlockCount :
        next[b] = IF b < InitialBlockCount THEN b + 1 ELSE 1
  BY <1>3 DEF Init, Block
<1>7. Circle
  <2>1. \A b \in Block : Empty(b)
    BY <1>4 DEF Empty
  <2>2. LastBlock = 1 /\ frontBlock = 1
    BY DEF Init, LastBlock
  <2>3. \A b, c \in Linked : next[b] = next[c] => b = c
    BY <1>2, <1>3, <1>6
  <2>4. \A b \in Linked : next[b] \in Block
    BY <1>1, Basics DEF Shape
  <2>5. \A b \in Linked : Free(next[b]) \/ next[b] = frontBlock
    BY <2>1, <2>4 DEF Free
  <2>6. \A b \in Linked : ~Free(b) => b = LastBlock
    BY <1>1, <2>1, <2>2, Basics DEF Free
  <2> QED
    BY <2>2, <2>3, <2>5, <2>6 DEF Circle, Free
<1>8. ProducerAt /\ ConsumerAt
  BY DEF Init, ProducerAt, ConsumerAt
<1> QED
  BY <1>5, <1>7, <1>8 DEF Ring

\* The steps of the producer that change neither the blocks nor their bounds.
LEMMA RingLocalProducer ==
  ASSUME TypeOK, Shape, Ring,
         \/ Enqueue \/ TryEnqueue \/ LoadFront \/ Construct \/ CheckNext
         \/ LoadNext \/ ConstructNext \/ MallocFails
  PROVE  Ring'
<1> USE DEF blockVars, prodVars, consVars, sizeVars
<1>1. /\ UNCHANGED <<frontBlock, tailBlock, front, tail, localTail, next, size,
                     blocks, cpc, cblock>>
      /\ ppc \notin {"advance", "link"} /\ ppc' \notin {"advance", "link"}
  BY DEF Enqueue, TryEnqueue, BeginEnqueue, LoadFront, Construct, CheckNext,
         LoadNext, ConstructNext, MallocFails
<1>2. Linked' = Linked /\ LastBlock = tailBlock /\ LastBlock' = LastBlock
  BY <1>1 DEF Linked, LastBlock
<1>3. \A b : Empty(b)' = Empty(b) /\ Free(b)' = Free(b)
  BY <1>1 DEF Empty, Free
<1>4. Circle'
  BY <1>1, <1>2, <1>3 DEF Circle, Ring
<1>5. ConsumerAt'
  BY <1>1, <1>3 DEF ConsumerAt, Ring
<1>6. \A b \in 1..blocks : localFront'[b] \in {localFront[b], front[b]}
  BY Basics, ZenonT(20) DEF Enqueue, TryEnqueue, BeginEnqueue, LoadFront, Construct,
                CheckNext, LoadNext, ConstructNext, MallocFails, TypeOK
<1>7. ASSUME NEW b \in 1..blocks PROVE Ordered(b)'
  BY <1>1, <1>6, BlockFacts DEF Ring, Positions, Ordered, Dist
<1>8. tailBlock \in Block
  BY DEF TypeOK
<1>9. ppc' \in {"construct", "publish"}
        => Succ(tailBlock, tail[tailBlock])' # localFront'[tailBlock]
  BY <1>1, <1>8 DEF Enqueue, TryEnqueue, BeginEnqueue, LoadFront, Construct,
            CheckNext, LoadNext, ConstructNext, MallocFails, TypeOK, Succ, Ring,
            Positions
<1>10. Positions'
  BY <1>1, <1>7, <1>9 DEF Positions, Ring, Succ
<1>11. ppc' = "loadNext" => Free(next[tailBlock])
  BY <1>1, <1>2, Basics DEF Enqueue, TryEnqueue, BeginEnqueue, LoadFront,
         Construct, CheckNext, LoadNext, ConstructNext, MallocFails, Circle, Ring
<1>12. ppc' \in {"constructNext", "publishNext"}
         => /\ pblock' = next[tailBlock] /\ pblock' # tailBlock
            /\ Free(pblock')
            /\ localFront'[pblock'] = front[pblock']
  <2>1. CASE LoadNext
    <3>1. next[tailBlock] \in Block
      BY Basics DEF Shape
    <3> QED
      BY <1>2, <2>1, <3>1 DEF LoadNext, ProducerAt, Circle, Ring, TypeOK
  <2>2. CASE ConstructNext
    BY <2>2 DEF ConstructNext, ProducerAt, Ring
  <2> QED
    BY <2>1, <2>2 DEF Enqueue, TryEnqueue, BeginEnqueue, LoadFront, Construct,
         CheckNext, MallocFails
<1>13. ProducerAt'
  BY <1>1, <1>3, <1>11, <1>12 DEF ProducerAt, Free, Empty
<1> QED
  BY <1>4, <1>5, <1>10, <1>13 DEF Ring

\* The same for the consumer.
LEMMA RingLocalConsumer ==
  ASSUME TypeOK, Shape, Ring,
         \/ TryDequeue \/ Pop \/ Peek \/ LoadTail \/ CheckTailBlock
         \/ ReloadTail \/ FollowNext \/ LoadNextTail \/ ReadElement \/ ReadNext
  PROVE  Ring'
<1> USE DEF blockVars, prodVars, consVars, sizeVars, TryDequeue, Pop, Peek,
            BeginDequeue, LoadTail, ReloadTail, RefreshLocalTail,
            CheckTailBlock, FollowNext, LoadNextTail, ReadElement, ReadNext
<1>1. UNCHANGED <<frontBlock, tailBlock, front, tail, localFront, next, size,
                  blocks, ppc, pblock>>
  OBVIOUS
<1>2. Linked' = Linked /\ LastBlock' = LastBlock
  BY <1>1 DEF Linked, LastBlock
<1>3. \A b : Empty(b)' = Empty(b) /\ Free(b)' = Free(b)
  BY <1>1 DEF Empty, Free
<1>4. Circle'
  BY <1>1, <1>2, <1>3 DEF Circle, Ring
<1>5. ProducerAt'
  BY <1>1, <1>3 DEF ProducerAt, Ring, Count, Dist, Free, Empty
<1>6. \A b \in 1..blocks : localTail'[b] \in {localTail[b], tail[b]}
  BY Basics, ZenonT(20) DEF TypeOK
<1>7. ASSUME NEW b \in 1..blocks PROVE Ordered(b)'
  BY <1>1, <1>6, BlockFacts DEF Ring, Positions, Ordered, Dist
<1>8. frontBlock \in Block
  BY DEF TypeOK
<1>9. cpc' \in {"read", "advanceFront"}
         => front[frontBlock] # localTail'[frontBlock]
  BY <1>8 DEF Ring, Positions, TypeOK
<1>10. Positions'
  BY <1>1, <1>7, <1>9 DEF Positions, Ring, Succ
<1>11. cpc' \in {"reloadTail", "loadNext", "loadNextTail", "advanceFrontBlock",
                 "readNext"} => frontBlock # tailBlock
  BY DEF ConsumerAt, Ring
<1>12. cpc' \in {"loadNext", "loadNextTail", "advanceFrontBlock", "readNext"}
         => Empty(frontBlock)
  BY DEF ConsumerAt, Ring, Empty
<1>13. cpc' \in {"loadNextTail", "advanceFrontBlock", "readNext"}
         => cblock' = next[frontBlock]
  BY DEF ConsumerAt, Ring
<1>14. cpc' = "advanceFrontBlock" => front[cblock'] # localTail'[cblock']
  <2>1. SUFFICES ASSUME cpc' = "advanceFrontBlock"
                 PROVE  front[cblock'] # localTail'[cblock']
    OBVIOUS
  <2>2. LoadNextTail /\ cop # "peek" /\ cpc = "loadNextTail"
    BY <2>1
  <2>3. cblock \in Block /\ cblock = next[frontBlock] /\ cblock' = cblock
    BY <2>2, Basics DEF Shape, Ring, ConsumerAt
  <2>4. frontBlock # LastBlock /\ frontBlock \in Linked /\ ~Free(frontBlock)
    BY <2>2, Basics DEF Ring, ConsumerAt, ProducerAt, LastBlock, Free
  <2>5. front[cblock] # tail[cblock]
    BY <2>3, <2>4 DEF Ring, Circle, Empty
  <2>6. localTail'[cblock] = tail[cblock]
    BY <2>2, <2>3 DEF TypeOK
  <2> QED
    BY <2>3, <2>5, <2>6
<1>15. ConsumerAt'
  BY <1>1, <1>3, <1>11, <1>12, <1>13, <1>14 DEF ConsumerAt
<1> QED
  BY <1>4, <1>5, <1>10, <1>15 DEF Ring

\* Moving tail forward keeps the order as long as it does not reach the
\* producer's copy of front.
LEMMA TailForward ==
  ASSUME TypeOK, Shape, NEW b \in 1..blocks, Ordered(b),
         Succ(b, tail[b]) # localFront[b],
         tail'[b] = Succ(b, tail[b]), size'[b] = size[b],
         front'[b] = front[b], localFront'[b] = localFront[b],
         localTail'[b] = localTail[b]
  PROVE  /\ Ordered(b)'
         /\ front[b] # tail'[b]
         /\ Count(b)' = Count(b) + 1
<1> USE BlockFacts DEF Dist, Succ
<1>1. Dist(b, localFront[b], tail'[b]) = Dist(b, localFront[b], tail[b]) + 1
  OBVIOUS
<1>2. front[b] # tail'[b]
  BY DEF Ordered
<1>3. /\ Dist(b, front[b], tail'[b]) = Dist(b, front[b], tail[b]) + 1
      /\ localTail[b] # tail'[b]
  BY <1>2 DEF Ordered
<1>4. Dist(b, localTail[b], tail'[b]) = Dist(b, localTail[b], tail[b]) + 1
  BY <1>3
<1> HIDE DEF Succ
<1> QED
  BY <1>1, <1>2, <1>3, <1>4, SMTT(20) DEF Ordered, Count

LEMMA RingPublishTail ==
  ASSUME TypeOK, Shape, Ring, PublishTail
  PROVE  Ring'
<1> USE DEF blockVars, prodVars, consVars, sizeVars
<1>1. /\ UNCHANGED <<frontBlock, tailBlock, front, localFront, localTail, next,
                     size, blocks, cpc, cblock, pblock>>
      /\ ppc = "publish" /\ ppc' = "idle"
      /\ tailBlock \in 1..blocks /\ tailBlock \in Block
  BY Basics DEF PublishTail
<1>2. Linked' = Linked /\ LastBlock = tailBlock /\ LastBlock' = tailBlock
  BY <1>1 DEF Linked, LastBlock
<1>3. \A b \in Block : tail'[b] = IF b = tailBlock
                                     THEN Succ(b, tail[b]) ELSE tail[b]
  BY DEF PublishTail, TypeOK
<1>4. Ordered(tailBlock)' /\ front[tailBlock] # tail'[tailBlock]
  BY <1>1, <1>3, TailForward DEF Ring, Positions
<1>5. /\ ~Empty(tailBlock)'
      /\ \A b \in Block \ {tailBlock} : Empty(b)' = Empty(b)
      /\ \A b \in Block : Free(b)' = Free(b)
  BY <1>1, <1>2, <1>3, <1>4 DEF Empty, Free, Ring, Circle
<1>6. Positions'
  BY <1>1, <1>3, <1>4, Basics DEF Positions, Ring, Ordered, Dist
<1>7. Circle'
  BY <1>1, <1>2, <1>5, Basics DEF Circle, Ring, Shape
<1>8. ProducerAt'
  BY <1>1 DEF ProducerAt
<1>9. ConsumerAt'
  BY <1>1, <1>5, Basics DEF ConsumerAt, Ring
<1> QED
  BY <1>6, <1>7, <1>8, <1>9 DEF Ring

LEMMA RingPublishNext ==
  ASSUME TypeOK, Shape, Ring, PublishNext
  PROVE  Ring'
<1> USE DEF blockVars, prodVars, consVars, sizeVars
<1>1. /\ UNCHANGED <<frontBlock, tailBlock, front, localFront, localTail, next,
                     size, blocks, cpc, cblock, pblock>>
      /\ ppc = "publishNext" /\ ppc' = "advance"
  BY DEF PublishNext
<1>2. /\ Linked' = Linked /\ LastBlock = tailBlock /\ LastBlock' = pblock
      /\ pblock \in Linked /\ pblock \in 1..blocks /\ pblock \in Block
  BY <1>1, Basics DEF Linked, LastBlock, Shape
<1>3. /\ pblock = next[tailBlock] /\ pblock # tailBlock /\ Free(pblock)
      /\ localFront[pblock] = front[pblock] /\ front[pblock] = tail[pblock]
      /\ pblock # frontBlock
  BY <1>1 DEF Ring, ProducerAt, Free, Empty
<1>4. \A b \in Block : tail'[b] = IF b = pblock
                                     THEN Succ(b, tail[b]) ELSE tail[b]
  BY DEF PublishNext, TypeOK
<1>5. Succ(pblock, tail[pblock]) # localFront[pblock]
  BY <1>2, <1>3, BlockFacts DEF Succ
<1>6. /\ Ordered(pblock)' /\ front[pblock] # tail'[pblock]
      /\ Count(pblock)' = 1
  BY <1>1, <1>2, <1>3, <1>4, <1>5, TailForward, BlockFacts
     DEF Ring, Positions, Count, Dist
<1>7. /\ ~Empty(pblock)' /\ ~Free(pblock)'
      /\ \A b \in Block \ {pblock} : /\ Empty(b)' = Empty(b)
                                     /\ Free(b)' = Free(b)
  BY <1>1, <1>2, <1>4, <1>6 DEF Empty, Free
<1>8. Positions'
  BY <1>1, <1>4, <1>6, Basics DEF Positions, Ring, Ordered, Dist
<1>9. Circle'
  <2>1. \A b \in Linked : next[b] \in Linked /\ next[b] \in Block /\ b \in Block
    BY Basics DEF Shape
  <2>2. \A b \in Linked : next[b] = pblock => b = tailBlock
    BY <1>3, Basics DEF Ring, Circle
  <2>3. ~Free(tailBlock)
    BY <1>2 DEF Ring, Circle
  <2>4. ASSUME NEW b \in Linked, Free(b)' \/ b = pblock
        PROVE  Free(next[b])' \/ next[b] = frontBlock
    <3>1. Free(b)
      BY <1>1, <1>3, <1>4, <2>1, <2>4 DEF Free, Empty
    <3>2. next[b] # pblock
      BY <2>2, <2>3, <3>1
    <3>3. Free(next[b]) \/ next[b] = frontBlock
      BY <3>1 DEF Ring, Circle
    <3> QED
      BY <1>1, <1>4, <2>1, <3>2, <3>3 DEF Free, Empty
  <2>5. ASSUME NEW b \in Linked, ~Free(b)', b # pblock
        PROVE  ~Empty(next[b])' /\ next[b] # frontBlock
    <3>1. CASE b = tailBlock
      BY <1>1, <1>3, <1>6, <3>1 DEF Empty
    <3>2. CASE b # tailBlock
      <4>1. ~Free(b) /\ next[b] # pblock /\ b # LastBlock
        BY <1>2, <1>7, <2>1, <2>2, <2>5, <3>2
      <4>2. ~Empty(next[b]) /\ next[b] # frontBlock
        BY <4>1 DEF Ring, Circle
      <4> QED
        BY <1>1, <1>4, <2>1, <4>1, <4>2 DEF Empty
    <3> QED
      BY <3>1, <3>2
  <2> QED
    BY <1>1, <1>2, <1>7, <2>4, <2>5 DEF Circle, Ring
<1>10. ProducerAt'
  BY <1>1, <1>3, <1>6 DEF ProducerAt
<1>11. ConsumerAt'
  BY <1>1, <1>3, <1>7, Basics DEF ConsumerAt, Ring
<1> QED
  BY <1>8, <1>9, <1>10, <1>11 DEF Ring

LEMMA RingMakeBlock ==
  ASSUME TypeOK, Shape, Ring, MakeBlock
  PROVE  Ring'
<1> USE DEF blockVars, prodVars, consVars, sizeVars
<1>0. PICK new : new = blocks + 1
  OBVIOUS
<1>1. /\ UNCHANGED <<frontBlock, tailBlock, front, localFront, next, cpc,
                     cblock>>
      /\ ppc = "alloc" /\ ppc' = "link"
      /\ blocks' = new /\ pblock' = new
      /\ new \in Block /\ new \notin 1..blocks
      /\ 1..blocks' = 1..blocks \cup {new}
  <2>1. /\ UNCHANGED <<frontBlock, tailBlock, front, localFront, next, cpc,
                       cblock>>
        /\ ppc = "alloc" /\ ppc' = "link"
        /\ blocks' = new /\ pblock' = new /\ blocks < MaxBlocks
    BY <1>0 DEF MakeBlock
  <2>2. new \in 1..MaxBlocks /\ 1..new = 1..blocks \cup {new}
        /\ new \notin 1..blocks
    BY <1>0, <2>1, Basics
  <2>3. Block = 1..MaxBlocks
    BY Basics
  <2> QED
    BY <2>1, <2>2, <2>3
<1>2. Linked = 1..blocks /\ Linked' = Linked
  BY <1>0, <1>1, Basics DEF Linked
<1>3. \A b \in 1..blocks : /\ tail'[b] = tail[b]
                           /\ localTail'[b] = localTail[b]
                           /\ size'[b] = size[b]
  <2>1. \A b \in 1..blocks : b \in Block /\ b # blocks + 1
    BY Basics
  <2> QED
    BY <2>1 DEF MakeBlock, TypeOK
<1>4. /\ front'[new] = 0 /\ localFront'[new] = 0
      /\ tail'[new] = 1 /\ localTail'[new] = 1
  <2>1. ~(new <= blocks)
    BY <1>0, Basics
  <2>2. front[new] = 0 /\ localFront[new] = 0
    BY <1>1, <2>1 DEF Shape
  <2>3. tail'[new] = 1 /\ localTail'[new] = 1
    BY <1>0, <1>1 DEF MakeBlock, TypeOK
  <2> QED
    BY <1>1, <2>2, <2>3
<1>5. LastBlock = tailBlock /\ LastBlock' = tailBlock
  BY <1>1 DEF LastBlock
<1>6. Positions'
  <2>1. Ordered(new)'
    BY <1>1, <1>4 DEF Ordered, Dist
  <2>2. ASSUME NEW b \in 1..blocks PROVE Ordered(b)'
    BY <1>1, <1>3, Basics DEF Ordered, Dist, Ring, Positions
  <2>3. \A b \in 1..blocks' : Ordered(b)'
    BY <1>1, <2>1, <2>2
  <2>4. frontBlock \in 1..blocks
    BY Basics
  <2> QED
    BY <1>1, <1>3, <2>3, <2>4 DEF Positions, Ring
<1>7. \A b \in Linked : next[b] \in Linked /\ next'[b] = next[b]
                        /\ (Empty(b)' <=> Empty(b)) /\ (Free(b)' <=> Free(b))
  BY <1>1, <1>2, <1>3 DEF Shape, Empty, Free
<1>8. Circle'
  <2>1. tailBlock \in Linked /\ ~Free(tailBlock)
    BY <1>5, Basics DEF Ring, Circle
  <2>2. ~Free(LastBlock)'
    BY <1>1, <1>2, <1>3, <1>5, <2>1 DEF Free, Empty
  <2>3. \A b \in Linked :
          /\ (front[next[b]] = tail'[next[b]]) <=> Empty(next[b])
          /\ (front[b] = tail'[b]) <=> Empty(b)
    BY <1>2, <1>3, <1>7 DEF Empty
  <2> QED
    BY <1>1, <1>2, <1>5, <2>2, <2>3 DEF Circle, Ring, Free, Empty
<1>9. ProducerAt'
  BY <1>1, <1>4 DEF ProducerAt
<1>10. ConsumerAt'
  <2>1. frontBlock \in Linked
    BY Basics
  <2>2. cpc \in {"loadNextTail", "advanceFrontBlock", "readNext"}
          => cblock \in Linked
    BY DEF Shape
  <2> QED
    BY <1>1, <1>2, <1>3, <2>1, <2>2 DEF ConsumerAt, Ring, Empty
<1> QED
  BY <1>6, <1>8, <1>9, <1>10 DEF Ring

LEMMA RingLinkBlock ==
  ASSUME TypeOK, Shape, Ring, LinkBlock
  PROVE  Ring'
<1> USE DEF blockVars, prodVars, consVars, sizeVars
<1>1. /\ UNCHANGED <<frontBlock, tailBlock, front, tail, localFront, localTail,
                     size, blocks, cpc, cblock, pblock>>
      /\ ppc = "link" /\ ppc' = "advance" /\ pblock = blocks
  BY DEF LinkBlock, Shape
<1>2. /\ Linked = 1..(blocks - 1) /\ Linked' = 1..blocks
      /\ Linked' = Linked \cup {pblock}
      /\ pblock \notin Linked /\ pblock \in 1..blocks
      /\ frontBlock # pblock /\ tailBlock # pblock
      /\ LastBlock = tailBlock /\ LastBlock' = pblock
  BY <1>1, Basics DEF Linked, LastBlock
<1>3. /\ next'[pblock] = next[tailBlock]
      /\ next'[tailBlock] = pblock
      /\ \A b \in Linked \ {tailBlock} : next'[b] = next[b]
      /\ \A b \in Linked : next[b] \in Linked
  BY <1>2, Basics DEF LinkBlock, TypeOK, Shape
<1>4. front[pblock] = 0 /\ tail[pblock] = 1
  BY <1>1 DEF Ring, ProducerAt
<1>5. Positions'
  BY <1>1 DEF Positions, Ring, Ordered, Dist
<1>6. Circle'
  <2>1. ASSUME NEW b \in Linked', NEW c \in Linked', next'[b] = next'[c]
        PROVE  b = c
    <3>1. \A x \in Linked : next[x] # pblock
      BY <1>2, <1>3
    <3>2. \A x, y \in Linked : next[x] = next[y] => x = y
      BY DEF Ring, Circle
    <3>3. tailBlock \in Linked
      BY Basics
    <3> QED
      BY <1>2, <1>3, <2>1, <3>1, <3>2, <3>3
  <2>2. ~Free(LastBlock)'
    BY <1>1, <1>2, <1>4 DEF Free, Empty
  <2>3. /\ front[tailBlock] # tail[tailBlock] \/ tailBlock = frontBlock
        /\ Free(next[tailBlock]) \/ next[tailBlock] = frontBlock
    BY <1>2, Basics DEF Ring, Circle, Free, Empty
  <2>4. ASSUME NEW b \in Linked', Free(b) \/ b = pblock
        PROVE  Free(next'[b]) \/ next'[b] = frontBlock
    BY <1>2, <1>3, <1>4, <2>3, <2>4 DEF Ring, Circle, Free, Empty
  <2>5. ASSUME NEW b \in Linked', ~Free(b), b # pblock
        PROVE  ~Empty(next'[b]) /\ next'[b] # frontBlock
    BY <1>2, <1>3, <1>4, <2>5 DEF Ring, Circle, Empty
  <2> QED
    BY <1>1, <1>2, <2>1, <2>2, <2>4, <2>5 DEF Circle, Free, Empty
<1>7. ProducerAt'
  BY <1>1, <1>2, <1>3, <1>4 DEF ProducerAt, Count, Dist
<1>8. ConsumerAt'
  BY <1>1, <1>2, <1>3, Basics DEF ConsumerAt, Ring, Empty
<1> QED
  BY <1>5, <1>6, <1>7, <1>8 DEF Ring

LEMMA RingAdvanceTailBlock ==
  ASSUME TypeOK, Shape, Ring, AdvanceTailBlock
  PROVE  Ring'
<1> USE DEF blockVars, prodVars, consVars, sizeVars
<1>1. /\ UNCHANGED <<frontBlock, front, tail, localFront, localTail, next,
                     size, blocks, cpc, cblock>>
      /\ ppc = "advance" /\ ppc' = "idle" /\ tailBlock' = pblock
      /\ pblock # frontBlock
  BY DEF AdvanceTailBlock, Ring, ProducerAt
<1>2. Linked' = Linked /\ LastBlock' = LastBlock
  BY <1>1 DEF Linked, LastBlock
<1>3. Positions'
  BY <1>1 DEF Positions, Ring, Ordered, Dist
<1>4. Circle'
  BY <1>1, <1>2 DEF Circle, Ring, Free, Empty
<1>5. ProducerAt' /\ ConsumerAt'
  BY <1>1 DEF ProducerAt, ConsumerAt, Ring, Empty
<1> QED
  BY <1>3, <1>4, <1>5 DEF Ring

\* The consumer leaves an empty block for one that is not: the first becomes
\* free, and the order of the circle is the same from the next block on.
LEMMA RingAdvanceFrontBlock ==
  ASSUME TypeOK, Shape, Ring, AdvanceFrontBlock
  PROVE  Ring'
<1> USE DEF blockVars, prodVars, consVars, sizeVars
<1>1. /\ UNCHANGED <<tailBlock, front, tail, localFront, localTail, next, size,
                     blocks, ppc, pblock>>
      /\ cpc = "advanceFrontBlock" /\ cpc' = "read"
      /\ frontBlock' = cblock /\ cblock = next[frontBlock]
      /\ frontBlock # tailBlock /\ Empty(frontBlock)
      /\ front[cblock] # localTail[cblock]
  BY DEF AdvanceFrontBlock, Ring, ConsumerAt
<1>2. Linked' = Linked /\ LastBlock' = LastBlock
  BY <1>1 DEF Linked, LastBlock
<1>3. frontBlock # LastBlock
  BY <1>1 DEF Ring, ProducerAt, LastBlock
<1>4. ~Empty(cblock) /\ cblock # frontBlock
  BY <1>1, <1>3, Basics DEF Ring, Circle, Free
<1>5. \A b \in Linked : next[b] = cblock => b = frontBlock
  BY <1>1, Basics DEF Ring, Circle
<1>6. \A b : Free(b)' <=> Free(b) \/ b = frontBlock
  BY <1>1, <1>4 DEF Free, Empty
<1>7. Positions'
  BY <1>1 DEF Positions, Ring, Ordered, Dist, Succ
<1>8. Circle'
  <2>1. ASSUME NEW b \in Linked, Free(b)' \/ b = LastBlock
        PROVE  Free(next[b]) \/ next[b] = frontBlock \/ next[b] = cblock
    BY <1>1, <1>6, <2>1 DEF Ring, Circle
  <2>2. ASSUME NEW b \in Linked, ~Free(b)', b # LastBlock
        PROVE  ~Empty(next[b]) /\ next[b] # cblock
    BY <1>5, <1>6, <2>2 DEF Ring, Circle
  <2>3. ~Free(LastBlock)'
    BY <1>1, <1>2, <1>3 DEF Ring, Circle, Free, Empty
  <2> QED
    BY <1>1, <1>2, <1>4, <2>1, <2>2, <2>3 DEF Circle, Ring, Free, Empty
<1>9. ProducerAt'
  <2>1. next[tailBlock] # cblock
    BY <1>1, <1>5, Basics
  <2> QED
    BY <1>1, <2>1, Basics DEF ProducerAt, Ring, Free, Empty, Count, Dist
<1>10. ConsumerAt'
  BY <1>1 DEF ConsumerAt
<1> QED
  BY <1>7, <1>8, <1>9, <1>10 DEF Ring

\* Moving front forward keeps the order as long as it does not pass the
\* consumer's copy of tail.
LEMMA FrontForward ==
  ASSUME TypeOK, Shape, NEW b \in 1..blocks, Ordered(b),
         front[b] # localTail[b],
         front'[b] = Succ(b, front[b]), size'[b] = size[b],
         tail'[b] = tail[b], localFront'[b] = localFront[b],
         localTail'[b] = localTail[b]
  PROVE  /\ Ordered(b)'
         /\ front[b] # tail[b]
         /\ Count(b)' = Count(b) - 1
<1> USE BlockFacts DEF Dist, Succ
<1>1. Dist(b, front'[b], localTail[b]) = Dist(b, front[b], localTail[b]) - 1
  OBVIOUS
<1>2. front[b] # tail[b]
  BY DEF Ordered
<1>3. Dist(b, front'[b], tail[b]) = Dist(b, front[b], tail[b]) - 1
  BY <1>2
<1>4. Dist(b, localFront[b], front'[b])
        = Dist(b, localFront[b], front[b]) + 1
  BY <1>2 DEF Ordered
<1> HIDE DEF Succ
<1> QED
  BY <1>1, <1>2, <1>3, <1>4 DEF Ordered, Count

LEMMA RingAdvanceFront ==
  ASSUME TypeOK, Shape, Ring, AdvanceFront
  PROVE  Ring'
<1> USE DEF blockVars, prodVars, consVars, sizeVars
<1>1. /\ UNCHANGED <<frontBlock, tailBlock, tail, localFront, localTail, next,
                     size, blocks, ppc, pblock>>
      /\ cpc = "advanceFront" /\ cpc' = "idle"
      /\ frontBlock \in Linked /\ frontBlock \in 1..blocks
      /\ frontBlock \in Block
  BY Basics DEF AdvanceFront
<1>2. Linked' = Linked /\ LastBlock' = LastBlock
  BY <1>1 DEF Linked, LastBlock
<1>3. \A b \in Block : front'[b] = IF b = frontBlock
                                      THEN Succ(b, front[b]) ELSE front[b]
  BY DEF AdvanceFront, TypeOK
<1>4. Ordered(frontBlock)'
  BY <1>1, <1>3, FrontForward DEF Ring, Positions
<1>5. Positions'
  BY <1>1, <1>3, <1>4, Basics DEF Positions, Ring, Ordered, Dist, Succ
<1>6. Circle'
  <2>1. \A b \in Linked : b \in Block /\ next[b] \in Linked /\ next[b] \in Block
    BY Basics DEF Shape
  <2>2. LastBlock \in Block /\ ~Free(LastBlock)
    BY Basics DEF Ring, Circle, LastBlock, Shape
  <2> QED
    BY <1>1, <1>2, <1>3, <2>1, <2>2 DEF Circle, Ring, Free, Empty
<1>7. ProducerAt'
  <2>1. next[tailBlock] \in Block
    BY Basics DEF Shape
  <2>2. ppc \in {"constructNext", "publishNext", "advance", "link"}
          => pblock \in Block
    BY Basics DEF Shape
  <2>3. ppc = "link" => pblock # frontBlock
    BY <1>1, Basics DEF Shape, Linked
  <2> QED
    BY <1>1, <1>3, <2>1, <2>2, <2>3
       DEF ProducerAt, Ring, Free, Empty, Count, Dist
<1>8. ConsumerAt'
  BY <1>1 DEF ConsumerAt
<1> QED
  BY <1>5, <1>6, <1>7, <1>8 DEF Ring

LEMMA RingStep == TypeOK /\ Shape /\ Ring /\ [Next]_vars => Ring'
<1> SUFFICES ASSUME TypeOK, Shape, Ring, [Next]_vars PROVE Ring'
  OBVIOUS
<1>1. CASE Enqueue \/ TryEnqueue \/ InnerEnqueue
  BY <1>1, RingLocalProducer, RingPublishTail, RingPublishNext, RingMakeBlock,
     RingLinkBlock, RingAdvanceTailBlock DEF InnerEnqueue
<1>2. CASE TryDequeue \/ Pop \/ Peek \/ InnerDequeue
  BY <1>2, RingLocalConsumer, RingAdvanceFrontBlock, RingAdvanceFront
     DEF InnerDequeue
<1>3. CASE Sizing \/ UNCHANGED vars
  <2>1. UNCHANGED <<frontBlock, tailBlock, blockVars, prodVars, consVars>>
    BY <1>3 DEF Sizing, SizeApprox, CountBlock, StepBlock, vars
  <2>2. Linked' = Linked /\ LastBlock' = LastBlock
    BY <2>1 DEF blockVars, prodVars, Linked, LastBlock
  <2> QED
    BY <2>1, <2>2 DEF blockVars, prodVars, consVars, Ring, Positions, Circle,
      ProducerAt, ConsumerAt, Ordered, Dist, Count, Succ, Free, Empty
<1> QED
  BY <1>1, <1>2, <1>3 DEF Next

\* The positions of every block and the blocks of the circle stay in order.
THEOREM RingCorrect == Spec => [](TypeOK /\ Shape /\ Ring)
<1>1. Init => TypeOK /\ Shape /\ Ring
  BY ShapeInit, RingInit
<1>2. TypeOK /\ Shape /\ Ring /\ [Next]_vars => (TypeOK /\ Shape /\ Ring)'
  BY ShapeStep, RingStep
<1> QED
  BY <1>1, <1>2, PTL DEF Spec

\* The assertions of the source never fail: the block the producer moves on to
\* is always empty, the one the consumer moves on to never is.
THEOREM AssertionsCorrect == Spec => []AssertionsHold
<1>1. TypeOK /\ Shape /\ Ring => AssertionsHold
  <2> SUFFICES ASSUME TypeOK, Shape, Ring PROVE AssertionsHold
    OBVIOUS
  <2>1. ppc = "constructNext" => localFront[pblock] = tail[pblock]
    BY DEF Ring, ProducerAt, Free, Empty
  <2>2. cpc = "advanceFrontBlock" => front[cblock] # localTail[cblock]
    BY DEF Ring, ConsumerAt
  <2>3. ASSUME cpc = "readNext" PROVE front[cblock] # tail[cblock]
    <3>1. frontBlock # LastBlock /\ ~Free(frontBlock)
          /\ cblock = next[frontBlock]
      BY <2>3 DEF Ring, ConsumerAt, ProducerAt, LastBlock, Free
    <3> QED
      BY <3>1, Basics DEF Ring, Circle, Empty
  <2> QED
    BY <2>1, <2>2, <2>3 DEF AssertionsHold
<1> QED
  BY <1>1, RingCorrect, PTL

\* The producer and the consumer are never at the same slot: no element is
\* read, or destroyed, while it is being constructed.
THEOREM NoSlotRaceCorrect == Spec => []NoSlotRace
<1>1. TypeOK /\ Shape /\ Ring => NoSlotRace
  <2> SUFFICES ASSUME TypeOK, Shape, Ring PROVE NoSlotRace
    OBVIOUS
  <2>1. cpc = "read" => ~Empty(frontBlock)
    <3>1. frontBlock \in 1..blocks
      BY Basics
    <3>2. Ordered(frontBlock)
      BY <3>1 DEF Ring, Positions
    <3>3. cpc = "read" => front[frontBlock] # localTail[frontBlock]
      BY DEF Ring, Positions
    <3> QED
      BY <3>1, <3>2, <3>3, BlockFacts DEF Ordered, Dist, Empty
  <2>2. cpc = "readNext" => ~Empty(cblock)
    <3>1. cpc = "readNext" => /\ frontBlock # LastBlock /\ ~Free(frontBlock)
                              /\ cblock = next[frontBlock]
      BY DEF Ring, ConsumerAt, ProducerAt, LastBlock, Free
    <3> QED
      BY <3>1, Basics DEF Ring, Circle
  <2>3. ppc = "constructNext" => Empty(pblock) /\ pblock # frontBlock
    BY DEF Ring, ProducerAt, Free
  <2> QED
    BY <2>1, <2>2, <2>3 DEF NoSlotRace, Empty
<1> QED
  BY <1>1, RingCorrect, PTL
-----------------------------------------------------------------------------
(***************************************************************************)
(* What lies in the slots of the queue: the third layer of the invariant.  *)
(* The elements of a block are numbered without a gap, each block of the   *)
(* queue goes on where the one before it ends, and every other slot is raw *)
(* storage.                                                                *)
(***************************************************************************)

-----------------------------------------------------------------------------
(* Layer 3: the elements in the slots *)

Occupied(b, i) == i < size[b] /\ Dist(b, front[b], i) < Count(b)

\* The slot that holds the element of the enqueue in progress.
Pending(b, i) ==
    \/ ppc = "publish" /\ b = tailBlock /\ i = tail[b]
    \/ ppc = "publishNext" /\ b = pblock /\ i = tail[b]
    \/ ppc \in {"advance", "link"} /\ b = pblock /\ i = front[b]

\* The slot whose element the consumer has destroyed but not given back.
Destroying(b, i) == cpc = "advanceFront" /\ b = frontBlock /\ i = front[b]

\* The number of the oldest element of block b, if it has one.
Oldest(b) == IF b = frontBlock THEN dequeued + 1 ELSE data[b][front[b]]

\* The elements of a block are consecutive, the blocks follow each other, and
\* the last element is the last one accepted (or about to be).
Filled ==
    /\ \A b \in 1..blocks : \A i \in Slot :
         Occupied(b, i) /\ ~Destroying(b, i)
           => data[b][i] = Oldest(b) + Dist(b, front[b], i)
    /\ \A b \in Linked : ~Free(b) /\ b # LastBlock
         => Oldest(next[b]) = Oldest(b) + Count(b)
    /\ Oldest(LastBlock) + Count(LastBlock)
         = enqueued + 1 + (IF ppc = "advance" THEN 1 ELSE 0)

\* Only the element of the enqueue in progress is newer than those accepted.
Numbers ==
    /\ dequeued <= enqueued
    /\ \A b \in Block : \A i \in Slot :
         IF Pending(b, i) THEN data[b][i] = Element ELSE data[b][i] <= enqueued

\* A slot that holds no element, nor one to be, is raw storage.
RawStorage ==
    \A b \in Block : \A i \in Slot :
      data[b][i] # 0 =>
        /\ b <= blocks /\ ~Destroying(b, i)
        /\ Occupied(b, i) \/ Pending(b, i)

Cells == Filled /\ Numbers /\ RawStorage

\* What the consumer knows of the queue: what it took out, that there is an
\* element if there was one as its call began, and where.
Request ==
    /\ cpc = "advanceFront" => got = dequeued + 1 /\ dequeued < enqueued
    /\ cpc # "idle" /\ ~wasEmpty => dequeued < enqueued
    /\ cpc = "checkTailBlock" /\ ~wasEmpty => frontBlock # tailBlock
    /\ cpc \notin {"idle", "advanceFront"} => got = 0

\* The whole invariant: what every action preserves.
IInv == TypeOK /\ Shape /\ Ring /\ Cells /\ Request

-----------------------------------------------------------------------------
(* The producer's steps *)

\* The initial states: one empty front block and free ones behind it.
LEMMA CellsInit == Init => Cells /\ Request
<1> SUFFICES ASSUME Init PROVE Cells /\ Request
  OBVIOUS
<1>1. TypeOK /\ Shape
  BY ShapeInit
<1>2. /\ \A b \in Block : front[b] = 0 /\ tail[b] = 0
      /\ \A b \in Block : \A i \in Slot : data[b][i] = 0
      /\ frontBlock = 1 /\ LastBlock = 1 /\ 1 \in Block
      /\ enqueued = 0 /\ dequeued = 0 /\ ppc = "idle" /\ cpc = "idle"
  BY <1>1, Basics DEF Init, LastBlock
<1>3. \A b \in Block : Count(b) = 0
  BY <1>2 DEF Count, Dist
<1>4. \A b \in 1..blocks : \A i \in Slot : ~Occupied(b, i)
  <2> SUFFICES ASSUME NEW b \in 1..blocks, NEW i \in Slot, Occupied(b, i) PROVE FALSE
    OBVIOUS
  <2>1. b \in Block /\ front[b] = 0 /\ Count(b) = 0 /\ i \in Nat
    BY <1>1, <1>2, <1>3, Basics
  <2> QED
    BY <2>1 DEF Occupied, Dist
<1>5. Filled
  BY <1>1, <1>2, <1>3, <1>4, Basics DEF Filled, Free, Empty, Oldest
<1>6. Numbers
  BY <1>2 DEF Numbers, Pending
<1>7. RawStorage
  BY <1>2 DEF RawStorage
<1>8. Request
  BY <1>2 DEF Request
<1> QED
  BY <1>5, <1>6, <1>7, <1>8 DEF Cells

\* A step that moves neither an element nor a bound of the queue.
LEMMA CellsKept ==
  ASSUME Cells,
         UNCHANGED <<frontBlock, tailBlock, front, tail, next, size, data, blocks,
                     enqueued, dequeued>>,
         \/ ppc' = ppc /\ pblock' = pblock
         \/ {ppc, ppc'} \cap {"publish", "publishNext", "advance", "link"} = {},
         \/ cpc' = cpc
         \/ cpc # "advanceFront" /\ cpc' # "advanceFront"
  PROVE  Cells'
<1>1. Linked' = Linked /\ LastBlock' = LastBlock /\ (ppc' = "advance" <=> ppc = "advance")
  BY DEF Linked, LastBlock
<1>2. \A b, i : /\ Pending(b, i)' <=> Pending(b, i)
                /\ Destroying(b, i)' <=> Destroying(b, i)
                /\ Occupied(b, i)' <=> Occupied(b, i)
  BY ZenonT(20) DEF Pending, Destroying, Occupied, Dist, Count
<1>3. \A b : Oldest(b)' = Oldest(b) /\ Count(b)' = Count(b) /\ (Free(b)' <=> Free(b))
  BY DEF Oldest, Count, Dist, Free, Empty
<1>4. \A b, i : Dist(b, front[b], i)' = Dist(b, front[b], i)
  BY DEF Dist
<1>5. Filled'
  BY <1>1, <1>2, <1>3, <1>4 DEF Cells, Filled
<1>6. Numbers' /\ RawStorage'
  BY <1>2 DEF Cells, Numbers, RawStorage, Element
<1> QED
  BY <1>5, <1>6 DEF Cells

\* The steps of an enqueue between the constructions and the stores.
LEMMA CellsLocalProducer ==
  ASSUME Cells, Request,
         \/ Enqueue \/ TryEnqueue \/ LoadFront \/ CheckNext \/ LoadNext \/ MallocFails
  PROVE  Cells' /\ Request'
<1> USE DEF blockVars, prodVars, consVars, sizeVars
<1>1. /\ UNCHANGED <<frontBlock, tailBlock, front, tail, next, size, data, blocks,
                     enqueued, dequeued, cpc, got, wasEmpty>>
      /\ {ppc, ppc'} \cap {"publish", "publishNext", "advance", "link"} = {}
  BY DEF Enqueue, TryEnqueue, BeginEnqueue, LoadFront, CheckNext, LoadNext, MallocFails
<1>2. Request'
  BY <1>1 DEF Request
<1> QED
  BY <1>1, <1>2, CellsKept

\* An empty slot is not occupied, and a block that is not free has its oldest
\* element in another.
LEMMA TailSlot ==
  ASSUME TypeOK, Shape, NEW b \in 1..blocks
  PROVE  /\ ~Occupied(b, tail[b])
         /\ tail[b] \in Slot /\ front[b] \in Slot
         /\ Count(b) \in Nat /\ Count(b) < size[b]
         /\ Count(b) = 0 <=> Empty(b)
         /\ \A i \in Nat : i < size[b] =>
              Dist(b, front[b], i) \in Nat /\ (Dist(b, front[b], i) = 0 <=> i = front[b])
         /\ \A i \in Slot : i < size[b] /\ Dist(b, front[b], i) = Count(b) => i = tail[b]
<1> USE BlockFacts
<1>1. b \in Block
  BY Basics
<1>2. tail[b] \in Slot /\ front[b] \in Slot
  BY <1>1 DEF TypeOK
<1>3. Count(b) \in Nat /\ Count(b) < size[b] /\ (Count(b) = 0 <=> Empty(b))
  BY DEF Count, Dist, Empty
<1>4. \A i \in Nat : i < size[b] =>
        Dist(b, front[b], i) \in Nat /\ (Dist(b, front[b], i) = 0 <=> i = front[b])
  BY DEF Dist
<1>5. ASSUME NEW i \in Slot, i < size[b], Dist(b, front[b], i) = Count(b)
      PROVE  i = tail[b]
  <2>1. i \in Nat
    BY Basics
  <2> QED
    BY <1>5, <2>1 DEF Count, Dist
<1>6. ~Occupied(b, tail[b])
  BY <1>3 DEF Occupied, Count
<1> QED
  BY <1>2, <1>3, <1>4, <1>5, <1>6

\* The consumer is at an element of the front block.
LEMMA DestroyedSlot ==
  ASSUME TypeOK, Shape, Ring, cpc \in {"read", "advanceFront"}
  PROVE  ~Empty(frontBlock) /\ frontBlock \in 1..blocks
<1>1. frontBlock \in 1..blocks /\ Ordered(frontBlock)
  BY Basics DEF Ring, Positions
<1>2. front[frontBlock] # localTail[frontBlock]
  BY DEF Ring, Positions
<1> QED
  BY <1>1, <1>2, BlockFacts DEF Ordered, Dist, Empty

\* Constructing an element in the tail block, or in the free block after it: the
\* slot holds nothing yet.
LEMMA CellsConstruct ==
  ASSUME TypeOK, Shape, Ring, Cells, Request, Construct \/ ConstructNext
  PROVE  Cells' /\ Request'
<1> USE DEF blockVars, prodVars, consVars, sizeVars
<1> DEFINE b0 == IF ppc = "construct" THEN tailBlock ELSE pblock
           i0 == tail[b0]
<1>1. /\ UNCHANGED <<frontBlock, tailBlock, front, tail, next, size, blocks, enqueued,
                     dequeued, pblock, cpc, got, wasEmpty>>
      /\ data' = [data EXCEPT ![b0][i0] = Element]
      /\ \/ ppc = "construct" /\ ppc' = "publish"
         \/ ppc = "constructNext" /\ ppc' = "publishNext"
  BY DEF Construct, ConstructNext
<1>2. b0 \in Linked /\ b0 \in 1..blocks /\ b0 \in Block
  BY <1>1, Basics DEF Shape
<1>3. ppc = "constructNext" => Free(b0) /\ b0 = next[tailBlock] /\ b0 # tailBlock
  BY <1>1 DEF Ring, ProducerAt
<1>4. LastBlock = tailBlock /\ LastBlock' = LastBlock /\ Linked' = Linked
  BY <1>1 DEF LastBlock, Linked
<1> HIDE DEF b0
<1>5. i0 \in Slot /\ ~Occupied(b0, i0)
  BY <1>2, TailSlot
<1>6. \A b \in Block : \A i \in Slot :
        data'[b][i] = IF b = b0 /\ i = i0 THEN Element ELSE data[b][i]
  BY <1>1, <1>2, <1>5 DEF TypeOK
<1>7. \A b, i : (Pending(b, i)' <=> b = b0 /\ i = i0) /\ ~Pending(b, i)
  BY <1>1 DEF Pending, b0
<1>8. \A b, i : /\ Destroying(b, i)' <=> Destroying(b, i)
                /\ Occupied(b, i)' <=> Occupied(b, i)
                /\ Dist(b, front[b], i)' = Dist(b, front[b], i)
  BY <1>1 DEF Destroying, Occupied, Dist, Count
<1>9. \A b : Count(b)' = Count(b) /\ (Free(b)' <=> Free(b))
  BY <1>1 DEF Count, Dist, Free, Empty
<1>10. \A b \in 1..blocks : ~Empty(b) \/ b = frontBlock => Oldest(b)' = Oldest(b)
  <2> SUFFICES ASSUME NEW b \in 1..blocks, ~Empty(b) PROVE Oldest(b)' = Oldest(b)
    BY <1>1 DEF Oldest
  <2>1. b \in Block /\ front[b] \in Slot /\ front[b] # tail[b]
    BY Basics, TailSlot DEF Empty
  <2> QED
    BY <1>1, <1>6, <2>1 DEF Oldest
<1>11. Filled'
  <2>1. ASSUME NEW b \in 1..blocks, NEW i \in Slot, Occupied(b, i), ~Destroying(b, i)
        PROVE  data'[b][i] = Oldest(b)' + Dist(b, front[b], i)
    <3>1. ~Empty(b)
      <4>1. i \in Nat /\ i < size[b] /\ Dist(b, front[b], i) < Count(b)
        BY <2>1, Basics DEF Occupied
      <4> QED
        BY <4>1, TailSlot
    <3>2. b \in Block /\ ~(b = b0 /\ i = i0)
      BY <1>5, <2>1, Basics
    <3> QED
      BY <1>6, <1>10, <2>1, <3>1, <3>2 DEF Cells, Filled
  <2>2. ASSUME NEW b \in Linked, ~Free(b), b # LastBlock
        PROVE  (Oldest(next[b]))' = Oldest(b)' + Count(b)
    <3>1. ~Empty(next[b]) /\ next[b] \in 1..blocks /\ b \in 1..blocks
      BY <2>2, Basics DEF Ring, Circle, Shape
    <3>2. ~Empty(b) \/ b = frontBlock
      BY <2>2 DEF Free
    <3>3. Oldest(next[b])' = Oldest(next[b])
      BY <1>1, <1>10, <3>1 DEF Oldest
    <3> QED
      BY <1>1, <1>10, <2>2, <3>1, <3>2, <3>3 DEF Cells, Filled
  <2>3. Oldest(LastBlock)' = Oldest(LastBlock)
    <3>1. ~Empty(LastBlock) \/ LastBlock = frontBlock
      BY DEF Ring, Circle, Free
    <3> QED
      BY <1>4, <1>10, <3>1, Basics
  <2> QED
    BY <1>1, <1>4, <1>8, <1>9, <2>1, <2>2, <2>3 DEF Cells, Filled
<1>12. Numbers'
  BY <1>1, <1>6, <1>7 DEF Cells, Numbers, Element
<1>13. RawStorage'
  <2>1. ~Destroying(b0, i0)
    BY <1>2, DestroyedSlot DEF Destroying, Empty
  <2> QED
    BY <1>1, <1>2, <1>5, <1>6, <1>7, <1>8, <2>1 DEF Cells, RawStorage
<1>14. Request'
  BY <1>1 DEF Request
<1> QED
  BY <1>11, <1>12, <1>13, <1>14 DEF Cells

\* The numbers in the slots are natural numbers.
LEMMA CellTypes ==
  ASSUME TypeOK, Shape
  PROVE  /\ enqueued \in Nat /\ dequeued \in Nat /\ Element = enqueued + 1
         /\ \A b \in Block : \A i \in Slot : data[b][i] \in Nat
         /\ \A b \in Block : Oldest(b) \in Nat
<1>1. enqueued \in Nat /\ dequeued \in Nat
  BY Basics DEF TypeOK
<1>2. \A b \in Block : \A i \in Slot : data[b][i] \in Nat
  BY Basics DEF TypeOK
<1>3. \A b \in Block : Oldest(b) \in Nat
  BY <1>1, <1>2 DEF Oldest, TypeOK
<1> QED
  BY <1>1, <1>2, <1>3 DEF Element

\* A slot more at the tail end of a block.
LEMMA SlotPublished ==
  ASSUME TypeOK, Shape, NEW b \in 1..blocks, NEW i \in Slot,
         Count(b)' = Count(b) + 1, front' = front, size' = size
  PROVE  Occupied(b, i)' <=> Occupied(b, i) \/ i = tail[b]
<1>1. i \in Nat /\ tail[b] \in Nat /\ tail[b] < size[b]
  BY Basics, BlockFacts
<1>2. /\ Count(b) \in Nat
      /\ i < size[b] => Dist(b, front[b], i) \in Nat
      /\ i < size[b] /\ Dist(b, front[b], i) = Count(b) => i = tail[b]
  BY <1>1, TailSlot
<1>3. Dist(b, front[b], tail[b]) = Count(b)
  BY DEF Count
<1>4. Occupied(b, i)' <=> i < size[b] /\ Dist(b, front[b], i) < Count(b) + 1
  BY DEF Occupied, Dist
<1> QED
  BY <1>1, <1>2, <1>3, <1>4 DEF Occupied

\* The element in the tail slot joins those of the tail block.
LEMMA CellsPublishTail ==
  ASSUME TypeOK, Shape, Ring, Cells, Request, PublishTail
  PROVE  Cells' /\ Request'
<1> USE DEF blockVars, prodVars, consVars, sizeVars
<1>1. /\ UNCHANGED <<frontBlock, tailBlock, front, localFront, localTail, next,
                     size, data, blocks, dequeued, cpc, got, wasEmpty>>
      /\ ppc = "publish" /\ ppc' = "idle" /\ enqueued' = enqueued + 1
      /\ tailBlock \in 1..blocks /\ tailBlock \in Block
  BY Basics DEF PublishTail
<1>2. Linked' = Linked /\ LastBlock = tailBlock /\ LastBlock' = tailBlock
  BY <1>1 DEF Linked, LastBlock
<1>3. \A b \in Block : tail'[b] = IF b = tailBlock
                                     THEN Succ(b, tail[b]) ELSE tail[b]
  BY DEF PublishTail, TypeOK
<1>4. /\ Count(tailBlock)' = Count(tailBlock) + 1
      /\ front[tailBlock] # tail'[tailBlock]
  BY <1>1, <1>3, TailForward DEF Ring, Positions
<1>5. /\ \A b \in Block \ {tailBlock} : Count(b)' = Count(b)
      /\ \A b \in Block : Free(b)' <=> Free(b)
  <2>1. ~Free(tailBlock)
    BY <1>2 DEF Ring, Circle
  <2> QED
    BY <1>1, <1>3, <1>4, <2>1 DEF Count, Dist, Free, Empty
<1>6. \A b, i : /\ Oldest(b)' = Oldest(b)
                /\ Destroying(b, i)' <=> Destroying(b, i)
                /\ Dist(b, front[b], i)' = Dist(b, front[b], i)
  BY <1>1 DEF Oldest, Destroying, Dist
<1>7. \A b \in 1..blocks : \A i \in Slot :
        Occupied(b, i)' <=> Occupied(b, i) \/ (b = tailBlock /\ i = tail[b])
  <2> SUFFICES ASSUME NEW b \in 1..blocks, NEW i \in Slot
               PROVE  Occupied(b, i)'
                        <=> Occupied(b, i) \/ (b = tailBlock /\ i = tail[b])
    OBVIOUS
  <2>1. CASE b # tailBlock
    BY <1>1, <1>5, <2>1, Basics DEF Occupied, Dist
  <2>2. CASE b = tailBlock
    BY <1>1, <1>4, <2>2, SlotPublished
  <2> QED
    BY <2>1, <2>2
<1>8. /\ data[tailBlock][tail[tailBlock]] = enqueued + 1
      /\ Oldest(tailBlock) + Count(tailBlock) = enqueued + 1
      /\ tail[tailBlock] \in Slot
  <2>1. tail[tailBlock] \in Slot
    BY <1>1, TailSlot
  <2> QED
    BY <1>1, <1>2, <2>1, CellTypes DEF Cells, Numbers, Filled, Pending, Element
<1>9. Filled'
  <2>1. ASSUME NEW b \in 1..blocks, NEW i \in Slot, Occupied(b, i)', ~Destroying(b, i)
        PROVE  data[b][i] = Oldest(b) + Dist(b, front[b], i)
    <3>1. CASE Occupied(b, i)
      BY <2>1, <3>1 DEF Cells, Filled
    <3>2. CASE b = tailBlock /\ i = tail[b]
      BY <1>8, <3>2 DEF Count
    <3> QED
      BY <1>7, <2>1, <3>1, <3>2
  <2>2. \A b \in Linked : ~Free(b)' /\ b # tailBlock
          => (Oldest(next[b]))' = Oldest(b) + Count(b)'
    BY <1>1, <1>2, <1>5, <1>6, Basics DEF Cells, Filled
  <2>3. Oldest(tailBlock) + Count(tailBlock)' = enqueued' + 1
    <3>1. Oldest(tailBlock) \in Nat /\ Count(tailBlock) \in Nat /\ enqueued \in Nat
      BY <1>1, TailSlot, CellTypes
    <3> QED
      BY <1>1, <1>4, <1>8, <3>1
  <2> QED
    BY <1>1, <1>2, <1>6, <2>1, <2>2, <2>3 DEF Filled
<1>10. Numbers'
  <2>1. \A b, i : ~Pending(b, i)'
    BY <1>1 DEF Pending
  <2>2. \A b \in Block : \A i \in Slot : data[b][i] <= enqueued + 1
    BY CellTypes DEF Cells, Numbers
  <2>3. dequeued <= enqueued + 1
    BY CellTypes DEF Cells, Numbers
  <2> QED
    BY <1>1, <2>1, <2>2, <2>3 DEF Numbers
<1>11. RawStorage'
  <2>1. \A b \in Block : b <= blocks => b \in 1..blocks
    BY Basics
  <2>2. \A b, i : Pending(b, i) => b = tailBlock /\ i = tail[b]
    BY <1>1 DEF Pending
  <2> QED
    BY <1>1, <1>6, <1>7, <2>1, <2>2 DEF Cells, RawStorage
<1>12. Request'
  BY <1>1, CellTypes DEF Request
<1> QED
  BY <1>9, <1>10, <1>11, <1>12 DEF Cells

\* The element in the free block after the tail block becomes that block's
\* first one.
LEMMA CellsPublishNext ==
  ASSUME TypeOK, Shape, Ring, Cells, Request, PublishNext
  PROVE  Cells' /\ Request'
<1> USE DEF blockVars, prodVars, consVars, sizeVars
<1>1. /\ UNCHANGED <<frontBlock, tailBlock, front, localFront, localTail, next,
                     size, data, blocks, enqueued, dequeued, pblock, cpc, got,
                     wasEmpty>>
      /\ ppc = "publishNext" /\ ppc' = "advance"
  BY DEF PublishNext
<1>2. /\ Linked' = Linked /\ LastBlock = tailBlock /\ LastBlock' = pblock
      /\ pblock \in Linked /\ pblock \in 1..blocks /\ pblock \in Block
  BY <1>1, Basics DEF Linked, LastBlock, Shape
<1>3. /\ pblock = next[tailBlock] /\ pblock # tailBlock /\ pblock # frontBlock
      /\ localFront[pblock] = front[pblock] /\ front[pblock] = tail[pblock]
      /\ ~Free(tailBlock)
  BY <1>1, <1>2 DEF Ring, ProducerAt, Circle, Free, Empty
<1>4. \A b \in Block : tail'[b] = IF b = pblock
                                     THEN Succ(b, tail[b]) ELSE tail[b]
  BY DEF PublishNext, TypeOK
<1>5. Count(pblock) = 0 /\ Count(pblock)' = 1
  <2>1. Count(pblock) = 0
    BY <1>2, <1>3, TailSlot DEF Empty
  <2>2. Succ(pblock, tail[pblock]) # localFront[pblock]
    BY <1>2, <1>3, BlockFacts DEF Succ
  <2>3. Count(pblock)' = Count(pblock) + 1
    BY <1>1, <1>2, <1>4, <2>2, TailForward DEF Ring, Positions
  <2> QED
    BY <2>1, <2>3
<1>6. /\ \A b \in Block \ {pblock} : Count(b)' = Count(b) /\ (Free(b)' <=> Free(b))
      /\ Free(pblock)
  BY <1>1, <1>3, <1>4 DEF Count, Dist, Free, Empty
<1>7. \A b, i : /\ Oldest(b)' = Oldest(b)
                /\ Destroying(b, i)' <=> Destroying(b, i)
                /\ Dist(b, front[b], i)' = Dist(b, front[b], i)
  BY <1>1 DEF Oldest, Destroying, Dist
<1>8. \A b \in 1..blocks : \A i \in Slot :
        Occupied(b, i)' <=> Occupied(b, i) \/ (b = pblock /\ i = tail[b])
  <2>1. \A b \in 1..blocks : \A i \in Slot :
          b # pblock => (Occupied(b, i)' <=> Occupied(b, i))
    BY <1>1, <1>6, Basics DEF Occupied, Dist
  <2>2. ASSUME NEW b \in 1..blocks, NEW i \in Slot, b = pblock
        PROVE  Occupied(b, i)' <=> Occupied(b, i) \/ i = tail[b]
    <3>1. Count(b)' = Count(b) + 1
      BY <1>1, <1>5, <2>2
    <3> QED
      BY <1>1, <3>1, SlotPublished
  <2> QED
    BY <2>1, <2>2
<1>9. \A b, i : Pending(b, i)' <=> Pending(b, i)
  BY <1>1, <1>3 DEF Pending
<1>10. /\ tail[pblock] \in Slot
       /\ data[pblock][tail[pblock]] = enqueued + 1
       /\ Oldest(pblock) = enqueued + 1
       /\ Oldest(tailBlock) + Count(tailBlock) = enqueued + 1
  <2>1. tail[pblock] \in Slot
    BY <1>2, TailSlot
  <2>2. data[pblock][tail[pblock]] = enqueued + 1
    BY <1>1, <1>2, <2>1 DEF Cells, Numbers, Pending, Element
  <2> QED
    BY <1>1, <1>2, <1>3, <2>1, <2>2, CellTypes DEF Oldest, Cells, Filled
<1>11. Filled'
  <2>1. ASSUME NEW b \in 1..blocks, NEW i \in Slot, Occupied(b, i)', ~Destroying(b, i)
        PROVE  data[b][i] = Oldest(b) + Dist(b, front[b], i)
    <3>1. CASE Occupied(b, i)
      BY <2>1, <3>1 DEF Cells, Filled
    <3>2. CASE b = pblock /\ i = tail[b]
      BY <1>5, <1>10, <3>2, CellTypes DEF Count
    <3> QED
      BY <1>8, <2>1, <3>1, <3>2
  <2>2. ASSUME NEW b \in Linked, ~Free(b)', b # pblock
        PROVE  Oldest(next[b]) = Oldest(b) + Count(b)'
    <3>1. ~Free(b) /\ Count(b)' = Count(b)
      BY <1>6, <2>2, Basics
    <3>2. CASE b = tailBlock
      BY <1>3, <1>10, <3>1, <3>2
    <3>3. CASE b # tailBlock
      BY <1>2, <2>2, <3>1, <3>3 DEF Cells, Filled
    <3> QED
      BY <3>2, <3>3
  <2>3. Oldest(pblock) + Count(pblock)' = enqueued + 1 + 1
    BY <1>5, <1>10, CellTypes
  <2> QED
    BY <1>1, <1>2, <1>7, <2>1, <2>2, <2>3 DEF Filled
<1>12. Numbers'
  BY <1>1, <1>9 DEF Cells, Numbers, Element
<1>13. RawStorage'
  <2>1. \A b \in Block : b <= blocks => b \in 1..blocks
    BY Basics
  <2> QED
    BY <1>1, <1>7, <1>8, <1>9, <2>1 DEF Cells, RawStorage
<1>14. Request'
  BY <1>1 DEF Request
<1> QED
  BY <1>11, <1>12, <1>13, <1>14 DEF Cells

\* A new block holds the element, but the consumer cannot reach it yet.
LEMMA CellsMakeBlock ==
  ASSUME TypeOK, Shape, Ring, Cells, Request, MakeBlock
  PROVE  Cells' /\ Request'
<1> USE DEF blockVars, prodVars, consVars, sizeVars
<1>0. PICK new : new = blocks + 1
  OBVIOUS
<1>1. /\ UNCHANGED <<frontBlock, tailBlock, front, next, enqueued, dequeued, cpc,
                     got, wasEmpty>>
      /\ ppc = "alloc" /\ ppc' = "link"
      /\ blocks' = new /\ pblock' = new
      /\ new \in Block /\ new \notin 1..blocks
      /\ 1..blocks' = 1..blocks \cup {new} /\ frontBlock # new
  <2>1. /\ UNCHANGED <<frontBlock, tailBlock, front, next, enqueued, dequeued, cpc,
                       got, wasEmpty>>
        /\ ppc = "alloc" /\ ppc' = "link"
        /\ blocks' = new /\ pblock' = new /\ blocks < MaxBlocks
    BY <1>0 DEF MakeBlock
  <2>2. new \in 1..MaxBlocks /\ 1..new = 1..blocks \cup {new}
        /\ new \notin 1..blocks
    BY <1>0, <2>1, Basics
  <2>3. Block = 1..MaxBlocks /\ frontBlock \in 1..blocks
    BY Basics
  <2> QED
    BY <2>1, <2>2, <2>3
<1>2. /\ Linked = 1..blocks /\ Linked' = Linked
      /\ LastBlock = tailBlock /\ LastBlock' = tailBlock
  BY <1>0, <1>1, Basics DEF Linked, LastBlock
<1>3. \A b \in 1..blocks : tail'[b] = tail[b] /\ size'[b] = size[b]
  <2>1. \A b \in 1..blocks : b \in Block /\ b # blocks + 1
    BY Basics
  <2> QED
    BY <2>1 DEF MakeBlock, TypeOK
<1>4. front[new] = 0 /\ tail'[new] = 1
  <2>1. ~(new <= blocks)
    BY <1>0, Basics
  <2> QED
    BY <1>0, <1>1, <2>1 DEF Shape, MakeBlock, TypeOK
<1>5. \A b \in Block : \A i \in Slot :
        data'[b][i] = IF b = new /\ i = 0 THEN Element ELSE data[b][i]
  BY <1>0, <1>1, Basics DEF MakeBlock, TypeOK
<1>6. \A i \in Slot : data[new][i] = 0
  BY <1>0, <1>1, Basics DEF Cells, RawStorage
<1>7. \A b, i : /\ Destroying(b, i)' <=> Destroying(b, i)
                /\ ~Pending(b, i)
                /\ Pending(b, i)' <=> b = new /\ i = 0
  BY <1>1, <1>4 DEF Destroying, Pending
<1>8. \A b \in 1..blocks :
        /\ Count(b)' = Count(b) /\ (Free(b)' <=> Free(b)) /\ Oldest(b)' = Oldest(b)
        /\ \A i \in Slot : /\ Occupied(b, i)' <=> Occupied(b, i)
                            /\ Dist(b, front[b], i)' = Dist(b, front[b], i)
  <2>1. \A b \in 1..blocks : b \in Block /\ front[b] \in Slot /\ b # new
    BY <1>1, Basics DEF TypeOK
  <2> QED
    BY <1>1, <1>3, <1>5, <2>1 DEF Count, Free, Empty, Oldest, Occupied, Dist
<1>9. /\ Count(new)' = 1 /\ Oldest(new)' = Element
      /\ \A i \in Slot : Occupied(new, i)' => i = 0
  BY <1>1, <1>4, <1>5, Basics DEF Count, Dist, Oldest, Occupied
<1>10. Filled'
  <2>1. ASSUME NEW b \in 1..blocks, NEW i \in Slot, Occupied(b, i)', ~Destroying(b, i)
        PROVE  data'[b][i] = Oldest(b)' + Dist(b, front[b], i)'
    BY <1>1, <1>5, <1>8, <2>1, Basics, SMTT(20) DEF Cells, Filled
  <2>2. ASSUME NEW i \in Slot, Occupied(new, i)'
        PROVE  data'[new][i] = Oldest(new)' + Dist(new, front[new], i)'
    BY <1>1, <1>4, <1>5, <1>9, <2>2, CellTypes DEF Dist
  <2>3. \A b \in Linked : ~Free(b)' /\ b # tailBlock
          => (Oldest(next[b]))' = Oldest(b)' + Count(b)'
    <3>1. \A b \in Linked : next[b] \in 1..blocks
      BY Basics DEF Shape
    <3>2. \A b \in Linked : (Oldest(next[b]))' = Oldest(next[b])
      <4>1. \A b \in Linked : next[b] \in Block /\ front[next[b]] \in Slot
                              /\ next[b] # new
        BY <1>1, <3>1, Basics DEF TypeOK
      <4> QED
        BY <1>1, <1>5, <4>1 DEF Oldest
    <3> QED
      BY <1>2, <1>8, <3>2 DEF Cells, Filled
  <2>4. Oldest(tailBlock)' + Count(tailBlock)' = enqueued + 1
    BY <1>1, <1>2, <1>8, Basics, CellTypes DEF Cells, Filled
  <2> QED
    BY <1>1, <1>2, <1>7, <2>1, <2>2, <2>3, <2>4, CellTypes DEF Filled
<1>11. Numbers'
  BY <1>1, <1>5, <1>7 DEF Cells, Numbers, Element
<1>12. RawStorage'
  <2>1. \A b \in Block : b <= blocks => b \in 1..blocks /\ b <= blocks'
    BY <1>0, <1>1, Basics
  <2>2. new <= blocks' /\ \A i : ~Destroying(new, i)
    BY <1>0, <1>1, Basics DEF Destroying
  <2>3. ASSUME NEW b \in Block, NEW i \in Slot, data'[b][i] # 0
        PROVE  /\ b <= blocks' /\ ~Destroying(b, i)'
               /\ Occupied(b, i)' \/ Pending(b, i)'
    <3>1. CASE b = new /\ i = 0
      BY <1>7, <2>2, <3>1
    <3>2. CASE ~(b = new /\ i = 0)
      <4>1. data[b][i] # 0
        BY <1>5, <2>3, <3>2
      <4>2. b <= blocks /\ ~Destroying(b, i) /\ Occupied(b, i)
        BY <1>7, <4>1 DEF Cells, RawStorage
      <4>3. b \in 1..blocks /\ b <= blocks'
        BY <2>1, <4>2
      <4>4. Occupied(b, i)'
        BY <1>1, <1>3, <4>2, <4>3 DEF Occupied, Count, Dist
      <4>5. ~Destroying(b, i)'
        BY <1>7, <4>2
      <4> QED
        BY <4>3, <4>4, <4>5
    <3> QED
      BY <3>1, <3>2
  <2> QED
    BY <2>3 DEF RawStorage
<1>13. Request'
  BY <1>1 DEF Request
<1> QED
  BY <1>10, <1>11, <1>12, <1>13 DEF Cells

\* Linking the new block after the tail block makes it the last one.
LEMMA CellsLinkBlock ==
  ASSUME TypeOK, Shape, Ring, Cells, Request, LinkBlock
  PROVE  Cells' /\ Request'
<1> USE DEF blockVars, prodVars, consVars, sizeVars
<1>1. /\ UNCHANGED <<frontBlock, tailBlock, front, tail, size, data, blocks,
                     enqueued, dequeued, pblock, cpc, got, wasEmpty>>
      /\ ppc = "link" /\ ppc' = "advance" /\ pblock = blocks
  BY DEF LinkBlock, Shape
<1>2. /\ Linked' = Linked \cup {pblock}
      /\ pblock \notin Linked /\ pblock \in 1..blocks /\ pblock \in Block
      /\ frontBlock # pblock /\ tailBlock # pblock
      /\ LastBlock = tailBlock /\ LastBlock' = pblock
  <2>1. Linked = 1..(blocks - 1) /\ Linked' = 1..blocks
    BY <1>1 DEF Linked
  <2> QED
    BY <1>1, <2>1, Basics DEF LastBlock
<1>3. /\ next'[tailBlock] = pblock
      /\ \A b \in Linked \ {tailBlock} : next'[b] = next[b]
  BY <1>2, Basics DEF LinkBlock, TypeOK, Shape
<1>4. \A b : /\ Oldest(b)' = Oldest(b) /\ Count(b)' = Count(b)
             /\ Free(b)' <=> Free(b)
             /\ \A i : /\ Occupied(b, i)' <=> Occupied(b, i)
                       /\ Pending(b, i)' <=> Pending(b, i)
                       /\ Destroying(b, i)' <=> Destroying(b, i)
                       /\ Dist(b, front[b], i)' = Dist(b, front[b], i)
  BY <1>1 DEF Oldest, Count, Dist, Free, Empty, Occupied, Pending, Destroying
<1>5. /\ Oldest(pblock) = enqueued + 1 /\ Count(pblock) = 1
      /\ Oldest(tailBlock) + Count(tailBlock) = enqueued + 1
  <2>1. front[pblock] = 0 /\ tail[pblock] = 1
    BY <1>1 DEF Ring, ProducerAt
  <2>2. data[pblock][front[pblock]] = enqueued + 1
    BY <1>1, <1>2, <2>1, Basics DEF Cells, Numbers, Pending, Element
  <2> QED
    BY <1>1, <1>2, <2>1, <2>2, CellTypes DEF Oldest, Count, Dist, Cells, Filled
<1>6. Filled'
  <2>1. ASSUME NEW b \in Linked, ~Free(b), b # pblock
        PROVE  Oldest(next'[b]) = Oldest(b) + Count(b)
    <3>1. CASE b = tailBlock
      BY <1>3, <1>5, <3>1
    <3>2. CASE b # tailBlock
      BY <1>2, <1>3, <2>1, <3>2 DEF Cells, Filled
    <3> QED
      BY <3>1, <3>2
  <2>2. Oldest(pblock) + Count(pblock) = enqueued + 1 + 1
    BY <1>5, CellTypes
  <2>3. \A b : (Oldest(next[b]))' = Oldest(next'[b])
    BY <1>1 DEF Oldest
  <2> QED
    BY <1>1, <1>2, <1>4, <2>1, <2>2, <2>3 DEF Cells, Filled
<1>7. Numbers' /\ RawStorage'
  BY <1>1, <1>4 DEF Cells, Numbers, RawStorage, Element
<1>8. Request'
  BY <1>1 DEF Request
<1> QED
  BY <1>6, <1>7, <1>8 DEF Cells

\* The element in the last block is accepted as that becomes the tail block.
LEMMA CellsAdvanceTailBlock ==
  ASSUME TypeOK, Shape, Ring, Cells, Request, AdvanceTailBlock
  PROVE  Cells' /\ Request'
<1> USE DEF blockVars, prodVars, consVars, sizeVars
<1>1. /\ UNCHANGED <<frontBlock, front, tail, next, size, data, blocks, dequeued,
                     pblock, cpc, got, wasEmpty>>
      /\ ppc = "advance" /\ ppc' = "idle" /\ enqueued' = enqueued + 1
      /\ tailBlock' = pblock
      /\ pblock \in 1..blocks /\ pblock \in Block
  BY Basics DEF AdvanceTailBlock, Shape
<1>2. Linked' = Linked /\ LastBlock = pblock /\ LastBlock' = pblock
  BY <1>1 DEF Linked, LastBlock
<1>3. \A b : /\ Oldest(b)' = Oldest(b) /\ Count(b)' = Count(b)
             /\ Free(b)' <=> Free(b)
             /\ \A i : /\ Occupied(b, i)' <=> Occupied(b, i)
                       /\ ~Pending(b, i)'
                       /\ Pending(b, i) <=> b = pblock /\ i = front[b]
                       /\ Destroying(b, i)' <=> Destroying(b, i)
                       /\ Dist(b, front[b], i)' = Dist(b, front[b], i)
  BY <1>1 DEF Oldest, Count, Dist, Free, Empty, Occupied, Pending, Destroying
<1>4. Filled'
  <2>1. Oldest(pblock) + Count(pblock) = enqueued' + 1
    BY <1>1, <1>2, CellTypes DEF Cells, Filled
  <2>2. \A b : (Oldest(next[b]))' = Oldest(next[b])
    BY <1>1 DEF Oldest
  <2> QED
    BY <1>1, <1>2, <1>3, <2>1, <2>2 DEF Cells, Filled
<1>5. Numbers'
  <2>1. \A b \in Block : \A i \in Slot : data[b][i] <= enqueued + 1
    BY CellTypes DEF Cells, Numbers
  <2>2. dequeued <= enqueued + 1
    BY CellTypes DEF Cells, Numbers
  <2> QED
    BY <1>1, <1>3, <2>1, <2>2 DEF Numbers
<1>6. RawStorage'
  <2>1. Occupied(pblock, front[pblock])
    BY <1>1, TailSlot, BlockFacts DEF Ring, ProducerAt, Occupied, Dist
  <2> QED
    BY <1>1, <1>3, <2>1 DEF Cells, RawStorage
<1>7. Request'
  <2>1. frontBlock # pblock
    BY <1>1 DEF Ring, ProducerAt
  <2> QED
    BY <1>1, <2>1, CellTypes DEF Request
<1> QED
  BY <1>4, <1>5, <1>6, <1>7 DEF Cells

-----------------------------------------------------------------------------
(* The consumer's steps *)

\* What the front block holds when it looks empty: nothing if it is the tail
\* block, and the queue goes on in the next one if it is not.
LEMMA FrontBlockEmpty ==
  ASSUME TypeOK, Shape, Ring, Cells, Empty(frontBlock)
  PROVE  /\ frontBlock = tailBlock => dequeued = enqueued
         /\ frontBlock # tailBlock =>
              /\ frontBlock # LastBlock /\ next[frontBlock] # frontBlock
              /\ ~Empty(next[frontBlock])
              /\ next[frontBlock] \in 1..blocks
              /\ data[next[frontBlock]][front[next[frontBlock]]] = dequeued + 1
<1>1. frontBlock \in Linked /\ frontBlock \in 1..blocks /\ ~Free(frontBlock)
  BY Basics DEF Free
<1>2. Count(frontBlock) = 0 /\ Oldest(frontBlock) = dequeued + 1
  BY <1>1, TailSlot DEF Oldest
<1>3. ASSUME frontBlock # LastBlock
      PROVE  /\ next[frontBlock] # frontBlock /\ ~Empty(next[frontBlock])
             /\ next[frontBlock] \in 1..blocks
             /\ Oldest(next[frontBlock]) = dequeued + 1
  <2>1. next[frontBlock] # frontBlock /\ ~Empty(next[frontBlock])
    BY <1>1, <1>3 DEF Ring, Circle
  <2>2. next[frontBlock] \in 1..blocks
    BY <1>1, Basics DEF Shape
  <2>3. Oldest(next[frontBlock]) = Oldest(frontBlock) + Count(frontBlock)
    BY <1>1, <1>3 DEF Cells, Filled
  <2> QED
    BY <1>2, <2>1, <2>2, <2>3, CellTypes
<1>4. ASSUME frontBlock = tailBlock PROVE dequeued = enqueued
  <2>1. CASE ppc # "advance"
    <3>1. LastBlock = frontBlock
      BY <1>4, <2>1 DEF LastBlock
    <3>2. Oldest(frontBlock) + Count(frontBlock) = enqueued + 1
      BY <2>1, <3>1, CellTypes DEF Cells, Filled
    <3> QED
      BY <1>2, <3>2, CellTypes
  <2>2. CASE ppc = "advance"
    <3>1. /\ LastBlock = pblock /\ pblock # frontBlock /\ pblock = next[frontBlock]
          /\ Count(pblock) = 1
      BY <1>4, <2>2 DEF Ring, ProducerAt, LastBlock
    <3>2. Oldest(pblock) + 1 = enqueued + 1 + 1 /\ Oldest(pblock) = dequeued + 1
      BY <1>3, <2>2, <3>1 DEF Cells, Filled
    <3> QED
      BY <3>2, CellTypes
  <2> QED
    BY <2>1, <2>2
<1>5. frontBlock # tailBlock => frontBlock # LastBlock
  BY DEF LastBlock, Ring, ProducerAt
<1>6. next[frontBlock] # frontBlock
        => Oldest(next[frontBlock]) = data[next[frontBlock]][front[next[frontBlock]]]
  BY DEF Oldest
<1> QED
  BY <1>3, <1>4, <1>5, <1>6

\* The steps of a dequeue before the element is destroyed, and those of peek.
LEMMA CellsLocalConsumer ==
  ASSUME TypeOK, Shape, Ring, Cells, Request,
         \/ TryDequeue \/ Pop \/ Peek \/ LoadTail \/ CheckTailBlock
         \/ ReloadTail \/ FollowNext \/ LoadNextTail \/ ReadNext
         \/ ReadElement /\ cop = "peek"
  PROVE  Cells' /\ Request'
<1> USE DEF blockVars, prodVars, consVars, sizeVars
<1>1. /\ UNCHANGED <<frontBlock, tailBlock, front, tail, next, size, data, blocks,
                     ppc, pblock, enqueued, dequeued>>
      /\ cpc # "advanceFront" /\ cpc' # "advanceFront"
  BY DEF TryDequeue, Pop, Peek, BeginDequeue, LoadTail, ReloadTail,
         RefreshLocalTail, CheckTailBlock, FollowNext, LoadNextTail, ReadElement,
         ReadNext
<1>2. Cells'
  BY <1>1, CellsKept
<1>3. cpc' # "idle" /\ ~wasEmpty' => dequeued < enqueued
  <2>1. ASSUME TryDequeue \/ Pop \/ Peek, ~wasEmpty'
        PROVE  dequeued < enqueued
    <3>1. wasEmpty' = (QueueSize = 0)
      BY <2>1 DEF TryDequeue, Pop, Peek, BeginDequeue
    <3>2. QueueSize # 0
      BY <2>1, <3>1
    <3> QED
      BY <3>2, CellTypes DEF QueueSize, Cells, Numbers
  <2>2. ASSUME ~(TryDequeue \/ Pop \/ Peek)
        PROVE  wasEmpty' = wasEmpty /\ cpc # "idle"
    BY <2>2 DEF LoadTail, ReloadTail, RefreshLocalTail, CheckTailBlock, FollowNext,
       LoadNextTail, ReadElement, ReadNext
  <2> QED
    BY <2>1, <2>2 DEF Request
<1>4. ASSUME cpc' = "checkTailBlock", ~wasEmpty'
      PROVE  frontBlock # tailBlock
  <2>1. cpc = "loadTail" /\ ~wasEmpty /\ Empty(frontBlock)
    BY <1>4 DEF TryDequeue, Pop, Peek, BeginDequeue, LoadTail, ReloadTail,
         RefreshLocalTail, CheckTailBlock, FollowNext, LoadNextTail, ReadElement,
         ReadNext, Empty
  <2>2. dequeued < enqueued
    BY <2>1 DEF Request
  <2> QED
    BY <2>1, <2>2, FrontBlockEmpty, CellTypes
<1>5. cpc' # "idle" => got' = 0
  BY <1>1 DEF TryDequeue, Pop, Peek, BeginDequeue, LoadTail, ReloadTail,
         RefreshLocalTail, CheckTailBlock, FollowNext, LoadNextTail, ReadElement,
         ReadNext, Request
<1> QED
  BY <1>1, <1>2, <1>3, <1>4, <1>5 DEF Request

\* The next block becomes the front block, and its oldest element the queue's.
LEMMA CellsAdvanceFrontBlock ==
  ASSUME TypeOK, Shape, Ring, Cells, Request, AdvanceFrontBlock
  PROVE  Cells' /\ Request'
<1> USE DEF blockVars, prodVars, consVars, sizeVars
<1>1. /\ UNCHANGED <<tailBlock, front, tail, next, size, data, blocks, ppc, pblock,
                     enqueued, dequeued, wasEmpty, got>>
      /\ cpc = "advanceFrontBlock" /\ cpc' = "read"
      /\ frontBlock' = cblock /\ cblock = next[frontBlock]
      /\ frontBlock # tailBlock /\ Empty(frontBlock)
  BY DEF AdvanceFrontBlock, Ring, ConsumerAt
<1>2. Linked' = Linked /\ LastBlock' = LastBlock
  BY <1>1 DEF Linked, LastBlock
<1>3. /\ frontBlock # LastBlock /\ cblock # frontBlock /\ ~Empty(cblock)
      /\ data[cblock][front[cblock]] = dequeued + 1
      /\ frontBlock \in 1..blocks
  BY <1>1, FrontBlockEmpty, Basics
<1>4. \A b : /\ Count(b)' = Count(b)
             /\ Free(b)' <=> Free(b) \/ b = frontBlock
             /\ b # frontBlock => Oldest(b)' = Oldest(b)
  BY <1>1, <1>3 DEF Count, Dist, Free, Empty, Oldest
<1>5. \A b, i : /\ Occupied(b, i)' <=> Occupied(b, i)
                /\ Pending(b, i)' <=> Pending(b, i)
                /\ ~Destroying(b, i)' /\ ~Destroying(b, i)
                /\ Dist(b, front[b], i)' = Dist(b, front[b], i)
  BY <1>1 DEF Count, Dist, Occupied, Pending, Destroying
<1>6. Filled'
  <2>1. ASSUME NEW b \in 1..blocks, NEW i \in Slot, Occupied(b, i)
        PROVE  data[b][i] = Oldest(b)' + Dist(b, front[b], i)
    <3>1. b # frontBlock
      <4>1. Count(frontBlock) = 0
        BY <1>1, <1>3, TailSlot
      <4>2. i < size[b] => Dist(b, front[b], i) \in Nat
        BY TailSlot, Basics
      <4> QED
        BY <2>1, <4>1, <4>2 DEF Occupied
    <3> QED
      BY <1>4, <1>5, <2>1, <3>1 DEF Cells, Filled
  <2>2. ASSUME NEW b \in Linked, ~Free(b), b # frontBlock, b # LastBlock
        PROVE  (Oldest(next[b]))' = Oldest(b)' + Count(b)
    <3>1. next[b] # frontBlock
      BY <2>2 DEF Ring, Circle
    <3>2. (Oldest(next[b]))' = Oldest(next[b])
      BY <1>1, <1>3, <3>1 DEF Oldest
    <3> QED
      BY <1>4, <2>2, <3>2 DEF Cells, Filled
  <2>3. Oldest(LastBlock)' = Oldest(LastBlock) /\ Count(LastBlock)' = Count(LastBlock)
    BY <1>1, <1>2, <1>3 DEF Oldest, Count, Dist
  <2> QED
    BY <1>1, <1>2, <1>4, <1>5, <2>1, <2>2, <2>3 DEF Cells, Filled
<1>7. Numbers' /\ RawStorage'
  BY <1>1, <1>5 DEF Cells, Numbers, RawStorage, Element
<1>8. Request'
  BY <1>1 DEF Request
<1> QED
  BY <1>6, <1>7, <1>8 DEF Cells

\* The consumer at an element: it is the oldest, and accepted.
LEMMA AtOldest ==
  ASSUME TypeOK, Shape, Ring, Cells, cpc = "read"
  PROVE  /\ frontBlock \in 1..blocks /\ frontBlock \in Block
         /\ front[frontBlock] \in Slot
         /\ ~Pending(frontBlock, front[frontBlock])
         /\ data[frontBlock][front[frontBlock]] = dequeued + 1
         /\ dequeued < enqueued
<1>1. /\ frontBlock \in 1..blocks /\ frontBlock \in Block
      /\ front[frontBlock] \in Slot /\ ~Empty(frontBlock)
  BY Basics, TailSlot, DestroyedSlot
<1>2. ~Pending(frontBlock, front[frontBlock])
  <2>1. ppc = "publishNext" => pblock # frontBlock
    BY DEF Ring, ProducerAt, Free
  <2>2. ppc = "advance" => pblock # frontBlock
    BY DEF Ring, ProducerAt
  <2>3. ppc = "link" => pblock # frontBlock
    <3> SUFFICES ASSUME ppc = "link" PROVE pblock # frontBlock
      OBVIOUS
    <3>1. pblock = blocks /\ frontBlock \in 1..(blocks - 1)
      BY DEF Shape, Linked
    <3> QED
      BY <3>1, Basics
  <2> QED
    BY <1>1, <2>1, <2>2, <2>3 DEF Pending, Empty
<1>3. data[frontBlock][front[frontBlock]] = dequeued + 1
  <2>1. Dist(frontBlock, front[frontBlock], front[frontBlock]) = 0
    BY <1>1, TailSlot, BlockFacts
  <2>2. Occupied(frontBlock, front[frontBlock])
    BY <1>1, <2>1, TailSlot, BlockFacts DEF Occupied
  <2>3. ~Destroying(frontBlock, front[frontBlock])
    BY DEF Destroying
  <2> QED
    BY <1>1, <2>1, <2>2, <2>3, CellTypes DEF Cells, Filled, Oldest
<1>4. data[frontBlock][front[frontBlock]] <= enqueued
  BY <1>1, <1>2 DEF Cells, Numbers
<1> QED
  BY <1>1, <1>2, <1>3, <1>4, CellTypes

\* Moving the oldest element out leaves raw storage in its slot.
LEMMA CellsDestroy ==
  ASSUME TypeOK, Shape, Ring, Cells, Request, ReadElement, cop # "peek"
  PROVE  Cells' /\ Request'
<1> USE DEF blockVars, prodVars, consVars, sizeVars
<1> DEFINE i0 == front[frontBlock]
<1>1. /\ UNCHANGED <<frontBlock, tailBlock, front, tail, next, size, blocks, ppc,
                     pblock, enqueued, dequeued, wasEmpty>>
      /\ cpc = "read" /\ cpc' = "advanceFront"
      /\ data' = [data EXCEPT ![frontBlock][i0] = 0]
      /\ got' = data[frontBlock][i0]
  BY DEF ReadElement
<1>2. /\ frontBlock \in 1..blocks /\ frontBlock \in Block /\ i0 \in Slot
      /\ ~Pending(frontBlock, i0)
      /\ data[frontBlock][i0] = dequeued + 1 /\ dequeued < enqueued
  BY <1>1, AtOldest
<1>3. \A b \in Block : \A i \in Slot :
        data'[b][i] = IF b = frontBlock /\ i = i0 THEN 0 ELSE data[b][i]
  BY <1>1, <1>2 DEF TypeOK
<1>4. \A b, i : /\ Pending(b, i)' <=> Pending(b, i)
                /\ Occupied(b, i)' <=> Occupied(b, i)
                /\ Dist(b, front[b], i)' = Dist(b, front[b], i)
                /\ ~Destroying(b, i)
                /\ Destroying(b, i)' <=> b = frontBlock /\ i = i0
  BY <1>1 DEF Pending, Occupied, Dist, Count, Destroying
<1>5. /\ \A b : Count(b)' = Count(b) /\ (Free(b)' <=> Free(b))
      /\ \A b \in Block : Oldest(b)' = Oldest(b)
      /\ Linked' = Linked /\ LastBlock' = LastBlock
  <2>1. \A b \in Block : front[b] \in Slot
    BY DEF TypeOK
  <2> QED
    BY <1>1, <1>3, <2>1 DEF Count, Dist, Free, Empty, Oldest, Linked, LastBlock
<1>6. Filled'
  <2>1. ASSUME NEW b \in 1..blocks, NEW i \in Slot, Occupied(b, i),
               ~(b = frontBlock /\ i = i0)
        PROVE  data'[b][i] = Oldest(b) + Dist(b, front[b], i)
    BY <1>3, <1>4, <2>1, Basics DEF Cells, Filled
  <2>2. \A b \in Linked : (Oldest(next[b]))' = Oldest(next[b])
    <3>1. \A b \in Linked : next[b] \in Block /\ front[next[b]] \in Slot
      BY Basics DEF Shape, TypeOK
    <3> QED
      BY <1>1, <1>3, <3>1 DEF Oldest
  <2>3. LastBlock \in Block
    BY Basics DEF LastBlock, Shape
  <2>4. Oldest(LastBlock)' = Oldest(LastBlock) /\ Count(LastBlock)' = Count(LastBlock)
    <3>1. front[LastBlock] \in Slot
      BY <2>3 DEF TypeOK
    <3> QED
      BY <1>1, <1>3, <1>5, <2>3, <3>1 DEF Oldest, Count, Dist
  <2> QED
    BY <1>1, <1>4, <1>5, <2>1, <2>2, <2>4, Basics, SMTT(20) DEF Cells, Filled
<1>7. Numbers'
  BY <1>1, <1>2, <1>3, <1>4, CellTypes DEF Cells, Numbers, Element
<1>8. RawStorage'
  BY <1>1, <1>3, <1>4 DEF Cells, RawStorage
<1>9. Request'
  BY <1>1, <1>2 DEF Request
<1> QED
  BY <1>6, <1>7, <1>8, <1>9 DEF Cells

\* Giving the slot back makes the next element the oldest.
LEMMA CellsAdvanceFront ==
  ASSUME TypeOK, Shape, Ring, Cells, Request, AdvanceFront
  PROVE  Cells' /\ Request'
<1> USE DEF blockVars, prodVars, consVars, sizeVars
<1>1. /\ UNCHANGED <<frontBlock, tailBlock, tail, localFront, localTail, next, size,
                     data, blocks, ppc, pblock, enqueued, wasEmpty, got>>
      /\ cpc = "advanceFront" /\ cpc' = "idle" /\ dequeued' = dequeued + 1
      /\ frontBlock \in 1..blocks /\ frontBlock \in Block
      /\ dequeued < enqueued
  BY Basics DEF AdvanceFront, Request
<1>2. Linked' = Linked /\ LastBlock' = LastBlock /\ ~Free(frontBlock)
  BY <1>1 DEF Linked, LastBlock, Free
<1>3. \A b \in Block : front'[b] = IF b = frontBlock
                                      THEN Succ(b, front[b]) ELSE front[b]
  BY DEF AdvanceFront, TypeOK
<1>4. Count(frontBlock)' = Count(frontBlock) - 1 /\ front[frontBlock] # tail[frontBlock]
  BY <1>1, <1>3, FrontForward DEF Ring, Positions
<1>5. /\ Oldest(frontBlock) = dequeued + 1 /\ Oldest(frontBlock)' = dequeued + 2
      /\ \A b \in Block \ {frontBlock} :
           /\ Oldest(b)' = Oldest(b) /\ Count(b)' = Count(b)
           /\ Free(b)' <=> Free(b)
      /\ Oldest(frontBlock)' + Count(frontBlock)' = Oldest(frontBlock) + Count(frontBlock)
  <2>1. Oldest(frontBlock) = dequeued + 1 /\ Oldest(frontBlock)' = dequeued + 2
    BY <1>1, CellTypes DEF Oldest
  <2>2. Count(frontBlock) \in Nat
    BY <1>1, TailSlot
  <2> QED
    BY <1>1, <1>3, <1>4, <2>1, <2>2, CellTypes DEF Oldest, Count, Dist, Free, Empty
<1>6. ASSUME NEW b \in 1..blocks, NEW i \in Slot
      PROVE  /\ b # frontBlock =>
                  /\ Occupied(b, i)' <=> Occupied(b, i)
                  /\ Dist(b, front[b], i)' = Dist(b, front[b], i)
             /\ b = frontBlock =>
                  /\ Occupied(b, i)' => Occupied(b, i) /\ i # front[b]
                  /\ Occupied(b, i) /\ i # front[b] => Occupied(b, i)'
                  /\ Occupied(b, i)' =>
                       Dist(b, front[b], i)' = Dist(b, front[b], i) - 1
  <2>1. CASE b # frontBlock
    BY <1>1, <1>3, <2>1, Basics DEF Occupied, Dist, Count
  <2>2. CASE b = frontBlock
    <3>1. i \in Nat /\ Count(b) \in Nat /\ Count(b) < size[b]
      BY Basics, TailSlot
    <3>2. front'[b] = Succ(b, front[b]) /\ Count(b)' = Count(b) - 1 /\ size' = size
      BY <1>1, <1>3, <1>4, <2>2
    <3>3. i < size[b] =>
            IF i = front[b]
              THEN Dist(b, front'[b], i) = size[b] - 1
              ELSE Dist(b, front'[b], i) = Dist(b, front[b], i) - 1
      BY <3>1, <3>2, BlockFacts DEF Dist, Succ
    <3>4. Dist(b, front[b], i)' = Dist(b, front'[b], i)
      BY <3>2 DEF Dist
    <3>5. i < size[b] => Dist(b, front[b], i) \in Nat
      BY <3>1, TailSlot
    <3>6. Occupied(b, i)' <=> i < size[b] /\ Dist(b, front'[b], i) < Count(b) - 1
      BY <3>2, <3>4 DEF Occupied
    <3>7. size[b] \in Nat
      BY BlockFacts
    <3> QED
      BY <2>2, <3>1, <3>3, <3>4, <3>5, <3>6, <3>7 DEF Occupied
  <2> QED
    BY <2>1, <2>2
<1>7. \A b, i : ~Destroying(b, i)' /\ (Destroying(b, i) <=> b = frontBlock /\ i = front[b])
  BY <1>1 DEF Destroying
<1>8. \A b \in Block : \A i \in Slot : Pending(b, i)' <=> Pending(b, i)
  <2>1. ppc = "advance" => pblock # frontBlock /\ pblock \in Block
    BY Basics DEF Ring, ProducerAt, Shape
  <2>2. ppc = "link" => pblock # frontBlock /\ pblock \in Block
    <3> SUFFICES ASSUME ppc = "link" PROVE pblock # frontBlock /\ pblock \in Block
      OBVIOUS
    <3>1. pblock = blocks /\ frontBlock \in 1..(blocks - 1)
      BY DEF Shape, Linked
    <3> QED
      BY <3>1, Basics
  <2> QED
    BY <1>1, <1>3, <2>1, <2>2 DEF Pending
<1>9. Filled'
  <2>1. ASSUME NEW b \in 1..blocks, NEW i \in Slot, Occupied(b, i)'
        PROVE  data[b][i] = Oldest(b)' + Dist(b, front[b], i)'
    <3>1. CASE b # frontBlock
      BY <1>5, <1>6, <1>7, <2>1, <3>1, Basics DEF Cells, Filled
    <3>2. CASE b = frontBlock
      <4>1. Occupied(b, i) /\ ~Destroying(b, i)
        BY <1>6, <1>7, <2>1, <3>2
      <4>2. data[b][i] = Oldest(b) + Dist(b, front[b], i)
        BY <4>1 DEF Cells, Filled
      <4>3. Dist(b, front[b], i)' = Dist(b, front[b], i) - 1
        BY <1>6, <2>1, <3>2
      <4>4. Dist(b, front[b], i) \in Nat
        BY <4>1, TailSlot, Basics DEF Occupied
      <4>5. Oldest(b) = dequeued + 1 /\ Oldest(b)' = dequeued + 2
        BY <1>1, <1>5, <3>2
      <4> QED
        BY <4>2, <4>3, <4>4, <4>5, CellTypes
    <3> QED
      BY <3>1, <3>2
  <2>2. ASSUME NEW b \in Linked, ~Free(b)', b # LastBlock
        PROVE  (Oldest(next[b]))' = Oldest(b)' + Count(b)'
    <3>1. ~Free(b) /\ b \in Block
      BY <1>2, <1>5, <2>2, Basics
    <3>2. next[b] # frontBlock /\ next[b] \in Block
      BY <2>2, <3>1, Basics DEF Ring, Circle, Shape
    <3>3. (Oldest(next[b]))' = Oldest(next[b])
      BY <1>1, <1>3, <3>2 DEF Oldest
    <3>4. Oldest(next[b]) = Oldest(b) + Count(b)
      BY <2>2, <3>1 DEF Cells, Filled
    <3> QED
      BY <1>1, <1>5, <3>1, <3>3, <3>4
  <2>3. (Oldest(LastBlock) + Count(LastBlock))' = Oldest(LastBlock) + Count(LastBlock)
    <3>1. LastBlock \in Block
      BY Basics DEF LastBlock, Shape
    <3>2. Oldest(LastBlock)' + Count(LastBlock)' = Oldest(LastBlock) + Count(LastBlock)
      <4>1. CASE LastBlock = frontBlock
        BY <1>1, <1>2, <1>5, <4>1 DEF Oldest, Count, Dist
      <4>2. CASE LastBlock # frontBlock
        BY <1>1, <1>2, <1>3, <3>1, <4>2 DEF Oldest, Count, Dist
      <4> QED
        BY <4>1, <4>2
    <3> QED
      BY <3>2
  <2> QED
    BY <1>1, <1>2, <2>1, <2>2, <2>3 DEF Cells, Filled
<1>10. Numbers'
  <2>1. dequeued' <= enqueued' /\ Element' = Element /\ data' = data
    BY <1>1, CellTypes DEF Element
  <2>2. \A b \in Block : \A i \in Slot :
          IF Pending(b, i) THEN data[b][i] = Element ELSE data[b][i] <= enqueued
    BY DEF Cells, Numbers
  <2> QED
    BY <1>1, <1>8, <2>1, <2>2, SMTT(20) DEF Numbers
<1>11. RawStorage'
  <2>1. \A b \in Block : b <= blocks => b \in 1..blocks
    BY Basics
  <2>2. ASSUME NEW b \in Block, NEW i \in Slot, data[b][i] # 0
        PROVE  b <= blocks /\ (Occupied(b, i)' \/ Pending(b, i)')
    <3>1. /\ b <= blocks /\ ~Destroying(b, i)
          /\ Occupied(b, i) \/ Pending(b, i)
      BY <2>2 DEF Cells, RawStorage
    <3>2. b \in 1..blocks
      BY <2>1, <3>1
    <3>3. Occupied(b, i) => Occupied(b, i)'
      BY <1>6, <1>7, <3>1, <3>2
    <3>4. Pending(b, i) => Pending(b, i)'
      BY <1>8
    <3> QED
      BY <3>1, <3>3, <3>4
  <2> QED
    BY <1>1, <1>7, <2>2 DEF RawStorage
<1>12. Request'
  BY <1>1 DEF Request
<1> QED
  BY <1>9, <1>10, <1>11, <1>12 DEF Cells

-----------------------------------------------------------------------------
(* The invariant *)

LEMMA CellsStep ==
  TypeOK /\ Shape /\ Ring /\ Cells /\ Request /\ [Next]_vars => Cells' /\ Request'
<1> SUFFICES ASSUME TypeOK, Shape, Ring, Cells, Request, [Next]_vars
             PROVE  Cells' /\ Request'
  OBVIOUS
<1>1. CASE Enqueue \/ TryEnqueue \/ InnerEnqueue
  BY <1>1, CellsLocalProducer, CellsConstruct, CellsPublishTail, CellsPublishNext,
     CellsMakeBlock, CellsLinkBlock, CellsAdvanceTailBlock DEF InnerEnqueue
<1>2. CASE TryDequeue \/ Pop \/ Peek \/ InnerDequeue
  BY <1>2, CellsLocalConsumer, CellsAdvanceFrontBlock, CellsDestroy,
     CellsAdvanceFront DEF InnerDequeue
<1>3. CASE Sizing \/ UNCHANGED vars
  <2>1. UNCHANGED <<frontBlock, tailBlock, blockVars, prodVars, consVars>>
    BY <1>3 DEF Sizing, SizeApprox, CountBlock, StepBlock, vars
  <2>2. Cells'
    BY <2>1, CellsKept DEF blockVars, prodVars, consVars
  <2> QED
    BY <2>1, <2>2 DEF blockVars, prodVars, consVars, Request
<1> QED
  BY <1>1, <1>2, <1>3 DEF Next

\* The three layers together, and what the consumer knows, are inductive.
THEOREM Invariant == Spec => []IInv
<1>1. Init => IInv
  BY ShapeInit, RingInit, CellsInit DEF IInv
<1>2. IInv /\ [Next]_vars => IInv'
  BY ShapeStep, RingStep, CellsStep DEF IInv
<1> QED
  BY <1>1, <1>2, PTL DEF Spec

\* No element is constructed over another that is still alive.
THEOREM RawStorageCorrect == Spec => []ConstructsInRawStorage
<1>1. IInv => ConstructsInRawStorage
  <2> SUFFICES ASSUME IInv PROVE ConstructsInRawStorage
    OBVIOUS
  <2> USE DEF IInv
  <2>1. ASSUME NEW b \in 1..blocks, \A i \in Slot : ~Pending(b, i)
        PROVE  data[b][tail[b]] = 0
    BY <2>1, TailSlot, Basics DEF Cells, RawStorage
  <2>2. ppc = "construct" => data[tailBlock][tail[tailBlock]] = 0
    BY <2>1, Basics DEF Pending
  <2>3. ppc = "constructNext" => data[pblock][tail[pblock]] = 0
    BY <2>1, Basics DEF Pending, Shape
  <2> QED
    BY <2>2, <2>3 DEF ConstructsInRawStorage
<1> QED
  BY <1>1, Invariant, PTL

-----------------------------------------------------------------------------
(* Layer 4: one circle, and how much it holds *)

LinkedCount == IF ppc = "link" THEN blocks - 1 ELSE blocks

\* A numbering of the blocks along the circle.
Ranking(r) ==
    /\ r \in [Linked -> 0..(LinkedCount - 1)]
    /\ \A b \in Linked :
         r[next[b]] = IF r[b] = LinkedCount - 1 THEN 0 ELSE r[b] + 1
    /\ \A k \in 0..(LinkedCount - 1) : \E b \in Linked : r[b] = k
    /\ \A b, c \in Linked : r[b] = r[c] => b = c

OneCircle == \E r : Ranking(r)

\* No block is smaller than the constructor's, nor are there fewer.
Large ==
    /\ LinkedCount >= InitialBlockCount
    /\ largestBlockSize >= InitialBlockSize
    /\ \A b \in 1..blocks : size[b] >= InitialBlockSize

Full(b) == Count(b) = size[b] - 1

\* The producer found its block full and has not moved on yet.
LookedAhead == ppc \in {"checkNext", "loadNext", "constructNext", "publishNext",
                        "alloc", "link"}

\* The blocks that are neither the first nor the last one are full, and so is
\* the tail block once the producer has looked for another.
Packed ==
    /\ \A b \in Linked : ~Free(b) /\ b # LastBlock /\ b # frontBlock => Full(b)
    /\ LookedAhead /\ tailBlock # frontBlock => Full(tailBlock)

\* What the producer's call found: unless it found MaxSize elements there are
\* fewer now, and it does not ask for memory.
Asked ==
    /\ ppc # "idle" /\ ~wasFull => QueueSize < MaxSize
    /\ ppc = "checkNext" /\ next[tailBlock] = tailBlock => wasFull
    /\ ppc = "alloc" => wasFull

Capacity == OneCircle /\ Large /\ Packed /\ Asked

-----------------------------------------------------------------------------
(* Arithmetic *)

\* Every set of natural numbers that is not empty has a least element.
LEMMA Least ==
  ASSUME NEW S, S \subseteq Nat, S # {}
  PROVE  \E m \in S : \A k \in S : m <= k
<1> DEFINE R == OpToRel(<, Nat)
<1>1. IsWellFoundedOn(R, Nat)
  BY NatLessThanWellFounded
<1> HIDE DEF R
<1>2. PICK m \in S : \A k \in S : ~ (<<k, m>> \in R)
  BY <1>1, WFMin
<1>3. ASSUME NEW k \in S PROVE m <= k
  <2>1. k \in Nat /\ m \in Nat
    OBVIOUS
  <2>2. k < m => <<k, m>> \in R
    BY <2>1 DEF R, OpToRel
  <2>3. ~(k < m)
    BY <1>2, <2>2
  <2> QED
    BY <2>1, <2>3
<1> QED
  BY <1>3

LEMMA ProductGrows ==
  ASSUME NEW m \in Nat, NEW n \in Nat, m <= n, NEW k \in Nat
  PROVE  m * k <= n * k /\ (m + 1) * k = m * k + k /\ m * k \in Nat
  OBVIOUS

LEMMA QuotientIsLarge ==
  ASSUME NEW a \in Nat, NEW d \in Nat \ {0}
  PROVE  a \div d \in Nat /\ (a \div d) * d > a - d
  OBVIOUS

\* What the constructor reserves: several blocks that hold MaxSize elements
\* without one of them, or one that holds them all.
LEMMA Reserved ==
  /\ MaxSize \in Nat /\ MaxSize >= 1
  /\ InitialBlockSize \in Nat /\ InitialBlockSize >= 2
  /\ InitialBlockCount \in Nat /\ InitialBlockCount >= 1
  /\ \/ InitialBlockSize - 1 >= MaxSize
     \/ /\ InitialBlockCount >= 2
        /\ (InitialBlockCount - 1) * (InitialBlockSize - 1) >= MaxSize
<1> USE ConstructorAssumption DEF ConstructorAssumption
<1>1. /\ MaxSize \in Nat /\ MaxSize >= 1
      /\ InitialBlockSize \in Nat /\ InitialBlockSize >= 2
      /\ InitialBlockCount \in Nat /\ InitialBlockCount >= 1
      /\ MAX_BLOCK_SIZE \in Nat /\ MAX_BLOCK_SIZE >= 2
  OBVIOUS
<1>2. ASSUME ~ManyBlocks PROVE InitialBlockSize - 1 >= MaxSize
  <2>1. InitialBlockSize = CeilPow2(MaxSize + 1)
    BY <1>2 DEF InitialBlockSize
  <2> QED
    BY <1>1, <2>1, CeilAssumption DEF CeilAssumption
<1>3. ASSUME ManyBlocks
      PROVE  /\ InitialBlockCount >= 2
             /\ (InitialBlockCount - 1) * (InitialBlockSize - 1) >= MaxSize
  <2>1. PICK d \in Nat : d = MAX_BLOCK_SIZE - 1
    BY <1>1
  <2>2. PICK n \in Nat : n = InitialBlockCount
    BY <1>1
  <2>3. PICK a \in Nat : a = MaxSize + 2 * MAX_BLOCK_SIZE - 3
    BY <1>1
  <2>4. n = a \div d
    BY <1>3, <2>1, <2>2, <2>3 DEF InitialBlockCount
  <2>5. n * d > a - d
    <3>1. d \in Nat \ {0}
      BY <1>1, <2>1
    <3> QED
      BY <2>4, <3>1, QuotientIsLarge
  <2>6. a = MaxSize + d + d - 1
    BY <1>1, <2>1, <2>3
  <2>7. n # 1
    BY <1>1, <2>1, <2>5, <2>6
  <2>8. n >= 2 /\ n = (n - 1) + 1 /\ n - 1 \in Nat
    BY <1>1, <2>2, <2>7
  <2>9. n * d = (n - 1) * d + d /\ (n - 1) * d \in Nat
    BY <2>8, ProductGrows
  <2>10. (n - 1) * d >= MaxSize
    BY <1>1, <2>5, <2>6, <2>9
  <2>11. InitialBlockSize - 1 = d
    BY <1>3, <2>1 DEF InitialBlockSize
  <2> QED
    BY <2>2, <2>8, <2>10, <2>11
<1> QED
  BY <1>1, <1>2, <1>3

-----------------------------------------------------------------------------
(* The circle *)

LEMMA LinkedFacts ==
  ASSUME TypeOK, Shape
  PROVE  /\ LinkedCount \in Nat /\ LinkedCount >= 1 /\ Linked = 1..LinkedCount
         /\ LinkedCount <= blocks
<1>1. LinkedCount \in Int /\ Linked = 1..LinkedCount /\ LinkedCount <= blocks
  BY Basics DEF LinkedCount, Linked
<1> QED
  BY <1>1, Basics

\* The circle may be numbered from any block of it.
LEMMA RankingFrom ==
  ASSUME TypeOK, Shape, OneCircle, NEW o \in Linked
  PROVE  \E r : Ranking(r) /\ r[o] = 0
<1>1. PICK r : Ranking(r)
  BY DEF OneCircle
<1> DEFINE n == LinkedCount
           s == [b \in Linked |-> IF r[b] >= r[o] THEN r[b] - r[o] ELSE r[b] + n - r[o]]
<1>2. n \in Nat /\ n >= 1
  BY LinkedFacts
<1>3. /\ \A b \in Linked : next[b] \in Linked /\ r[b] \in 0..(n - 1)
      /\ \A b \in Linked : r[next[b]] = IF r[b] = n - 1 THEN 0 ELSE r[b] + 1
      /\ \A k \in 0..(n - 1) : \E b \in Linked : r[b] = k
      /\ \A b, c \in Linked : r[b] = r[c] => b = c
  BY <1>1 DEF Ranking, Shape
<1> HIDE DEF n
<1>4. s \in [Linked -> 0..(n - 1)]
  BY <1>2, <1>3
<1>5. \A b \in Linked : s[next[b]] = IF s[b] = n - 1 THEN 0 ELSE s[b] + 1
  BY <1>2, <1>3
<1>6. ASSUME NEW k \in 0..(n - 1) PROVE \E b \in Linked : s[b] = k
  <2>1. PICK m \in 0..(n - 1) : m = IF k + r[o] < n THEN k + r[o] ELSE k + r[o] - n
    BY <1>2, <1>3
  <2>2. PICK b \in Linked : r[b] = m
    BY <1>3
  <2> QED
    BY <1>2, <1>3, <2>1, <2>2
<1>7. ASSUME NEW b \in Linked, NEW c \in Linked, s[b] = s[c] PROVE b = c
  <2>1. r[b] = r[c]
    BY <1>2, <1>3, <1>7
  <2> QED
    BY <1>3, <2>1
<1>8. s[o] = 0
  BY <1>3
<1> HIDE DEF s
<1> QED
  BY <1>4, <1>5, <1>6, <1>7, <1>8 DEF Ranking, n

LEMMA CircleInit == Init => OneCircle
<1> SUFFICES ASSUME Init PROVE OneCircle
  OBVIOUS
<1>1. TypeOK /\ Shape
  BY ShapeInit
<1> DEFINE n == LinkedCount
           r == [b \in Linked |-> b - 1]
<1>2. n \in Nat /\ n >= 1 /\ Linked = 1..n /\ n = InitialBlockCount
  BY <1>1, LinkedFacts DEF Init, LinkedCount
<1>3. \A b \in Linked : next[b] = IF b < n THEN b + 1 ELSE 1
  BY <1>1, <1>2, Basics DEF Init
<1> HIDE DEF n
<1>4. r \in [Linked -> 0..(n - 1)]
  BY <1>2
<1>5. \A b \in Linked : r[next[b]] = IF r[b] = n - 1 THEN 0 ELSE r[b] + 1
  BY <1>2, <1>3
<1>6. ASSUME NEW k \in 0..(n - 1) PROVE \E b \in Linked : r[b] = k
  <2>1. k + 1 \in Linked /\ r[k + 1] = k
    BY <1>2
  <2> QED
    BY <2>1
<1>7. \A b, c \in Linked : r[b] = r[c] => b = c
  BY <1>2
<1> HIDE DEF r
<1> QED
  BY <1>4, <1>5, <1>6, <1>7 DEF OneCircle, Ranking, n

\* Linking the new block lengthens the circle by one.
LEMMA CircleLinkBlock ==
  ASSUME TypeOK, Shape, OneCircle, LinkBlock
  PROVE  OneCircle'
<1>1. PICK r : Ranking(r)
  BY DEF OneCircle
<1> DEFINE n == LinkedCount
           at == r[tailBlock]
           s == [b \in Linked' |-> IF b = pblock THEN at + 1
                                  ELSE IF r[b] <= at THEN r[b] ELSE r[b] + 1]
<1>2. /\ n \in Nat /\ n >= 1 /\ Linked = 1..n /\ LinkedCount' = n + 1
      /\ Linked' = Linked \cup {pblock} /\ pblock \notin Linked
      /\ tailBlock \in Linked /\ pblock \in Block
      /\ ppc' = "advance" /\ blocks' = blocks /\ ppc = "link"
  <2>1. /\ ppc = "link" /\ ppc' = "advance" /\ pblock = blocks /\ blocks' = blocks
    BY DEF LinkBlock, Shape, blockVars
  <2>2. Linked = 1..(blocks - 1) /\ Linked' = 1..blocks /\ blocks \in Nat
    BY <2>1, Basics DEF Linked
  <2>3. n = blocks - 1 /\ LinkedCount' = blocks
    BY <2>1 DEF LinkedCount
  <2> QED
    BY <2>1, <2>2, <2>3, LinkedFacts, Basics
<1>3. /\ \A b \in Linked : next[b] \in Linked /\ r[b] \in 0..(n - 1)
      /\ \A b \in Linked : r[next[b]] = IF r[b] = n - 1 THEN 0 ELSE r[b] + 1
      /\ \A k \in 0..(n - 1) : \E b \in Linked : r[b] = k
      /\ \A b, c \in Linked : r[b] = r[c] => b = c
      /\ at \in 0..(n - 1)
  BY <1>1, <1>2 DEF Ranking, Shape
<1>4. /\ next'[pblock] = next[tailBlock]
      /\ next'[tailBlock] = pblock
      /\ \A b \in Linked \ {tailBlock} : next'[b] = next[b]
  BY <1>2, Basics DEF LinkBlock, TypeOK
<1> HIDE DEF n
<1>5. /\ s \in [Linked' -> 0..n]
      /\ s[pblock] = at + 1
      /\ \A b \in Linked : s[b] = IF r[b] <= at THEN r[b] ELSE r[b] + 1
  <2>1. s \in [Linked' -> 0..n]
    BY <1>2, <1>3, SMTT(20)
  <2>2. s[pblock] = at + 1
    BY <1>2
  <2>3. \A b \in Linked : s[b] = IF r[b] <= at THEN r[b] ELSE r[b] + 1
    BY <1>2
  <2> QED
    BY <2>1, <2>2, <2>3
<1>6. /\ r[next[tailBlock]] = IF at = n - 1 THEN 0 ELSE at + 1
      /\ n \in Nat /\ n >= 1 /\ at \in 0..(n - 1)
  <2>1. \A b \in Linked : r[next[b]] = IF r[b] = n - 1 THEN 0 ELSE r[b] + 1
    BY <1>3
  <2>2. at \in 0..(n - 1)
    BY <1>3
  <2> QED
    BY <1>2, <2>1, <2>2
<1> HIDE DEF s, at
<1>7. ASSUME NEW b \in Linked'
      PROVE  s[next'[b]] = IF s[b] = n THEN 0 ELSE s[b] + 1
  <2>1. CASE b = pblock
    <3>1. next'[b] = next[tailBlock] /\ next[tailBlock] \in Linked
      BY <1>2, <1>3, <1>4, <2>1
    <3>2. s[next'[b]] = IF at = n - 1 THEN 0 ELSE at + 2
      <4>1. s[next'[b]] = IF r[next[tailBlock]] <= at
                            THEN r[next[tailBlock]] ELSE r[next[tailBlock]] + 1
        BY <1>5, <3>1
      <4> QED
        BY <1>6, <4>1
    <3>3. s[b] = at + 1
      BY <1>5, <2>1
    <3> QED
      BY <1>6, <3>2, <3>3
  <2>2. CASE b = tailBlock
    BY <1>2, <1>3, <1>4, <1>5, <2>2 DEF at
  <2>3. CASE b \in Linked \ {tailBlock}
    <3>1. r[b] # at /\ next'[b] = next[b] /\ next[b] \in Linked /\ r[b] \in 0..(n - 1)
      BY <1>2, <1>3, <1>4, <2>3 DEF at
    <3>2. r[next[b]] = IF r[b] = n - 1 THEN 0 ELSE r[b] + 1
      BY <1>3, <2>3
    <3>3. s[next[b]] = IF r[next[b]] <= at THEN r[next[b]] ELSE r[next[b]] + 1
      BY <1>5, <3>1
    <3>4. s[b] = IF r[b] <= at THEN r[b] ELSE r[b] + 1
      BY <1>5, <2>3
    <3> QED
      BY <1>6, <3>1, <3>2, <3>3, <3>4
  <2> QED
    BY <1>2, <2>1, <2>2, <2>3
<1>8. ASSUME NEW k \in 0..n PROVE \E b \in Linked' : s[b] = k
  <2>1. CASE k = at + 1
    BY <1>2, <1>5, <2>1
  <2>2. CASE k # at + 1
    <3>1. PICK m \in 0..(n - 1) : m = IF k <= at THEN k ELSE k - 1
      BY <1>2, <1>3, <2>2
    <3>2. PICK b \in Linked : r[b] = m
      BY <1>3
    <3>3. s[b] = IF m <= at THEN m ELSE m + 1
      BY <1>5, <3>2
    <3>4. s[b] = k
      BY <1>2, <1>3, <2>2, <3>1, <3>3
    <3> QED
      BY <1>2, <3>4
  <2> QED
    BY <2>1, <2>2
<1>9. ASSUME NEW b \in Linked', NEW c \in Linked', s[b] = s[c] PROVE b = c
  <2>1. \A x \in Linked : s[x] # at + 1
    <3> SUFFICES ASSUME NEW x \in Linked PROVE s[x] # at + 1
      OBVIOUS
    <3>1. r[x] \in 0..(n - 1) /\ s[x] = IF r[x] <= at THEN r[x] ELSE r[x] + 1
      BY <1>3, <1>5
    <3> QED
      BY <1>2, <1>3, <3>1
  <2>2. CASE b = pblock \/ c = pblock
    BY <1>2, <1>5, <1>9, <2>1, <2>2
  <2>3. CASE b \in Linked /\ c \in Linked
    <3>1. /\ r[b] \in 0..(n - 1) /\ s[b] = IF r[b] <= at THEN r[b] ELSE r[b] + 1
          /\ r[c] \in 0..(n - 1) /\ s[c] = IF r[c] <= at THEN r[c] ELSE r[c] + 1
      BY <1>3, <1>5, <2>3
    <3>2. PICK x \in Int, y \in Int : x = r[b] /\ y = r[c]
      BY <1>6, <3>1
    <3>3. PICK z \in Int : z = at
      BY <1>6
    <3>4. (IF x <= z THEN x ELSE x + 1) = (IF y <= z THEN y ELSE y + 1)
      BY <1>9, <3>1, <3>2, <3>3
    <3>5. r[b] = r[c]
      BY <3>2, <3>4
    <3> QED
      BY <1>3, <2>3, <3>5
  <2> QED
    BY <1>2, <2>2, <2>3
<1>10. LinkedCount' - 1 = n
  BY <1>2
<1> QED
  BY <1>5, <1>7, <1>8, <1>9, <1>10 DEF OneCircle, Ranking

\* Only LinkBlock changes the circle.
LEMMA CircleStep ==
  ASSUME TypeOK, Shape, OneCircle, [Next]_vars
  PROVE  OneCircle'
<1> USE DEF blockVars, prodVars, consVars, sizeVars
<1>1. CASE LinkBlock
  BY <1>1, CircleLinkBlock
<1>2. CASE ~LinkBlock
  <2>1. next' = next /\ LinkedCount' = LinkedCount /\ Linked' = Linked
    <3>1. CASE Enqueue \/ TryEnqueue \/ InnerEnqueue
      <4>1. CASE MakeBlock
        BY <4>1, Basics DEF MakeBlock, LinkedCount, Linked
      <4>2. CASE ~MakeBlock
        <5>1. next' = next /\ blocks' = blocks /\ ppc # "link" /\ ppc' # "link"
          BY <1>2, <3>1, <4>2 DEF Enqueue, TryEnqueue, BeginEnqueue, InnerEnqueue,
             LoadFront, Construct, PublishTail, CheckNext, LoadNext, ConstructNext,
             PublishNext, MallocFails, AdvanceTailBlock
        <5> QED
          BY <5>1 DEF LinkedCount, Linked
      <4> QED
        BY <4>1, <4>2
    <3>2. CASE TryDequeue \/ Pop \/ Peek \/ InnerDequeue
      BY <3>2 DEF TryDequeue, Pop, Peek, BeginDequeue, InnerDequeue, LoadTail,
         ReloadTail, RefreshLocalTail, CheckTailBlock, FollowNext, LoadNextTail,
         AdvanceFrontBlock, ReadElement, ReadNext, AdvanceFront, LinkedCount, Linked
    <3>3. CASE Sizing \/ UNCHANGED vars
      BY <3>3 DEF Sizing, SizeApprox, CountBlock, StepBlock, vars, LinkedCount, Linked
    <3> QED
      BY <3>1, <3>2, <3>3 DEF Next
  <2> QED
    BY <2>1 DEF OneCircle, Ranking
<1> QED
  BY <1>1, <1>2

LEMMA LargeInit == Init => Large
<1> SUFFICES ASSUME Init PROVE Large
  OBVIOUS
<1>1. TypeOK /\ Shape
  BY ShapeInit
<1>2. \A b \in 1..blocks : b \in Block /\ b <= InitialBlockCount
  BY <1>1, Basics DEF Init
<1> QED
  BY <1>2, Reserved DEF Init, Large, LinkedCount

\* A new block is at least as large as the largest one so far.
LEMMA LargeStep ==
  ASSUME TypeOK, Shape, Large, [Next]_vars
  PROVE  Large'
<1> USE DEF blockVars, prodVars, consVars, sizeVars
<1>1. CASE MakeBlock
  <2>1. /\ ppc = "alloc" /\ ppc' = "link" /\ blocks' = blocks + 1 /\ blocks \in Nat
        /\ blocks + 1 \in Block
    BY <1>1, Basics DEF MakeBlock
  <2>2. LinkedCount' = LinkedCount
    BY <2>1 DEF LinkedCount
  <2>3. largestBlockSize \in Nat /\ InitialBlockSize \in Nat
    BY SlotLimitFacts, Reserved DEF TypeOK
  <2>4. largestBlockSize' >= InitialBlockSize
    BY <1>1, <2>3 DEF MakeBlock, Large
  <2>5. \A b \in Block : size'[b] = IF b = blocks + 1 THEN largestBlockSize' ELSE size[b]
    BY <1>1, <2>1 DEF MakeBlock, TypeOK
  <2>6. \A b \in 1..blocks' : b \in Block /\ (b = blocks + 1 \/ b \in 1..blocks)
    BY <2>1, Basics
  <2> QED
    BY <2>2, <2>4, <2>5, <2>6 DEF Large
<1>2. CASE LinkBlock
  <2>1. LinkedCount' = LinkedCount + 1 /\ LinkedCount \in Nat
    BY <1>2, Basics, LinkedFacts DEF LinkBlock, LinkedCount
  <2> QED
    BY <1>2, <2>1, Reserved DEF LinkBlock, Large
<1>3. CASE ~MakeBlock /\ ~LinkBlock
  <2>1. UNCHANGED <<blocks, size, largestBlockSize, LinkedCount>>
    <3>1. CASE Enqueue \/ TryEnqueue \/ InnerEnqueue
      BY <1>3, <3>1 DEF Enqueue, TryEnqueue, BeginEnqueue, InnerEnqueue,
             LoadFront, Construct, PublishTail, CheckNext, LoadNext, ConstructNext,
             PublishNext, MallocFails, AdvanceTailBlock, LinkedCount
    <3>2. CASE TryDequeue \/ Pop \/ Peek \/ InnerDequeue
      BY <3>2 DEF TryDequeue, Pop, Peek, BeginDequeue, InnerDequeue, LoadTail,
         ReloadTail, RefreshLocalTail, CheckTailBlock, FollowNext, LoadNextTail,
         AdvanceFrontBlock, ReadElement, ReadNext, AdvanceFront, LinkedCount
    <3>3. CASE Sizing \/ UNCHANGED vars
      BY <3>3 DEF Sizing, SizeApprox, CountBlock, StepBlock, vars, LinkedCount
    <3> QED
      BY <3>1, <3>2, <3>3 DEF Next
  <2> QED
    BY <2>1 DEF Large
<1> QED
  BY <1>1, <1>2, <1>3

-----------------------------------------------------------------------------
(* How much the circle holds *)

\* Counted from the front block, whatever lies before the n-th block of the
\* queue is at least n - 1 full blocks.
LEMMA FullBlocksBefore ==
  ASSUME IInv, Large, Packed, NEW r, Ranking(r), r[frontBlock] = 0,
         NEW b \in Linked, ~Free(b), b # frontBlock
  PROVE  /\ r[b] \in Nat /\ r[b] >= 1
         /\ Oldest(b) >= dequeued + 1 + (r[b] - 1) * (InitialBlockSize - 1)
<1> USE DEF IInv
<1> DEFINE k == InitialBlockSize - 1
           n == LinkedCount
           Bad(c) == /\ c \in Linked /\ ~Free(c) /\ c # frontBlock
                     /\ ~(Oldest(c) >= dequeued + 1 + (r[c] - 1) * k)
           S == {r[c] : c \in {x \in Linked : Bad(x)}}
<1>1. k \in Nat /\ n \in Nat /\ n >= 1 /\ frontBlock \in Linked /\ dequeued \in Nat
  <2>1. k \in Nat
    BY Reserved
  <2>2. n \in Nat /\ n >= 1
    BY LinkedFacts
  <2>3. frontBlock \in Linked /\ dequeued \in Nat
    BY Basics, CellTypes
  <2> QED
    BY <2>1, <2>2, <2>3
<1>2. /\ \A c \in Linked : r[c] \in 0..(n - 1)
      /\ \A c \in Linked : r[next[c]] = IF r[c] = n - 1 THEN 0 ELSE r[c] + 1
      /\ \A m \in 0..(n - 1) : \E c \in Linked : r[c] = m
      /\ \A c, d \in Linked : r[c] = r[d] => c = d
      /\ \A c \in Linked : next[c] \in Linked
  BY DEF Ranking, Shape
<1>3. \A c \in Linked : r[c] \in Nat /\ (c # frontBlock => r[c] >= 1)
  BY <1>1, <1>2
<1> HIDE DEF k, n
<1>4. ASSUME NEW c \in Linked, Bad(c)
      PROVE  \E p \in Linked : Bad(p) /\ r[p] < r[c]
  <2>1. PICK p \in Linked : r[p] = r[c] - 1
    BY <1>1, <1>2, <1>3, <1>4
  <2>2. next[p] = c
    <3>1. r[next[p]] = r[c]
      BY <1>1, <1>2, <1>3, <1>4, <2>1
    <3> QED
      BY <1>2, <3>1
  <2>3. ~Free(p) /\ p # LastBlock
    BY <1>4, <2>2 DEF Ring, Circle, Free
  <2>4. Oldest(c) = Oldest(p) + Count(p)
    BY <2>2, <2>3 DEF Cells, Filled
  <2>5. p \in 1..blocks /\ p \in Block
    BY Basics
  <2>6. /\ Oldest(p) \in Nat /\ Oldest(c) \in Nat /\ Count(p) \in Nat
        /\ r[c] \in Nat /\ r[p] \in Nat
    BY <1>3, <2>5, CellTypes, TailSlot, Basics
  <2>7. p # frontBlock
    <3> SUFFICES ASSUME p = frontBlock PROVE FALSE
      OBVIOUS
    <3>1. r[c] - 1 = 0 /\ Oldest(p) = dequeued + 1
      BY <2>1 DEF Oldest
    <3>2. (r[c] - 1) * k = 0
      BY <1>1, <3>1
    <3> QED
      BY <1>1, <1>4, <2>4, <2>6, <3>1, <3>2
  <2>8. Count(p) >= k
    <3>1. Count(p) = size[p] - 1 /\ size[p] >= InitialBlockSize
      BY <2>3, <2>5, <2>7 DEF Packed, Large, Full
    <3> QED
      BY <2>5, <3>1, BlockFacts, Reserved DEF k
  <2>9. PICK m \in Nat : m = r[p] - 1
    BY <1>3, <2>7
  <2>10. (r[c] - 1) * k = m * k + k /\ m * k \in Nat
    <3>1. r[c] - 1 = m + 1
      BY <2>1, <2>6, <2>9
    <3> QED
      BY <1>1, <3>1, ProductGrows
  <2>11. ~(Oldest(p) >= dequeued + 1 + m * k)
    BY <1>1, <1>4, <2>4, <2>6, <2>8, <2>10
  <2>12. Bad(p)
    BY <2>3, <2>7, <2>9, <2>11
  <2> QED
    BY <2>1, <2>6, <2>12
<1>5. ~Bad(b)
  <2> SUFFICES ASSUME Bad(b) PROVE FALSE
    OBVIOUS
  <2> HIDE DEF Bad
  <2>1. S \subseteq Nat /\ S # {}
    BY <1>3
  <2>2. PICK m \in S : \A j \in S : m <= j
    BY <2>1, Least
  <2>3. PICK c \in Linked : Bad(c) /\ r[c] = m
    OBVIOUS
  <2>4. PICK p \in Linked : Bad(p) /\ r[p] < r[c]
    BY <1>4, <2>3
  <2>5. m <= r[p] /\ r[p] \in Nat /\ r[c] \in Nat
    BY <1>3, <2>2, <2>4
  <2> QED
    BY <2>3, <2>4, <2>5
<1> QED
  BY <1>3, <1>5 DEF k

\* The producer finds the front block after its own, full, tail block: the
\* circle holds no free block, and as many elements as were asked for.
LEMMA CircleIsFull ==
  ASSUME IInv, OneCircle, Large, Packed, ppc = "checkNext",
         next[tailBlock] = frontBlock, tailBlock # frontBlock
  PROVE  QueueSize >= MaxSize
<1> USE DEF IInv
<1>1. /\ tailBlock \in Linked /\ frontBlock \in Linked /\ tailBlock \in 1..blocks
      /\ LastBlock = tailBlock /\ ~Free(tailBlock)
  BY Basics DEF LastBlock, Ring, Circle
<1>2. PICK r : Ranking(r) /\ r[frontBlock] = 0
  BY <1>1, RankingFrom
<1>3. PICK n \in Nat : n = LinkedCount /\ n >= 1
  BY LinkedFacts
<1>4. PICK k \in Nat : k = InitialBlockSize - 1
  BY Reserved
<1>5. r[tailBlock] = n - 1
  <2>1. r[tailBlock] \in 0..(n - 1)
    BY <1>1, <1>2, <1>3 DEF Ranking
  <2>2. r[next[tailBlock]] = IF r[tailBlock] = n - 1 THEN 0 ELSE r[tailBlock] + 1
    BY <1>1, <1>2, <1>3 DEF Ranking
  <2> QED
    BY <1>2, <1>3, <2>1, <2>2
<1>6. n - 1 >= 1 /\ Oldest(tailBlock) >= dequeued + 1 + (n - 2) * k
  <2>1. /\ r[tailBlock] >= 1
        /\ Oldest(tailBlock) >= dequeued + 1 + (r[tailBlock] - 1) * (InitialBlockSize - 1)
    BY <1>1, <1>2, FullBlocksBefore
  <2>2. (n - 1) - 1 = n - 2
    BY <1>3
  <2> QED
    BY <1>4, <1>5, <2>1, <2>2
<1>7. /\ Oldest(tailBlock) + Count(tailBlock) = enqueued + 1
      /\ Oldest(tailBlock) \in Nat /\ Count(tailBlock) \in Nat
      /\ enqueued \in Nat /\ dequeued \in Nat
  <2>1. Oldest(tailBlock) + Count(tailBlock) = enqueued + 1 + 0
    BY <1>1 DEF Cells, Filled
  <2>2. Oldest(tailBlock) \in Nat /\ dequeued \in Nat
    BY <1>1, Basics, CellTypes
  <2>3. Count(tailBlock) \in Nat /\ enqueued \in Nat
    BY <1>1, Basics, TailSlot
  <2> QED
    BY <2>1, <2>2, <2>3
<1>8. Count(tailBlock) >= k
  <2>1. Count(tailBlock) = size[tailBlock] - 1 /\ size[tailBlock] >= InitialBlockSize
    BY <1>1 DEF Packed, LookedAhead, Full, Large
  <2> QED
    BY <1>1, <1>4, <2>1, BlockFacts, Reserved
<1>9. PICK m \in Nat : m = n - 2
  BY <1>3, <1>6
<1>10. (m + 1) * k >= MaxSize
  <2>1. CASE k >= MaxSize
    <3>1. (m + 1) * k = m * k + k /\ m * k \in Nat
      BY ProductGrows
    <3> QED
      BY <2>1, <3>1, Reserved
  <2>2. CASE InitialBlockCount >= 2 /\ (InitialBlockCount - 1) * k >= MaxSize
    <3>1. PICK j \in Nat : j = InitialBlockCount - 1
      BY <2>2, Reserved
    <3>2. j <= m + 1 /\ m + 1 \in Nat
      BY <1>3, <1>9, <3>1, Reserved DEF Large
    <3>3. j * k <= (m + 1) * k /\ j * k \in Nat /\ (m + 1) * k \in Nat
      BY <3>2, ProductGrows
    <3> QED
      BY <2>2, <3>1, <3>3, Reserved
  <2> QED
    BY <1>4, <2>1, <2>2, Reserved
<1>11. (m + 1) * k = m * k + k /\ m * k \in Nat
  BY ProductGrows
<1>12. Oldest(tailBlock) >= dequeued + 1 + m * k
  BY <1>6, <1>9
<1>13. enqueued - dequeued >= m * k + k
  BY <1>7, <1>8, <1>11, <1>12
<1> QED
  BY <1>7, <1>10, <1>11, <1>13, Reserved DEF QueueSize

\* The same with a circle of one block.
LEMMA LonelyBlockIsFull ==
  ASSUME IInv, OneCircle, Large, ppc = "loadFront", next[tailBlock] = tailBlock,
         Full(tailBlock)
  PROVE  QueueSize >= MaxSize
<1> USE DEF IInv
<1>1. /\ tailBlock \in Linked /\ frontBlock \in Linked /\ tailBlock \in 1..blocks
      /\ LastBlock = tailBlock
  BY Basics DEF LastBlock
<1>2. PICK r : Ranking(r) /\ r[tailBlock] = 0
  BY <1>1, RankingFrom
<1>3. LinkedCount = 1
  <2>1. r[next[tailBlock]] = IF r[tailBlock] = LinkedCount - 1 THEN 0 ELSE r[tailBlock] + 1
    BY <1>1, <1>2 DEF Ranking
  <2>2. LinkedCount \in Nat
    BY LinkedFacts
  <2> QED
    BY <1>2, <2>1, <2>2
<1>4. frontBlock = tailBlock
  <2>1. Linked = 1..1
    BY <1>3, LinkedFacts
  <2> QED
    BY <1>1, <2>1
<1>5. InitialBlockSize - 1 >= MaxSize
  BY <1>3, Reserved DEF Large
<1>6. dequeued + 1 + Count(tailBlock) = enqueued + 1
  <2>1. Oldest(tailBlock) + Count(tailBlock) = enqueued + 1 + 0
    BY <1>1 DEF Cells, Filled
  <2> QED
    BY <1>4, <2>1, Basics DEF Oldest
<1>7. enqueued \in Nat /\ dequeued \in Nat
  BY CellTypes, Basics
<1>8. Count(tailBlock) >= InitialBlockSize - 1
  <2>1. size[tailBlock] >= InitialBlockSize
    BY <1>1 DEF Large
  <2> QED
    BY <1>1, <2>1, BlockFacts, Reserved DEF Full
<1> QED
  BY <1>5, <1>6, <1>7, <1>8, <1>1, TailSlot, Reserved DEF QueueSize

-----------------------------------------------------------------------------
(* The blocks the producer left are full *)

LEMMA PackedInit == Init => Packed
<1> SUFFICES ASSUME Init PROVE Packed
  OBVIOUS
<1>1. ppc = "idle" /\ \A b \in Linked : Empty(b)
  BY ShapeInit, Basics DEF Init, Empty
<1>2. \A b \in Linked : ~Free(b) => b = frontBlock
  BY <1>1 DEF Free
<1> QED
  BY <1>1, <1>2 DEF Packed, LookedAhead

\* A step that moves no bound of the blocks.
LEMMA PackedKept ==
  ASSUME Packed,
         UNCHANGED <<frontBlock, tailBlock, front, tail, size, blocks>>,
         Linked' = Linked, LastBlock' = LastBlock,
         LookedAhead' => LookedAhead
  PROVE  Packed'
<1>1. \A b \in Linked : (Free(b)' <=> Free(b)) /\ (Full(b)' <=> Full(b))
  BY DEF Free, Empty, Full, Count, Dist
<1>2. Full(tailBlock)' <=> Full(tailBlock)
  BY DEF Full, Count, Dist
<1> QED
  BY <1>1, <1>2 DEF Packed

\* Only a block in question changes: the others are as full as they were.
LEMMA PackedProducer ==
  ASSUME IInv, Packed, Enqueue \/ TryEnqueue \/ InnerEnqueue
  PROVE  Packed'
<1> USE DEF IInv, blockVars, prodVars, consVars, sizeVars
<1>1. CASE \/ Enqueue \/ TryEnqueue \/ Construct \/ CheckNext \/ LoadNext
           \/ ConstructNext \/ MallocFails
  <2>1. /\ UNCHANGED <<frontBlock, tailBlock, front, tail, size, blocks>>
        /\ ppc \notin {"link", "advance"} /\ ppc' \notin {"link", "advance"}
        /\ LookedAhead' => LookedAhead
    BY <1>1 DEF Enqueue, TryEnqueue, BeginEnqueue, Construct, CheckNext, LoadNext,
       ConstructNext, MallocFails, LookedAhead
  <2>2. Linked' = Linked /\ LastBlock' = LastBlock
    BY <2>1 DEF Linked, LastBlock
  <2> QED
    BY <2>1, <2>2, PackedKept
<1>2. CASE LoadFront
  <2>1. /\ UNCHANGED <<frontBlock, tailBlock, front, tail, size, blocks>>
        /\ ppc \notin {"link", "advance"} /\ ppc' \notin {"link", "advance"}
        /\ ppc' = "checkNext" => Succ(tailBlock, tail[tailBlock]) = front[tailBlock]
        /\ ppc' \in {"construct", "checkNext"}
    BY <1>2 DEF LoadFront
  <2>2. Linked' = Linked /\ LastBlock' = LastBlock
    BY <2>1 DEF Linked, LastBlock
  <2>3. \A b \in Linked : (Free(b)' <=> Free(b)) /\ (Full(b)' <=> Full(b))
    BY <2>1 DEF Free, Empty, Full, Count, Dist
  <2>4. Full(tailBlock)' <=> Full(tailBlock)
    BY <2>1 DEF Full, Count, Dist
  <2>5. ppc' = "checkNext" => Full(tailBlock)
    BY <2>1, Basics, BlockFacts, SMTT(20) DEF Succ, Full, Count, Dist
  <2> QED
    BY <2>1, <2>2, <2>3, <2>4, <2>5 DEF Packed, LookedAhead
<1>3. CASE PublishTail
  <2>1. /\ UNCHANGED <<frontBlock, tailBlock, front, size, blocks>>
        /\ ppc = "publish" /\ ppc' = "idle"
        /\ tail' = [tail EXCEPT ![tailBlock] = Succ(tailBlock, tail[tailBlock])]
    BY <1>3 DEF PublishTail
  <2>2. Linked' = Linked /\ LastBlock' = tailBlock /\ LastBlock = tailBlock
    BY <2>1 DEF Linked, LastBlock
  <2>3. \A b \in Linked : b # tailBlock => tail'[b] = tail[b]
    BY <2>1, Basics DEF TypeOK
  <2>4. \A b \in Linked : b # tailBlock => (Free(b)' <=> Free(b)) /\ (Full(b)' <=> Full(b))
    BY <2>1, <2>3 DEF Free, Empty, Full, Count, Dist
  <2> QED
    BY <2>1, <2>2, <2>4 DEF Packed, LookedAhead
<1>4. CASE PublishNext \/ LinkBlock
  <2>1. /\ UNCHANGED <<frontBlock, tailBlock, front, size, blocks, pblock>>
        /\ ppc \in {"publishNext", "link"} /\ ppc' = "advance"
        /\ tail' = [tail EXCEPT ![pblock] = tail'[pblock]]
    BY <1>4 DEF PublishNext, LinkBlock, TypeOK
  <2>2. /\ Linked' = Linked \cup {pblock} /\ LastBlock' = pblock
        /\ LastBlock = tailBlock /\ tailBlock # pblock /\ pblock \in Block
    <3>1. CASE ppc = "publishNext"
      <4>1. tailBlock # pblock /\ pblock \in Linked
        BY <3>1 DEF Ring, ProducerAt, Shape
      <4> QED
        BY <2>1, <3>1, <4>1, Basics DEF Linked, LastBlock
    <3>2. CASE ppc = "link"
      <4>1. pblock = blocks /\ Linked = 1..(blocks - 1) /\ Linked' = 1..blocks
        BY <2>1, <3>2 DEF Shape, Linked
      <4>2. Linked' = Linked \cup {pblock} /\ tailBlock # pblock
        BY <4>1, Basics
      <4> QED
        BY <2>1, <3>2, <4>1, <4>2, Basics DEF LastBlock
    <3> QED
      BY <2>1, <3>1, <3>2
  <2>3. \A b \in Linked : b # pblock => tail'[b] = tail[b]
    BY <2>1, Basics DEF TypeOK
  <2>4. \A b \in Linked : b # pblock => (Free(b)' <=> Free(b)) /\ (Full(b)' <=> Full(b))
    BY <2>1, <2>3 DEF Free, Empty, Full, Count, Dist
  <2>5. tailBlock # frontBlock => Full(tailBlock)
    BY <2>1 DEF Packed, LookedAhead
  <2>6. ASSUME NEW b \in Linked', ~Free(b)', b # LastBlock', b # frontBlock'
        PROVE  Full(b)'
    <3>1. b \in Linked /\ b # pblock /\ b # frontBlock
      BY <2>1, <2>2, <2>6
    <3>2. CASE b = tailBlock
      BY <2>4, <2>5, <3>1, <3>2
    <3>3. CASE b # tailBlock
      BY <2>2, <2>4, <2>6, <3>1, <3>3 DEF Packed
    <3> QED
      BY <3>2, <3>3
  <2>7. ~LookedAhead'
    BY <2>1 DEF LookedAhead
  <2> QED
    BY <2>6, <2>7 DEF Packed
<1>5. CASE MakeBlock
  <2>1. /\ UNCHANGED <<frontBlock, tailBlock, front>>
        /\ ppc = "alloc" /\ ppc' = "link" /\ blocks' = blocks + 1
    BY <1>5 DEF MakeBlock
  <2>2. Linked' = Linked /\ LastBlock' = LastBlock
    BY <2>1, Basics DEF Linked, LastBlock
  <2>3. \A b \in Linked : tail'[b] = tail[b] /\ size'[b] = size[b]
    <3>1. \A b \in Linked : b # blocks + 1
      BY Basics
    <3> QED
      BY <1>5, <3>1, Basics DEF MakeBlock, TypeOK
  <2>4. \A b \in Linked : (Free(b)' <=> Free(b)) /\ (Full(b)' <=> Full(b))
    BY <2>1, <2>3 DEF Free, Empty, Full, Count, Dist
  <2>5. Full(tailBlock)' <=> Full(tailBlock)
    BY <2>1, <2>3, Basics DEF Full, Count, Dist
  <2> QED
    BY <2>1, <2>2, <2>4, <2>5 DEF Packed, LookedAhead
<1>6. CASE AdvanceTailBlock
  <2>1. /\ UNCHANGED <<frontBlock, front, tail, size, blocks>>
        /\ ppc = "advance" /\ ppc' = "idle" /\ tailBlock' = pblock
    BY <1>6 DEF AdvanceTailBlock
  <2>2. Linked' = Linked /\ LastBlock' = LastBlock
    BY <2>1 DEF Linked, LastBlock
  <2>3. \A b \in Linked : (Free(b)' <=> Free(b)) /\ (Full(b)' <=> Full(b))
    BY <2>1 DEF Free, Empty, Full, Count, Dist
  <2> QED
    BY <2>1, <2>2, <2>3 DEF Packed, LookedAhead
<1> QED
  BY <1>1, <1>2, <1>3, <1>4, <1>5, <1>6 DEF InnerEnqueue

\* The consumer leaves an empty block, which is free from then on, and reads
\* from the front block only.
LEMMA PackedConsumer ==
  ASSUME IInv, Packed, TryDequeue \/ Pop \/ Peek \/ InnerDequeue
  PROVE  Packed'
<1> USE DEF IInv, blockVars, prodVars, consVars, sizeVars
<1>0. /\ UNCHANGED <<tailBlock, tail, size, blocks, ppc, pblock>>
      /\ Linked' = Linked /\ LastBlock' = LastBlock /\ LookedAhead' = LookedAhead
  BY DEF TryDequeue, Pop, Peek, BeginDequeue, InnerDequeue, LoadTail, ReloadTail,
     RefreshLocalTail, CheckTailBlock, FollowNext, LoadNextTail, AdvanceFrontBlock,
     ReadElement, ReadNext, AdvanceFront, Linked, LastBlock, LookedAhead
<1>1. CASE \/ TryDequeue \/ Pop \/ Peek \/ LoadTail \/ ReloadTail \/ CheckTailBlock
           \/ FollowNext \/ LoadNextTail \/ ReadElement \/ ReadNext
  <2>1. UNCHANGED <<frontBlock, front>>
    BY <1>1 DEF TryDequeue, Pop, Peek, BeginDequeue, LoadTail, ReloadTail,
       RefreshLocalTail, CheckTailBlock, FollowNext, LoadNextTail, ReadElement, ReadNext
  <2> QED
    BY <1>0, <2>1, PackedKept
<1>2. CASE AdvanceFrontBlock
  <2>1. /\ cpc = "advanceFrontBlock" /\ frontBlock' = cblock /\ front' = front
        /\ Empty(frontBlock) /\ frontBlock # tailBlock
    BY <1>2 DEF AdvanceFrontBlock, Ring, ConsumerAt
  <2>2. \A b \in Linked : (Full(b)' <=> Full(b)) /\ (Empty(b)' <=> Empty(b))
    BY <1>0, <2>1 DEF Full, Empty, Count, Dist
  <2>3. Full(tailBlock)' <=> Full(tailBlock)
    BY <1>0, <2>1 DEF Full, Count, Dist
  <2>4. ASSUME NEW b \in Linked, ~Free(b)', b # LastBlock, b # frontBlock'
        PROVE  Full(b)'
    <3>1. ~Empty(b)
      BY <2>2, <2>4 DEF Free
    <3>2. b # frontBlock /\ ~Free(b)
      BY <2>1, <3>1 DEF Free
    <3> QED
      BY <2>2, <2>4, <3>2 DEF Packed
  <2>5. LookedAhead => Full(tailBlock)
    BY <2>1 DEF Packed
  <2> QED
    BY <1>0, <2>3, <2>4, <2>5 DEF Packed
<1>3. CASE AdvanceFront
  <2>1. /\ frontBlock' = frontBlock
        /\ front' = [front EXCEPT ![frontBlock] = front'[frontBlock]]
    BY <1>3 DEF AdvanceFront, TypeOK
  <2>2. \A b \in Linked : b # frontBlock => front'[b] = front[b]
    BY <2>1, Basics DEF TypeOK
  <2>3. \A b \in Linked : b # frontBlock =>
          (Full(b)' <=> Full(b)) /\ (Free(b)' <=> Free(b))
    BY <1>0, <2>1, <2>2 DEF Full, Free, Empty, Count, Dist
  <2>4. tailBlock # frontBlock => (Full(tailBlock)' <=> Full(tailBlock))
    BY <1>0, <2>2, Basics DEF Full, Count, Dist
  <2> QED
    BY <1>0, <2>1, <2>3, <2>4 DEF Packed
<1> QED
  BY <1>1, <1>2, <1>3 DEF InnerDequeue

LEMMA PackedStep == IInv /\ Packed /\ [Next]_vars => Packed'
<1> SUFFICES ASSUME IInv, Packed, [Next]_vars PROVE Packed'
  OBVIOUS
<1>1. CASE Sizing \/ UNCHANGED vars
  <2>1. /\ UNCHANGED <<frontBlock, tailBlock, front, tail, size, blocks, ppc, pblock>>
        /\ Linked' = Linked /\ LastBlock' = LastBlock /\ LookedAhead' = LookedAhead
    BY <1>1 DEF Sizing, SizeApprox, CountBlock, StepBlock, vars, blockVars, prodVars,
       consVars, sizeVars, Linked, LastBlock, LookedAhead
  <2> QED
    BY <2>1, PackedKept
<1> QED
  BY <1>1, PackedProducer, PackedConsumer DEF Next

-----------------------------------------------------------------------------
(* What a call of the producer found *)

LEMMA AskedInit == Init => Asked
  BY DEF Init, Asked

\* No block is free behind the tail block: the queue held MaxSize elements.
LEMMA GivesUpWhenFull ==
  ASSUME IInv, Capacity, ppc = "checkNext", next[tailBlock] = frontBlock
  PROVE  wasFull
<1> USE DEF Capacity
<1>1. MaxSize \in Nat /\ enqueued \in Nat /\ dequeued \in Nat
  BY Reserved, CellTypes, Basics DEF IInv
<1>2. ~wasFull => QueueSize < MaxSize
  BY DEF Asked
<1>3. ~(QueueSize >= MaxSize /\ QueueSize < MaxSize)
  BY <1>1 DEF QueueSize
<1> QED
  BY <1>2, <1>3, CircleIsFull DEF Asked

LEMMA AskedProducer ==
  ASSUME IInv, Capacity, Enqueue \/ TryEnqueue \/ InnerEnqueue
  PROVE  Asked'
<1> USE DEF Capacity, blockVars, prodVars, consVars, sizeVars
<1>1. MaxSize \in Nat /\ enqueued \in Nat /\ dequeued \in Nat
  BY Reserved, CellTypes, Basics DEF IInv
<1>2. CASE Enqueue \/ TryEnqueue
  <2>1. /\ wasFull' <=> QueueSize >= MaxSize
        /\ QueueSize' = QueueSize
        /\ ppc' \in {"construct", "loadFront"}
    BY <1>2 DEF Enqueue, TryEnqueue, BeginEnqueue, QueueSize
  <2>2. QueueSize >= MaxSize \/ QueueSize < MaxSize
    BY <1>1 DEF QueueSize
  <2> QED
    BY <2>1, <2>2 DEF Asked
<1>3. CASE LoadFront
  <2>1. /\ ppc = "loadFront" /\ ppc' \in {"construct", "checkNext"}
        /\ UNCHANGED <<tailBlock, next, enqueued, dequeued, wasFull>>
        /\ ppc' = "checkNext" => Succ(tailBlock, tail[tailBlock]) = front[tailBlock]
    BY <1>3 DEF LoadFront
  <2>2. QueueSize' = QueueSize
    BY <2>1 DEF QueueSize
  <2>3. ppc' = "checkNext" => Full(tailBlock)
    BY <2>1, Basics, BlockFacts, SMTT(20) DEF IInv, Succ, Full, Count, Dist
  <2>4. ppc' = "checkNext" /\ next[tailBlock] = tailBlock => QueueSize >= MaxSize
    BY <2>1, <2>3, LonelyBlockIsFull
  <2>5. ~(QueueSize >= MaxSize /\ QueueSize < MaxSize)
    BY <1>1 DEF QueueSize
  <2>6. ~wasFull => QueueSize < MaxSize
    BY <2>1 DEF Asked
  <2> QED
    BY <2>1, <2>2, <2>4, <2>5, <2>6 DEF Asked
<1>4. CASE CheckNext
  <2>1. /\ ppc = "checkNext" /\ ppc' \in {"loadNext", "alloc", "idle"}
        /\ UNCHANGED <<enqueued, dequeued, wasFull>>
        /\ ppc' = "alloc" => next[tailBlock] = frontBlock
    BY <1>4 DEF CheckNext
  <2>2. QueueSize' = QueueSize
    BY <2>1 DEF QueueSize
  <2>3. ~wasFull => QueueSize < MaxSize
    BY <2>1 DEF Asked
  <2>4. ppc' = "alloc" => wasFull
    BY <2>1, GivesUpWhenFull
  <2> QED
    BY <2>1, <2>2, <2>3, <2>4 DEF Asked
<1>5. CASE \/ Construct \/ LoadNext \/ ConstructNext \/ PublishNext \/ MakeBlock
           \/ LinkBlock
  <2>1. /\ ppc # "idle" /\ ppc' \notin {"checkNext", "alloc"}
        /\ UNCHANGED <<enqueued, dequeued, wasFull>>
    BY <1>5 DEF Construct, LoadNext, ConstructNext, PublishNext, MakeBlock, LinkBlock
  <2>2. QueueSize' = QueueSize
    BY <2>1 DEF QueueSize
  <2> QED
    BY <2>1, <2>2 DEF Asked
<1>6. CASE PublishTail \/ MallocFails \/ AdvanceTailBlock
  <2>1. ppc' = "idle"
    BY <1>6 DEF PublishTail, MallocFails, AdvanceTailBlock
  <2> QED
    BY <2>1 DEF Asked
<1> QED
  BY <1>2, <1>3, <1>4, <1>5, <1>6 DEF InnerEnqueue

LEMMA AskedStep == IInv /\ Capacity /\ [Next]_vars => Asked'
<1> SUFFICES ASSUME IInv, Capacity, [Next]_vars PROVE Asked'
  OBVIOUS
<1> USE DEF blockVars, prodVars, consVars, sizeVars
<1>1. CASE \/ TryDequeue \/ Pop \/ Peek \/ InnerDequeue \/ Sizing \/ UNCHANGED vars
  <2>1. UNCHANGED <<tailBlock, next, ppc, enqueued, wasFull>>
    <3>1. CASE TryDequeue \/ Pop \/ Peek \/ InnerDequeue
      BY <3>1 DEF TryDequeue, Pop, Peek, BeginDequeue, InnerDequeue, LoadTail,
         ReloadTail, RefreshLocalTail, CheckTailBlock, FollowNext, LoadNextTail,
         AdvanceFrontBlock, ReadElement, ReadNext, AdvanceFront
    <3>2. CASE Sizing \/ UNCHANGED vars
      BY <3>2 DEF Sizing, SizeApprox, CountBlock, StepBlock, vars
    <3> QED
      BY <1>1, <3>1, <3>2
  <2>2. dequeued' = dequeued \/ dequeued' = dequeued + 1
    <3>1. CASE TryDequeue \/ Pop \/ Peek \/ InnerDequeue
      BY <3>1 DEF TryDequeue, Pop, Peek, BeginDequeue, InnerDequeue, LoadTail,
         ReloadTail, RefreshLocalTail, CheckTailBlock, FollowNext, LoadNextTail,
         AdvanceFrontBlock, ReadElement, ReadNext, AdvanceFront
    <3>2. CASE Sizing \/ UNCHANGED vars
      BY <3>2 DEF Sizing, SizeApprox, CountBlock, StepBlock, vars
    <3> QED
      BY <1>1, <3>1, <3>2
  <2>3. MaxSize \in Nat /\ enqueued \in Nat /\ dequeued \in Nat
    BY Reserved, CellTypes, Basics DEF IInv
  <2>4. QueueSize < MaxSize => QueueSize' < MaxSize
    BY <2>1, <2>2, <2>3 DEF QueueSize
  <2> QED
    BY <2>1, <2>4 DEF Capacity, Asked
<1> QED
  BY <1>1, AskedProducer DEF Next

\* The whole invariant with its fourth layer.
THEOREM CapacityCorrect == Spec => [](IInv /\ Capacity)
<1>1. Init => Capacity
  BY CircleInit, LargeInit, PackedInit, AskedInit DEF Capacity
<1>2. IInv /\ Capacity /\ [Next]_vars => Capacity'
  BY CircleStep, LargeStep, PackedStep, AskedStep DEF Capacity, IInv
<1> QED
  BY <1>1, <1>2, Invariant, PTL DEF Spec

\* The queue takes MaxSize elements without a further allocation: the producer
\* asks for memory, or gives up, only if it held as many as its call began.
THEOREM HoldsMaxSizeCorrect == Spec => HoldsMaxSize
<1>1. IInv /\ Capacity /\ [Next]_vars
        => [ppc = "checkNext" /\ ppc' \in {"alloc", "idle"} => wasFull]_vars
  <2> SUFFICES ASSUME IInv, Capacity, [Next]_vars, ppc = "checkNext",
                      ppc' \in {"alloc", "idle"}
               PROVE  wasFull
    OBVIOUS
  <2>1. CheckNext
    <3>1. CASE Enqueue \/ TryEnqueue \/ InnerEnqueue
      BY <3>1 DEF Enqueue, TryEnqueue, BeginEnqueue, InnerEnqueue, LoadFront, Construct,
         PublishTail, LoadNext, ConstructNext, PublishNext, MakeBlock, MallocFails,
         LinkBlock, AdvanceTailBlock
    <3>2. CASE TryDequeue \/ Pop \/ Peek \/ InnerDequeue
      BY <3>2 DEF TryDequeue, Pop, Peek, BeginDequeue, InnerDequeue, LoadTail,
         ReloadTail, RefreshLocalTail, CheckTailBlock, FollowNext, LoadNextTail,
         AdvanceFrontBlock, ReadElement, ReadNext, AdvanceFront, prodVars
    <3>3. CASE Sizing \/ UNCHANGED vars
      BY <3>3 DEF Sizing, SizeApprox, CountBlock, StepBlock, vars, prodVars
    <3> QED
      BY <3>1, <3>2, <3>3 DEF Next
  <2>2. next[tailBlock] = frontBlock
    BY <2>1 DEF CheckNext
  <2> QED
    BY <2>2, GivesUpWhenFull
<1> QED
  BY <1>1, CapacityCorrect, PTL DEF Spec, HoldsMaxSize

-----------------------------------------------------------------------------
(* The refinement *)

\* The n numbers after d.
Run(d, n) == [k \in 1..n |-> d + k]

\* The queue as the numbers it stands for.
Numbered == INSTANCE SpscFifo WITH
              Capacity <- MaxSize,
              q        <- Run(dequeued, enqueued - dequeued),
              accepted <- enqueued,
              offer    <- IF ppc = "idle" THEN "none"
                          ELSE IF wasFull THEN "full" ELSE "room",
              request  <- IF cpc = "idle" THEN "none"
                          ELSE IF wasEmpty THEN "empty" ELSE "some",
              out      <- IF cpc = "advanceFront" THEN 0 ELSE got

LEMMA RunFacts ==
  ASSUME NEW d \in Nat, NEW n \in Nat
  PROVE  /\ Run(d, n) \in Seq(Nat) /\ Len(Run(d, n)) = n
         /\ Run(d, n) = << >> <=> n = 0
         /\ Append(Run(d, n), d + n + 1) = Run(d, n + 1)
         /\ n > 0 => Head(Run(d, n)) = d + 1 /\ Tail(Run(d, n)) = Run(d + 1, n - 1)
<1>1. Run(d, n) \in Seq(Nat) /\ Len(Run(d, n)) = n
  BY DEF Run
<1>2. Run(d, n) = << >> <=> n = 0
  BY <1>1, EmptySeq
<1>3. Append(Run(d, n), d + n + 1) = Run(d, n + 1)
  BY <1>1 DEF Run
<1>4. n > 0 => Head(Run(d, n)) = d + 1 /\ Tail(Run(d, n)) = Run(d + 1, n - 1)
  BY <1>1, SMTT(20) DEF Run
<1> QED
  BY <1>1, <1>2, <1>3, <1>4

LEMMA FifoInit == Init => Numbered!Init
<1> SUFFICES ASSUME Init PROVE Numbered!Init
  OBVIOUS
<1>1. enqueued = 0 /\ dequeued = 0 /\ ppc = "idle" /\ cpc = "idle" /\ got = 0
  BY DEF Init
<1>2. Run(dequeued, enqueued - dequeued) = << >>
  BY <1>1, RunFacts
<1> QED
  BY <1>1, <1>2 DEF Numbered!Init

\* What the steps of the queue do to the run of numbers.
LEMMA QueueFacts ==
  ASSUME IInv
  PROVE  /\ enqueued \in Nat /\ dequeued \in Nat /\ enqueued - dequeued \in Nat
         /\ Len(Run(dequeued, enqueued - dequeued)) = QueueSize
         /\ Run(dequeued, enqueued - dequeued) = << >> <=> enqueued = dequeued
         /\ Append(Run(dequeued, enqueued - dequeued), enqueued + 1)
              = Run(dequeued, (enqueued + 1) - dequeued)
         /\ dequeued < enqueued =>
              /\ Head(Run(dequeued, enqueued - dequeued)) = dequeued + 1
              /\ Tail(Run(dequeued, enqueued - dequeued))
                   = Run(dequeued + 1, enqueued - (dequeued + 1))
<1>1. enqueued \in Nat /\ dequeued \in Nat /\ dequeued <= enqueued
  BY CellTypes DEF IInv, Cells, Numbers
<1>2. PICK n \in Nat : n = enqueued - dequeued /\ n = QueueSize
  BY <1>1 DEF QueueSize
<1>3. /\ dequeued + n + 1 = enqueued + 1 /\ n + 1 = (enqueued + 1) - dequeued
      /\ n - 1 = enqueued - (dequeued + 1) /\ (n = 0 <=> enqueued = dequeued)
      /\ dequeued < enqueued <=> n > 0
  BY <1>1, <1>2
<1>4. /\ Len(Run(dequeued, n)) = n
      /\ Run(dequeued, n) = << >> <=> n = 0
      /\ Append(Run(dequeued, n), dequeued + n + 1) = Run(dequeued, n + 1)
      /\ n > 0 => /\ Head(Run(dequeued, n)) = dequeued + 1
                  /\ Tail(Run(dequeued, n)) = Run(dequeued + 1, n - 1)
  BY <1>1, <1>2, RunFacts
<1> QED
  BY <1>1, <1>2, <1>3, <1>4

\* An enqueue takes effect as it makes the element visible; one that allocates
\* or moves on to another block does so on its way.
LEMMA FifoEnqueue ==
  ASSUME IInv, Capacity, Enqueue \/ TryEnqueue \/ InnerEnqueue
  PROVE  Numbered!Next \/ UNCHANGED Numbered!vars
<1> USE DEF blockVars, prodVars, consVars, sizeVars
<1>1. UNCHANGED <<dequeued, cpc, wasEmpty, got>>
  BY DEF Enqueue, TryEnqueue, BeginEnqueue, InnerEnqueue, LoadFront, Construct,
     PublishTail, CheckNext, LoadNext, ConstructNext, PublishNext, MakeBlock,
     MallocFails, LinkBlock, AdvanceTailBlock
<1>2. CASE Enqueue \/ TryEnqueue
  <2>1. /\ ppc = "idle" /\ ppc' # "idle" /\ enqueued < MaxElements
        /\ enqueued' = enqueued /\ (wasFull' <=> QueueSize >= MaxSize)
    BY <1>2 DEF Enqueue, TryEnqueue, BeginEnqueue
  <2>2. wasFull' <=> Len(Run(dequeued, enqueued - dequeued)) >= MaxSize
    BY <2>1, QueueFacts
  <2>3. Run(dequeued, enqueued - dequeued)' = Run(dequeued, enqueued - dequeued)
    BY <1>1, <2>1 DEF Run
  <2>4. Numbered!EnqueueCall
    BY <1>1, <2>1, <2>2, <2>3 DEF Numbered!EnqueueCall
  <2> QED
    BY <2>4 DEF Numbered!Next
<1>3. CASE PublishTail \/ AdvanceTailBlock
  <2>1. ppc # "idle" /\ ppc' = "idle" /\ enqueued' = enqueued + 1
    BY <1>3 DEF PublishTail, AdvanceTailBlock
  <2>2. Run(dequeued, enqueued - dequeued)'
          = Append(Run(dequeued, enqueued - dequeued), enqueued + 1)
    BY <1>1, <2>1, QueueFacts DEF Run
  <2>3. Numbered!EnqueueTrue
    BY <1>1, <2>1, <2>2 DEF Numbered!EnqueueTrue
  <2> QED
    BY <2>3 DEF Numbered!Next
<1>4. CASE \/ LoadFront \/ Construct \/ CheckNext \/ LoadNext \/ ConstructNext
           \/ PublishNext \/ MakeBlock \/ MallocFails \/ LinkBlock
  <2>1. ppc # "idle" /\ enqueued' = enqueued /\ wasFull' = wasFull
    BY <1>4 DEF LoadFront, Construct, CheckNext, LoadNext, ConstructNext,
       PublishNext, MakeBlock, MallocFails, LinkBlock
  <2>2. Run(dequeued, enqueued - dequeued)' = Run(dequeued, enqueued - dequeued)
    BY <1>1, <2>1 DEF Run
  <2>3. ppc' = "idle" => wasFull
    <3>1. CASE CheckNext
      BY <3>1, GivesUpWhenFull DEF CheckNext
    <3>2. CASE MallocFails
      BY <3>2 DEF MallocFails, Capacity, Asked
    <3> QED
      BY <1>4, <3>1, <3>2 DEF LoadFront, Construct, LoadNext, ConstructNext, PublishNext,
         MakeBlock, LinkBlock
  <2>4. ppc' = "idle" => Numbered!EnqueueFalse
    BY <1>1, <2>1, <2>2, <2>3 DEF Numbered!EnqueueFalse
  <2>5. ppc' # "idle" => UNCHANGED Numbered!vars
    BY <1>1, <2>1, <2>2 DEF Numbered!vars
  <2> QED
    BY <2>4, <2>5 DEF Numbered!Next
<1> QED
  BY <1>2, <1>3, <1>4 DEF InnerEnqueue

\* peek reads ahead: the oldest element is the first of the next block.
LEMMA AtNextOldest ==
  ASSUME IInv, cpc = "readNext"
  PROVE  data[cblock][front[cblock]] = dequeued + 1 /\ dequeued < enqueued
<1> USE DEF IInv
<1>1. /\ cblock = next[frontBlock] /\ frontBlock # tailBlock /\ Empty(frontBlock)
      /\ frontBlock \in Linked /\ tailBlock \in Linked /\ cblock \in Linked
  BY Basics DEF Ring, ConsumerAt, Shape
<1>2. /\ cblock # frontBlock /\ ~Empty(cblock) /\ cblock \in 1..blocks
      /\ cblock \in Block
      /\ data[cblock][front[cblock]] = dequeued + 1
  BY <1>1, FrontBlockEmpty, Basics
<1>3. ~Pending(cblock, front[cblock])
  <2>1. ppc = "publishNext" => pblock # cblock
    BY <1>2 DEF Ring, ProducerAt, Free
  <2>2. ppc = "advance" => pblock # cblock
    BY <1>1 DEF Ring, ProducerAt, Circle
  <2>3. ppc = "link" => pblock # cblock
    <3> SUFFICES ASSUME ppc = "link" PROVE pblock # cblock
      OBVIOUS
    <3>1. pblock = blocks /\ cblock \in 1..(blocks - 1)
      BY <1>1 DEF Shape, Linked
    <3> QED
      BY <3>1, Basics
  <2> QED
    BY <1>2, <2>1, <2>2, <2>3 DEF Pending, Empty
<1>4. data[cblock][front[cblock]] <= enqueued
  BY <1>2, <1>3, TailSlot DEF Cells, Numbers
<1> QED
  BY <1>2, <1>4, CellTypes

\* A dequeue takes effect as it gives the slot back, a peek as it reads it; a
\* call fails only if the queue was empty when it began.
LEMMA FifoDequeue ==
  ASSUME IInv, TryDequeue \/ Pop \/ Peek \/ InnerDequeue
  PROVE  Numbered!Next \/ UNCHANGED Numbered!vars
<1> USE DEF blockVars, prodVars, consVars, sizeVars
<1>1. UNCHANGED <<enqueued, ppc, wasFull>>
  BY DEF TryDequeue, Pop, Peek, BeginDequeue, InnerDequeue, LoadTail, ReloadTail,
     RefreshLocalTail, CheckTailBlock, FollowNext, LoadNextTail, AdvanceFrontBlock,
     ReadElement, ReadNext, AdvanceFront
<1>2. CASE TryDequeue \/ Pop \/ Peek
  <2>1. /\ cpc = "idle" /\ cpc' \notin {"idle", "advanceFront"}
        /\ dequeued' = dequeued /\ got' = 0
    BY <1>2 DEF TryDequeue, Pop, Peek, BeginDequeue
  <2>2. wasEmpty' <=> Run(dequeued, enqueued - dequeued) = << >>
    <3>1. wasEmpty' <=> QueueSize = 0
      BY <1>2 DEF TryDequeue, Pop, Peek, BeginDequeue
    <3>2. QueueSize = 0 <=> enqueued = dequeued
      BY QueueFacts DEF QueueSize
    <3> QED
      BY <3>1, <3>2, QueueFacts
  <2>3. Run(dequeued, enqueued - dequeued)' = Run(dequeued, enqueued - dequeued)
    BY <1>1, <2>1 DEF Run
  <2>4. Numbered!DequeueCall
    BY <1>1, <2>1, <2>2, <2>3 DEF Numbered!DequeueCall
  <2> QED
    BY <2>4 DEF Numbered!Next
<1>3. CASE AdvanceFront
  <2>1. /\ cpc = "advanceFront" /\ cpc' = "idle" /\ dequeued' = dequeued + 1
        /\ got' = got /\ wasEmpty' = wasEmpty
        /\ got = dequeued + 1 /\ dequeued < enqueued
    BY <1>3 DEF AdvanceFront, IInv, Request
  <2>2. Run(dequeued, enqueued - dequeued)'
          = Tail(Run(dequeued, enqueued - dequeued))
    <3>1. Run(dequeued, enqueued - dequeued)'
            = Run(dequeued + 1, enqueued - (dequeued + 1))
      BY <1>1, <2>1 DEF Run
    <3> QED
      BY <2>1, <3>1, QueueFacts
  <2>3. /\ Run(dequeued, enqueued - dequeued) # << >>
        /\ Head(Run(dequeued, enqueued - dequeued)) = dequeued + 1
    BY <2>1, QueueFacts
  <2>4. Numbered!DequeueTrue
    BY <1>1, <2>1, <2>2, <2>3 DEF Numbered!DequeueTrue
  <2> QED
    BY <2>4 DEF Numbered!Next
<1>4. CASE ReadNext \/ (ReadElement /\ cop = "peek")
  <2>1. /\ cpc \in {"read", "readNext"} /\ cpc' = "idle"
        /\ dequeued' = dequeued /\ wasEmpty' = wasEmpty
        /\ got' = dequeued + 1 /\ dequeued < enqueued
    <3>1. CASE ReadNext
      BY <3>1, AtNextOldest DEF ReadNext
    <3>2. CASE ReadElement /\ cop = "peek"
      BY <3>2, AtOldest DEF ReadElement, IInv
    <3> QED
      BY <1>4, <3>1, <3>2
  <2>2. Run(dequeued, enqueued - dequeued)' = Run(dequeued, enqueued - dequeued)
    BY <1>1, <2>1 DEF Run
  <2>3. /\ Run(dequeued, enqueued - dequeued) # << >>
        /\ Head(Run(dequeued, enqueued - dequeued)) = dequeued + 1
    BY <2>1, QueueFacts
  <2>4. Numbered!PeekTrue
    BY <1>1, <2>1, <2>2, <2>3 DEF Numbered!PeekTrue
  <2> QED
    BY <2>4 DEF Numbered!Next
<1>5. CASE \/ LoadTail \/ CheckTailBlock \/ ReloadTail \/ FollowNext
           \/ LoadNextTail \/ AdvanceFrontBlock
           \/ (ReadElement /\ cop # "peek")
  <2>1. /\ cpc \notin {"idle", "advanceFront"} /\ got = 0
        /\ dequeued' = dequeued /\ wasEmpty' = wasEmpty
        /\ cpc' = "advanceFront" \/ got' = got
    BY <1>5 DEF LoadTail, ReloadTail, RefreshLocalTail, CheckTailBlock, FollowNext,
       LoadNextTail, AdvanceFrontBlock, ReadElement, IInv, Request
  <2>2. Run(dequeued, enqueued - dequeued)' = Run(dequeued, enqueued - dequeued)
    BY <1>1, <2>1 DEF Run
  <2>3. cpc' = "idle" => cpc = "checkTailBlock" /\ frontBlock = tailBlock
    BY <1>5 DEF LoadTail, ReloadTail, RefreshLocalTail, CheckTailBlock, FollowNext,
       LoadNextTail, AdvanceFrontBlock, ReadElement
  <2>4. cpc' = "idle" => wasEmpty
    BY <2>3 DEF IInv, Request
  <2>5. cpc' = "idle" => Numbered!DequeueFalse
    BY <1>1, <2>1, <2>2, <2>4 DEF Numbered!DequeueFalse
  <2>6. cpc' # "idle" => UNCHANGED Numbered!vars
    BY <1>1, <2>1, <2>2 DEF Numbered!vars
  <2> QED
    BY <2>5, <2>6 DEF Numbered!Next
<1> QED
  BY <1>2, <1>3, <1>4, <1>5 DEF InnerDequeue

\* The queue is a FIFO that always takes MaxSize elements: what is taken out or
\* peeked at is the oldest element not yet taken, each exactly once, a call of the
\* consumer that fails met an empty queue and one of the producer a queue of
\* MaxSize elements, whatever the interleaving of the two threads.
THEOREM FifoCorrect == Spec => Numbered!Spec
<1>1. Init => Numbered!Init
  BY FifoInit
<1>2. IInv /\ Capacity /\ [Next]_vars => [Numbered!Next]_(Numbered!vars)
  <2> SUFFICES ASSUME IInv, Capacity, [Next]_vars
               PROVE  Numbered!Next \/ UNCHANGED Numbered!vars
    OBVIOUS
  <2>1. CASE Sizing \/ UNCHANGED vars
    <3>1. UNCHANGED <<prodVars, consVars>>
      BY <2>1 DEF Sizing, SizeApprox, CountBlock, StepBlock, vars
    <3> QED
      BY <3>1 DEF prodVars, consVars, Numbered!vars, Run
  <2> QED
    BY <2>1, FifoEnqueue, FifoDequeue DEF Next
<1> QED
  BY <1>1, <1>2, CapacityCorrect, PTL DEF Spec, Numbered!Spec

-----------------------------------------------------------------------------
(* Sequences put one after the other *)

\* The numbers after a, up to b, each as v gives it.
Cut(v, a, b) == [k \in 1..(b - a) |-> v[a + k]]

\* Two cuts, the second from where the first ends.
LEMMA CutConcat ==
  ASSUME NEW v, NEW a \in Nat, NEW b \in Nat, NEW c \in Nat, a <= b, b <= c
  PROVE  Cut(v, a, b) \o Cut(v, b, c) = Cut(v, a, c)
<1> DEFINE V == {v[x] : x \in Nat}
           s == Cut(v, a, b)
           t == Cut(v, b, c)
           u == Cut(v, a, c)
<1>1. s \in Seq(V) /\ t \in Seq(V) /\ u \in Seq(V)
  BY DEF Cut
<1>2. /\ Len(s) = b - a /\ Len(t) = c - b /\ Len(u) = c - a
      /\ DOMAIN s = 1..(b - a) /\ DOMAIN t = 1..(c - b) /\ DOMAIN u = 1..(c - a)
  BY DEF Cut
<1>3. /\ \A k \in 1..(b - a) : s[k] = v[a + k]
      /\ \A k \in 1..(c - b) : t[k] = v[b + k]
      /\ \A k \in 1..(c - a) : u[k] = v[a + k]
  BY DEF Cut
<1> HIDE DEF s, t, u, V
<1>4. /\ s \o t \in Seq(V) /\ Len(s \o t) = Len(s) + Len(t)
      /\ \A k \in 1..(Len(s) + Len(t)) : (s \o t)[k] = IF k <= Len(s) THEN s[k] ELSE t[k - Len(s)]
  BY <1>1, ConcatProperties
<1>5. Len(s \o t) = Len(u)
  BY <1>2, <1>4
<1>6. ASSUME NEW k \in 1..(c - a) PROVE (s \o t)[k] = u[k]
  <2>0. (s \o t)[k] = IF k <= b - a THEN s[k] ELSE t[k - (b - a)]
    <3>1. Len(s) + Len(t) = c - a
      BY <1>2
    <3>2. k \in 1..(Len(s) + Len(t))
      BY <3>1
    <3> QED
      BY <1>2, <1>4, <3>2
  <2>1. CASE k <= b - a
    BY <1>3, <2>0, <2>1
  <2>2. CASE ~(k <= b - a)
    <3>1. k - (b - a) \in 1..(c - b) /\ b + (k - (b - a)) = a + k
      BY <2>2
    <3>2. (s \o t)[k] = t[k - (b - a)]
      BY <2>0, <2>2
    <3> QED
      BY <1>3, <3>1, <3>2
  <2> QED
    BY <2>1, <2>2
<1>7. s \o t = u
  BY <1>1, <1>2, <1>4, <1>5, <1>6, SeqEqual
<1> QED
  BY <1>7 DEF s, t, u

\* Cuts that follow each other are one.
LEMMA FlattenCuts ==
  ASSUME NEW v, NEW n \in Nat, n >= 1, NEW e, \A i \in 0..n : e[i] \in Nat,
         \A i \in 1..n : e[i - 1] <= e[i],
         NEW s, s = [i \in 1..n |-> Cut(v, e[i - 1], e[i])]
  PROVE  FlattenSeq(s) = Cut(v, e[0], e[n])
<1> DEFINE E(g) == [i \in 1..n |-> IF i = 1 THEN s[i] ELSE g[i - 1] \o s[i]]
           f == [i \in 1..n |-> Cut(v, e[0], e[i])]
           g == CHOOSE g : g = E(g)
<1>1. Len(s) = n /\ n # 0
  OBVIOUS
<1>2. FlattenSeq(s) = g[n]
  BY <1>1 DEF FlattenSeq
<1>3. \A i \in 0..n : e[0] <= e[i]
  <2> DEFINE S == {i \in 0..n : ~(e[0] <= e[i])}
  <2> SUFFICES ASSUME S # {} PROVE FALSE
    OBVIOUS
  <2>1. S \subseteq Nat
    OBVIOUS
  <2>2. PICK i \in S : \A k \in S : i <= k
    BY <2>1, Least
  <2>3. i \in 1..n /\ i - 1 \in 0..n
    BY <2>2
  <2>4. i - 1 \notin S
    BY <2>2, <2>3
  <2> QED
    BY <2>2, <2>3, <2>4
<1>4. f = E(f)
  <2>1. ASSUME NEW i \in 1..n
        PROVE  f[i] = IF i = 1 THEN s[i] ELSE f[i - 1] \o s[i]
    <3>1. CASE i = 1
      BY <3>1
    <3>2. CASE i # 1
      <4>1. i - 1 \in 1..n /\ i - 1 \in 0..n /\ i \in 0..n /\ 0 \in 0..n
        BY <3>2
      <4>2. Cut(v, e[0], e[i - 1]) \o Cut(v, e[i - 1], e[i]) = Cut(v, e[0], e[i])
        BY <1>3, <4>1, CutConcat
      <4> QED
        BY <3>2, <4>1, <4>2
    <3> QED
      BY <3>1, <3>2
  <2>2. f = [i \in 1..n |-> f[i]]
    OBVIOUS
  <2> HIDE DEF f
  <2> QED
    BY <2>1, <2>2
<1> HIDE DEF f
<1>5. g = E(g)
  <2> HIDE DEF E
  <2>1. \E h : h = E(h)
    BY <1>4
  <2> QED
    BY <2>1
<1> HIDE DEF g
<1>6. ASSUME NEW i \in 1..n PROVE g[i] = f[i]
  <2> DEFINE S == {j \in 1..n : g[j] # f[j]}
  <2> SUFFICES ASSUME S # {} PROVE FALSE
    OBVIOUS
  <2>1. S \subseteq Nat
    OBVIOUS
  <2>2. PICK j \in S : \A k \in S : j <= k
    BY <2>1, Least
  <2>3. g[j] = (IF j = 1 THEN s[j] ELSE g[j - 1] \o s[j])
    BY <1>5
  <2>4. f[j] = (IF j = 1 THEN s[j] ELSE f[j - 1] \o s[j])
    BY <1>4
  <2>5. j # 1 => j - 1 \in 1..n /\ j - 1 \notin S
    BY <2>2
  <2> QED
    BY <2>3, <2>4, <2>5
<1>7. g[n] = f[n] /\ f[n] = Cut(v, e[0], e[n])
  BY <1>6 DEF f
<1> QED
  BY <1>2, <1>7

-----------------------------------------------------------------------------
(* The blocks one after the other *)

\* The sequence that starts at a and goes on by h.
Steps(N, a, h, g) == [k \in 0..N |-> IF k = 0 THEN a ELSE h[g[k - 1]]]

\* There is such a sequence, however long.
LEMMA Chain ==
  ASSUME NEW N \in Nat, NEW a, NEW h
  PROVE  \E g : g = Steps(N, a, h, g)
<1> DEFINE S == {m \in 0..N : ~\E g : g = Steps(m, a, h, g)}
<1> SUFFICES ASSUME S # {} PROVE FALSE
  OBVIOUS
<1>1. S \subseteq Nat
  OBVIOUS
<1>2. PICK m \in S : \A k \in S : m <= k
  BY <1>1, Least
<1>3. CASE m = 0
  <2> DEFINE g == [k \in 0..0 |-> a]
  <2>1. g = Steps(0, a, h, g)
    BY DEF Steps
  <2> HIDE DEF g
  <2> QED
    BY <1>2, <1>3, <2>1
<1>4. CASE m # 0
  <2>1. m \in Nat /\ m - 1 \in 0..N /\ m - 1 \notin S
    BY <1>2, <1>4
  <2>2. PICK g : g = Steps(m - 1, a, h, g)
    BY <2>1
  <2> DEFINE f == [k \in 0..m |-> IF k = m THEN h[g[m - 1]] ELSE g[k]]
  <2>3. ASSUME NEW k \in 0..m PROVE f[k] = IF k = 0 THEN a ELSE h[f[k - 1]]
    <3>1. CASE k = m
      <4>1. k # 0 /\ k - 1 \in 0..m /\ k - 1 # m
        BY <1>4, <2>1, <3>1
      <4> QED
        BY <3>1, <4>1
    <3>2. CASE k # m
      <4>1. k \in 0..(m - 1) /\ (k # 0 => k - 1 \in 0..m /\ k - 1 # m)
        BY <2>1, <3>2
      <4>2. g[k] = IF k = 0 THEN a ELSE h[g[k - 1]]
        BY <2>2, <4>1 DEF Steps
      <4> QED
        BY <3>2, <4>1, <4>2
    <3> QED
      BY <3>1, <3>2
  <2>4. f = [k \in 0..m |-> f[k]]
    OBVIOUS
  <2> HIDE DEF f
  <2>5. f = Steps(m, a, h, f)
    BY <2>3, <2>4 DEF Steps
  <2> QED
    BY <1>2, <2>5
<1> QED
  BY <1>3, <1>4

\* Nth is what it says.
LEMMA NthIs ==
  ASSUME MaxBlocks \in Nat
  PROVE  Nth = [k \in 0..MaxBlocks |-> IF k = 0 THEN frontBlock ELSE next[Nth[k - 1]]]
<1>1. \E g : g = Steps(MaxBlocks, frontBlock, next, g)
  BY Chain
<1>2. Nth = CHOOSE g : g = Steps(MaxBlocks, frontBlock, next, g)
  BY DEF Nth, Steps
<1>3. Nth = Steps(MaxBlocks, frontBlock, next, Nth)
  BY <1>1, <1>2
<1> QED
  BY <1>3 DEF Steps

-----------------------------------------------------------------------------
(* The elements along the circle *)

\* A sequence of numbers in which none is less than the one before it.
LEMMA Ascends ==
  ASSUME NEW n \in Nat, NEW e, \A i \in 0..n : e[i] \in Int,
         \A i \in 1..n : e[i - 1] <= e[i],
         NEW a \in 0..n, NEW b \in 0..n, a <= b
  PROVE  e[a] <= e[b]
<1> DEFINE S == {i \in 0..n : a <= i /\ ~(e[a] <= e[i])}
<1> SUFFICES ASSUME S # {} PROVE FALSE
  OBVIOUS
<1>1. S \subseteq Nat
  OBVIOUS
<1>2. PICK i \in S : \A k \in S : i <= k
  BY <1>1, Least
<1>3. i # a
  BY <1>2
<1>4. i \in 1..n /\ i - 1 \in 0..n /\ a <= i - 1
  BY <1>2, <1>3
<1>5. i - 1 \notin S
  BY <1>2, <1>4
<1>6. e[i - 1] \in Int /\ e[i] \in Int /\ e[a] \in Int /\ e[i - 1] <= e[i]
  BY <1>2, <1>4
<1> QED
  BY <1>2, <1>4, <1>5, <1>6

\* The n-th block of the circle is the one of rank n.
LEMMA NthRanks ==
  ASSUME TypeOK, Shape, NEW r, Ranking(r), r[frontBlock] = 0
  PROVE  /\ \A k \in 0..(LinkedCount - 1) : Nth[k] \in Linked /\ r[Nth[k]] = k
         /\ \A b \in Linked : Nth[r[b]] = b
         /\ LinkedCount <= MaxBlocks
         /\ \A k \in 1..(LinkedCount - 1) : Nth[k] = next[Nth[k - 1]]
<1>1. PICK n \in Nat : n = LinkedCount /\ n >= 1
  BY LinkedFacts
<1>2. /\ frontBlock \in Linked /\ MaxBlocks \in Nat /\ n <= MaxBlocks
      /\ \A b \in Linked : next[b] \in Linked
  <2>1. n <= blocks /\ blocks \in 1..MaxBlocks
    BY <1>1, LinkedFacts, Basics
  <2> QED
    BY <1>1, <2>1, Basics DEF Shape
<1>3. /\ r \in [Linked -> 0..(n - 1)]
      /\ \A b \in Linked : r[next[b]] = IF r[b] = n - 1 THEN 0 ELSE r[b] + 1
      /\ \A b, c \in Linked : r[b] = r[c] => b = c
  BY <1>1 DEF Ranking
<1>4. \A k \in 0..MaxBlocks : Nth[k] = IF k = 0 THEN frontBlock ELSE next[Nth[k - 1]]
  BY <1>2, NthIs
<1> DEFINE S == {k \in 0..(n - 1) : ~(Nth[k] \in Linked /\ r[Nth[k]] = k)}
<1>5. S = {}
  <2> SUFFICES ASSUME S # {} PROVE FALSE
    OBVIOUS
  <2>1. S \subseteq Nat
    OBVIOUS
  <2>2. PICK k \in S : \A j \in S : k <= j
    BY <2>1, Least
  <2>3. k \in 0..MaxBlocks /\ k <= n - 1
    BY <1>1, <1>2, <2>2
  <2>4. k # 0
    BY <1>2, <1>4, <2>2
  <2>5. k - 1 \in 0..(n - 1) /\ k - 1 \notin S
    BY <2>2, <2>3, <2>4
  <2>6. Nth[k - 1] \in Linked /\ r[Nth[k - 1]] = k - 1
    BY <2>5
  <2>7. Nth[k] = next[Nth[k - 1]]
    BY <1>4, <2>3, <2>4
  <2> QED
    BY <1>2, <1>3, <2>2, <2>3, <2>6, <2>7
<1>6. \A k \in 0..(n - 1) : Nth[k] \in Linked /\ r[Nth[k]] = k
  BY <1>5
<1>7. ASSUME NEW b \in Linked PROVE Nth[r[b]] = b
  BY <1>3, <1>6
<1>8. \A k \in 1..(n - 1) : Nth[k] = next[Nth[k - 1]]
  BY <1>1, <1>2, <1>4
<1> QED
  BY <1>1, <1>2, <1>6, <1>7, <1>8

\* The blocks of the queue are those up to the last one.
LEMMA InUse ==
  ASSUME IInv, NEW r, Ranking(r), r[frontBlock] = 0, NEW b \in Linked
  PROVE  LastBlock \in Linked /\ (~Free(b) <=> r[b] <= r[LastBlock])
<1> USE DEF IInv
<1>1. PICK n \in Nat : n = LinkedCount /\ n >= 1
  BY LinkedFacts
<1>2. /\ LastBlock \in Linked /\ ~Free(LastBlock) /\ frontBlock \in Linked /\ ~Free(frontBlock)
      /\ \A c \in Linked : next[c] \in Linked
      /\ \A c \in Linked : Free(c) \/ c = LastBlock => Free(next[c]) \/ next[c] = frontBlock
      /\ \A c \in Linked : ~Free(c) /\ c # LastBlock => ~Free(next[c])
  BY Basics DEF Shape, LastBlock, Ring, Circle, Free
<1>3. /\ \A c \in Linked : r[c] \in 0..(n - 1)
      /\ \A c \in Linked : r[next[c]] = IF r[c] = n - 1 THEN 0 ELSE r[c] + 1
      /\ \A k \in 0..(n - 1) : \E c \in Linked : r[c] = k
      /\ \A c, d \in Linked : r[c] = r[d] => c = d
  BY <1>1 DEF Ranking
<1> DEFINE Bad(c) == c \in Linked /\ ~(~Free(c) <=> r[c] <= r[LastBlock])
           S == {r[c] : c \in {x \in Linked : Bad(x)}}
<1>4. ASSUME NEW c \in Linked, Bad(c)
      PROVE  \E p \in Linked : Bad(p) /\ r[p] < r[c]
  <2>1. c # frontBlock /\ r[c] # 0
    BY <1>2, <1>3, <1>4
  <2>2. PICK p \in Linked : r[p] = r[c] - 1
    BY <1>1, <1>3, <2>1
  <2>3. next[p] = c
    <3>1. r[next[p]] = r[c]
      BY <1>1, <1>3, <2>1, <2>2
    <3> QED
      BY <1>2, <1>3, <3>1
  <2>4. CASE Free(c)
    <3>1. r[c] <= r[LastBlock] /\ r[p] < r[LastBlock]
      BY <1>2, <1>3, <1>4, <2>1, <2>2, <2>4
    <3>2. Free(p)
      BY <1>2, <1>3, <2>3, <2>4, <3>1
    <3> QED
      BY <1>2, <1>3, <2>2, <3>1, <3>2
  <2>5. CASE ~Free(c)
    <3>1. r[LastBlock] < r[c] /\ r[LastBlock] <= r[p]
      BY <1>2, <1>3, <1>4, <2>1, <2>2, <2>5
    <3>2. ~Free(p) /\ p # LastBlock
      BY <1>2, <2>1, <2>3, <2>5
    <3>3. r[LastBlock] < r[p]
      BY <1>2, <1>3, <3>1, <3>2
    <3> QED
      BY <1>2, <1>3, <2>2, <3>2, <3>3
  <2> QED
    BY <2>4, <2>5
<1>5. ~Bad(b)
  <2> SUFFICES ASSUME Bad(b) PROVE FALSE
    OBVIOUS
  <2> HIDE DEF Bad
  <2>1. S \subseteq Nat /\ S # {}
    BY <1>3
  <2>2. PICK m \in S : \A j \in S : m <= j
    BY <2>1, Least
  <2>3. PICK c \in Linked : Bad(c) /\ r[c] = m
    OBVIOUS
  <2>4. PICK p \in Linked : Bad(p) /\ r[p] < r[c]
    BY <1>4, <2>3
  <2>5. m <= r[p] /\ r[p] \in Nat /\ r[c] \in Nat
    BY <1>3, <2>2, <2>4
  <2> QED
    BY <2>3, <2>4, <2>5
<1> QED
  BY <1>2, <1>5

\* A position that runs past the end of a block goes on at its start.
LEMMA Wraps ==
  ASSUME NEW s \in Nat \ {0}, NEW x \in Nat, x < s + s
  PROVE  x % s = IF x < s THEN x ELSE x - s
OBVIOUS

\* The number in the slot of the x-th element: the slot being given back is raw.
Values == [x \in Nat |-> IF cpc = "advanceFront" /\ x = dequeued + 1 THEN 0 ELSE x]

\* The elements of a block are the numbers from its oldest one on.
LEMMA ElementsAre ==
  ASSUME IInv, NEW b \in Linked, ~Free(b), NEW o \in Nat, o = Oldest(b) - 1,
         cpc = "advanceFront" /\ b # frontBlock => o > dequeued
  PROVE  Elements(b) = Cut(Values, o, o + Count(b))
<1> USE DEF IInv
<1>1. b \in 1..blocks /\ b \in Block
  BY Basics
<1>2. PICK n, s, f : n = Count(b) /\ s = size[b] /\ f = front[b]
  OBVIOUS
<1>3. /\ n \in Nat /\ n < s /\ s \in Nat \ {0} /\ f \in Nat /\ f < s /\ s <= SlotLimit
      /\ dequeued \in Nat /\ Oldest(b) \in Nat
  BY <1>1, <1>2, TailSlot, BlockFacts, CellTypes
<1>4. (o + n) - o = n
  BY <1>3
<1>5. ASSUME NEW k \in 1..n PROVE data[b][(f + k - 1) % s] = Values[o + k]
  <2>1. PICK i : i = (f + k - 1) % s
    OBVIOUS
  <2>2. i = IF f + k - 1 < s THEN f + k - 1 ELSE f + k - 1 - s
    <3>1. PICK x \in Nat : x = f + k - 1 /\ x < s + s
      BY <1>3
    <3>2. x % s = IF x < s THEN x ELSE x - s
      BY <1>3, <3>1, Wraps
    <3>3. i = x % s
      BY <2>1, <3>1, Zenon
    <3>4. i = IF x < s THEN x ELSE x - s
      BY <3>2, <3>3, Zenon
    <3> QED
      BY <1>3, <3>1, <3>4
  <2>3. i \in Nat /\ i < s /\ i \in Slot
    <3>1. i \in Nat /\ i < s
      BY <1>3, <2>2
    <3> QED
      BY <1>3, <3>1, SlotLimitFacts DEF Slot
  <2>4. Dist(b, front[b], i) = k - 1
    BY <1>2, <1>3, <2>2 DEF Dist
  <2>5. Occupied(b, i)
    BY <1>2, <1>3, <2>3, <2>4 DEF Occupied
  <2>6. o + k \in Nat /\ Oldest(b) + (k - 1) = o + k
    BY <1>3
  <2>7. CASE Destroying(b, i)
    <3>1. data[b][i] = 0
      BY <1>1, <2>3, <2>7 DEF Cells, RawStorage
    <3>2. cpc = "advanceFront" /\ b = frontBlock /\ k = 1
      BY <1>2, <1>3, <2>2, <2>7 DEF Destroying
    <3>3. o + k = dequeued + 1
      BY <1>3, <3>2 DEF Oldest
    <3> QED
      BY <2>1, <2>6, <3>1, <3>2, <3>3 DEF Values
  <2>8. CASE ~Destroying(b, i)
    <3>1. data[b][i] = o + k
      BY <1>1, <2>3, <2>4, <2>5, <2>6, <2>8 DEF Cells, Filled
    <3>2. ~(cpc = "advanceFront" /\ o + k = dequeued + 1)
      <4>1. CASE b # frontBlock
        BY <1>3, <4>1
      <4>2. CASE b = frontBlock
        <5>1. Oldest(b) = dequeued + 1
          BY <4>2 DEF Oldest
        <5>2. k = 1 => i = f
          BY <1>3, <2>2
        <5> QED
          BY <1>2, <1>3, <2>8, <4>2, <5>1, <5>2 DEF Destroying
      <4> QED
        BY <4>1, <4>2
    <3> QED
      BY <2>1, <2>6, <3>1, <3>2 DEF Values
  <2> QED
    BY <2>7, <2>8
<1> QED
  BY <1>2, <1>4, <1>5 DEF Elements, Cut


\* Where the elements of the n first blocks end.
Ends(r) ==
    [k \in 0..LinkedCount |->
       IF k = 0 THEN dequeued
       ELSE LET b == Nth[IF k - 1 <= r[LastBlock] THEN k - 1 ELSE r[LastBlock]]
            IN  Oldest(b) + Count(b) - 1]

\* Each block of the queue starts where the one before it ends.
LEMMA EndsAre ==
  ASSUME IInv, NEW r, Ranking(r), r[frontBlock] = 0
  PROVE  /\ r[LastBlock] \in 0..(LinkedCount - 1)
         /\ Ends(r)[0] = dequeued
         /\ \A k \in 1..LinkedCount : k - 1 <= r[LastBlock] =>
              /\ Ends(r)[k - 1] = Oldest(Nth[k - 1]) - 1
              /\ Ends(r)[k] = Ends(r)[k - 1] + Count(Nth[k - 1])
         /\ \A k \in 1..LinkedCount : k - 1 > r[LastBlock] => Ends(r)[k] = Ends(r)[k - 1]
         /\ \A k \in 1..LinkedCount : Count(Nth[k - 1]) \in Nat /\ Oldest(Nth[k - 1]) \in Nat
         /\ \A k \in 1..LinkedCount : k - 1 >= r[LastBlock] =>
              Ends(r)[k] = Oldest(LastBlock) + Count(LastBlock) - 1
<1> USE DEF IInv
<1>1. PICK n \in Nat : n = LinkedCount /\ n >= 1
  BY LinkedFacts
<1>2. /\ LastBlock \in Linked
      /\ \A b \in Linked : ~Free(b) <=> r[b] <= r[LastBlock]
  BY Basics, InUse
<1>3. PICK L \in 0..(n - 1) : L = r[LastBlock]
  BY <1>1, <1>2 DEF Ranking
<1>4. /\ \A k \in 0..(n - 1) : Nth[k] \in Linked /\ r[Nth[k]] = k
      /\ \A b \in Linked : Nth[r[b]] = b
      /\ \A k \in 1..(n - 1) : Nth[k] = next[Nth[k - 1]]
  BY <1>1, NthRanks
<1>5. /\ \A k \in 0..(n - 1) : Count(Nth[k]) \in Nat /\ Oldest(Nth[k]) \in Nat
  BY <1>4, Basics, TailSlot, CellTypes
<1>6. Nth[0] = frontBlock
  BY <1>4, Basics
<1>7. Oldest(Nth[0]) - 1 = dequeued
  <2>1. Oldest(Nth[0]) = dequeued + 1 /\ dequeued \in Nat
    BY <1>6, CellTypes DEF Oldest
  <2> QED
    BY <2>1
<1>8. ASSUME NEW k \in 1..(n - 1), k <= L
      PROVE  Oldest(Nth[k]) = Oldest(Nth[k - 1]) + Count(Nth[k - 1])
  <2>1. k - 1 \in 0..(n - 1) /\ k - 1 < L
    BY <1>3, <1>8
  <2>2. ~Free(Nth[k - 1]) /\ Nth[k - 1] # LastBlock /\ Nth[k - 1] \in Linked
    BY <1>2, <1>3, <1>4, <2>1
  <2> QED
    BY <1>4, <2>2 DEF Cells, Filled
<1> DEFINE e == Ends(r)
<1>9. /\ e[0] = dequeued
      /\ \A k \in 1..n : k - 1 <= L => e[k] = Oldest(Nth[k - 1]) + Count(Nth[k - 1]) - 1
      /\ \A k \in 1..n : k - 1 > L => e[k] = Oldest(Nth[L]) + Count(Nth[L]) - 1
  BY <1>1, <1>3 DEF Ends
<1> HIDE DEF e
<1>10. ASSUME NEW k \in 1..n, k - 1 <= L
       PROVE  e[k - 1] = Oldest(Nth[k - 1]) - 1 /\ e[k] = e[k - 1] + Count(Nth[k - 1])
  <2>1. k - 1 \in 0..(n - 1)
    OBVIOUS
  <2>2. e[k - 1] = Oldest(Nth[k - 1]) - 1
    <3>1. CASE k = 1
      BY <1>7, <1>9, <3>1
    <3>2. CASE k # 1
      <4>1. k - 1 \in 1..n /\ (k - 1) - 1 <= L /\ (k - 1) \in 1..(n - 1)
        BY <1>3, <1>10, <3>2
      <4>2. e[k - 1] = Oldest(Nth[(k - 1) - 1]) + Count(Nth[(k - 1) - 1]) - 1
        BY <1>9, <4>1
      <4>3. Oldest(Nth[k - 1]) = Oldest(Nth[(k - 1) - 1]) + Count(Nth[(k - 1) - 1])
        BY <1>8, <1>10, <4>1
      <4> DEFINE O == Oldest(Nth[(k - 1) - 1])
                 C == Count(Nth[(k - 1) - 1])
      <4> HIDE DEF O, C
      <4>4. e[k - 1] = O + C - 1 /\ Oldest(Nth[k - 1]) = O + C
        BY <4>2, <4>3, Zenon DEF O, C
      <4>5. O \in Nat /\ C \in Nat
        BY <1>5, <4>1 DEF O, C
      <4> QED
        BY <4>4, <4>5
    <3> QED
      BY <3>1, <3>2
  <2>3. e[k] = Oldest(Nth[k - 1]) + Count(Nth[k - 1]) - 1
    BY <1>9, <1>10
  <2>4. Count(Nth[k - 1]) \in Nat /\ Oldest(Nth[k - 1]) \in Nat
    BY <1>5, <2>1
  <2> QED
    BY <2>2, <2>3, <2>4
<1>11. ASSUME NEW k \in 1..n, k - 1 > L PROVE e[k] = e[k - 1]
  <2>1. e[k] = Oldest(Nth[L]) + Count(Nth[L]) - 1
    BY <1>9, <1>11
  <2>2. k - 1 \in 1..n
    BY <1>3, <1>11
  <2>3. CASE (k - 1) - 1 > L
    BY <1>9, <2>1, <2>2, <2>3
  <2>4. CASE ~((k - 1) - 1 > L)
    <3>1. (k - 1) - 1 = L
      BY <1>3, <1>11, <2>2, <2>4
    <3> QED
      BY <1>9, <2>1, <2>2, <3>1
  <2> QED
    BY <2>3, <2>4
<1>12. \A k \in 1..n : Count(Nth[k - 1]) \in Nat /\ Oldest(Nth[k - 1]) \in Nat
  BY <1>5
<1>13. ASSUME NEW k \in 1..n, k - 1 >= L
       PROVE  e[k] = Oldest(LastBlock) + Count(LastBlock) - 1
  <2>1. Nth[L] = LastBlock
    BY <1>2, <1>3, <1>4
  <2>2. k - 1 > L \/ k - 1 = L
    BY <1>3, <1>13
  <2>3. e[k] = Oldest(Nth[L]) + Count(Nth[L]) - 1
    BY <1>3, <1>9, <2>2
  <2> QED
    BY <2>1, <2>3
<1>14. e = Ends(r)
  BY DEF e
<1> QED
  BY <1>1, <1>3, <1>9, <1>10, <1>11, <1>12, <1>13, <1>14

\* The blocks from the front block on hold consecutive numbers.
LEMMA CircleIs ==
  ASSUME IInv, NEW r, Ranking(r), r[frontBlock] = 0, NEW m \in 1..LinkedCount
  PROVE  /\ FlattenSeq([k \in 1..m |-> Elements(Nth[k - 1])])
              = Cut(Values, dequeued, Ends(r)[m])
         /\ Ends(r)[m] \in Nat /\ dequeued <= Ends(r)[m]
<1> USE DEF IInv
<1>1. PICK n \in Nat : n = LinkedCount /\ n >= 1
  BY LinkedFacts
<1>2. PICK e : e = Ends(r)
  OBVIOUS
<1>3. PICK L \in 0..(n - 1) : L = r[LastBlock]
  BY <1>1, EndsAre
<1>4. /\ e[0] = dequeued /\ dequeued \in Nat
      /\ \A k \in 1..n : k - 1 <= L =>
              /\ e[k - 1] = Oldest(Nth[k - 1]) - 1
              /\ e[k] = e[k - 1] + Count(Nth[k - 1])
      /\ \A k \in 1..n : k - 1 > L => e[k] = e[k - 1]
      /\ \A k \in 1..n : Count(Nth[k - 1]) \in Nat /\ Oldest(Nth[k - 1]) \in Nat
  BY <1>1, <1>2, <1>3, EndsAre, CellTypes
<1>5. \A k \in 0..n : e[k] \in Int
  <2> SUFFICES ASSUME NEW k \in 0..n PROVE e[k] \in Int
    OBVIOUS
  <2>1. CASE k = 0
    BY <1>4, <2>1
  <2>2. CASE k # 0 /\ k - 1 <= L
    BY <1>4, <2>2
  <2>3. CASE k # 0 /\ k - 1 > L
    <3>1. L + 1 \in 1..n /\ (L + 1) - 1 <= L /\ (L + 1) - 1 = L
      BY <1>3
    <3>2. e[L + 1] \in Int
      BY <1>4, <3>1
    <3> DEFINE S == {i \in 0..n : i > L + 1 /\ e[i] \notin Int}
    <3>3. S = {}
      <4> SUFFICES ASSUME S # {} PROVE FALSE
        OBVIOUS
      <4>1. S \subseteq Nat
        OBVIOUS
      <4>2. PICK i \in S : \A j \in S : i <= j
        BY <4>1, Least
      <4>3. i \in 1..n /\ i - 1 > L /\ i - 1 \in 0..n /\ i - 1 \notin S
        BY <1>3, <4>2
      <4>4. e[i] = e[i - 1]
        BY <1>4, <4>3
      <4>5. i - 1 > L + 1 \/ i - 1 = L + 1
        BY <1>3, <4>3
      <4> QED
        BY <3>2, <4>2, <4>3, <4>4, <4>5
    <3>4. k > L + 1 \/ k = L + 1
      BY <1>3, <2>3
    <3> QED
      BY <3>2, <3>3, <3>4
  <2> QED
    BY <2>1, <2>2, <2>3
<1>6. \A k \in 1..n : e[k - 1] <= e[k]
  <2> SUFFICES ASSUME NEW k \in 1..n PROVE e[k - 1] <= e[k]
    OBVIOUS
  <2>1. k - 1 \in 0..n /\ k \in 0..n
    OBVIOUS
  <2>2. e[k - 1] \in Int /\ e[k] \in Int /\ Count(Nth[k - 1]) \in Nat
    BY <1>4, <1>5, <2>1
  <2>3. CASE k - 1 <= L
    BY <1>4, <2>2, <2>3
  <2>4. CASE k - 1 > L
    BY <1>4, <2>2, <2>4
  <2> QED
    BY <1>3, <2>3, <2>4
<1>7. ASSUME NEW a \in 0..n, NEW b \in 0..n, a <= b PROVE e[a] <= e[b]
  BY <1>5, <1>6, <1>7, Ascends
<1>8. \A k \in 0..n : e[k] \in Nat /\ dequeued <= e[k]
  <2> SUFFICES ASSUME NEW k \in 0..n PROVE e[k] \in Nat /\ dequeued <= e[k]
    OBVIOUS
  <2>1. 0 \in 0..n /\ 0 <= k
    OBVIOUS
  <2>2. e[0] <= e[k] /\ e[k] \in Int
    BY <1>5, <1>7, <2>1
  <2> QED
    BY <1>4, <2>2
<1>9. /\ \A k \in 0..(n - 1) : Nth[k] \in Linked /\ r[Nth[k]] = k
      /\ \A b \in Linked : Nth[r[b]] = b
      /\ \A b \in Linked : ~Free(b) <=> r[b] <= L
  BY <1>1, <1>3, NthRanks, InUse
<1>10. ASSUME NEW k \in 1..n
       PROVE  Elements(Nth[k - 1]) = Cut(Values, e[k - 1], e[k])
  <2>1. k - 1 \in 0..(n - 1) /\ k - 1 \in 0..n
    OBVIOUS
  <2>2. PICK b \in Linked : b = Nth[k - 1] /\ r[b] = k - 1
    BY <1>9, <2>1
  <2>3. CASE k - 1 <= L
    <3>1. ~Free(b)
      BY <1>9, <2>2, <2>3
    <3>2. e[k - 1] \in Nat /\ e[k - 1] = Oldest(b) - 1 /\ e[k] = e[k - 1] + Count(b)
      BY <1>4, <1>8, <2>1, <2>2, <2>3
    <3>3. ASSUME cpc = "advanceFront", b # frontBlock PROVE e[k - 1] > dequeued
      <4>1. k - 1 # 0
        BY <1>9, <2>2, <3>3, Basics
      <4>2. 1 \in 1..n /\ 1 \in 0..n /\ 1 <= k - 1 /\ 1 - 1 = 0
        BY <4>1
      <4>3. e[1] <= e[k - 1]
        BY <1>7, <2>1, <4>2
      <4>4. Nth[0] = frontBlock
        BY <1>9, Basics
      <4>5. Count(frontBlock) \in Nat /\ Count(frontBlock) # 0
        BY <3>3, DestroyedSlot, TailSlot
      <4>6. e[1] = dequeued + Count(frontBlock)
        BY <1>3, <1>4, <4>2, <4>4
      <4>7. e[k - 1] \in Nat
        BY <3>2
      <4> QED
        BY <1>4, <4>3, <4>5, <4>6, <4>7
    <3>4. Elements(b) = Cut(Values, e[k - 1], e[k - 1] + Count(b))
      BY <3>1, <3>2, <3>3, ElementsAre
    <3> QED
      BY <2>2, <3>2, <3>4
  <2>4. CASE ~(k - 1 <= L)
    <3>1. Free(b) /\ k - 1 > L
      BY <1>3, <1>9, <2>2, <2>4
    <3>2. Count(b) = 0
      BY <2>2, <3>1, Basics, TailSlot DEF Free
    <3>3. 1..Count(b) = {}
      BY <3>2
    <3>4. Elements(b) = << >>
      BY <3>3 DEF Elements
    <3>5. e[k] = e[k - 1] /\ e[k] \in Nat
      BY <1>4, <1>8, <3>1
    <3>6. 1..(e[k] - e[k - 1]) = {}
      BY <3>5
    <3>7. Cut(Values, e[k - 1], e[k]) = << >>
      BY <3>6 DEF Cut
    <3> QED
      BY <2>2, <3>4, <3>7
  <2> QED
    BY <2>3, <2>4
<1> DEFINE s == [k \in 1..m |-> Elements(Nth[k - 1])]
           t == [k \in 1..m |-> Cut(Values, e[k - 1], e[k])]
<1>11. m \in 1..n /\ m \in Nat /\ m >= 1 /\ 1..m \subseteq 1..n /\ 0..m \subseteq 0..n
  BY <1>1
<1>12. s = t
  BY <1>10, <1>11
<1>13. FlattenSeq(t) = Cut(Values, e[0], e[m])
  <2> HIDE DEF t
  <2>0. t = [k \in 1..m |-> Cut(Values, e[k - 1], e[k])]
    BY DEF t
  <2>1. (\A k \in 0..m : e[k] \in Nat) /\ (\A k \in 1..m : e[k - 1] <= e[k])
    BY <1>6, <1>8, <1>11
  <2> QED
    BY <1>11, <2>0, <2>1, FlattenCuts
<1>14. e[m] \in Nat /\ dequeued <= e[m]
  BY <1>8, <1>11
<1> QED
  BY <1>2, <1>4, <1>12, <1>13, <1>14

-----------------------------------------------------------------------------
(* Contents is the run of the numbers in the queue *)

\* What the last block of the queue holds are numbers.
LEMMA LastFacts ==
  ASSUME IInv
  PROVE  Oldest(LastBlock) \in Nat /\ Count(LastBlock) \in Nat
<1> USE DEF IInv
<1>1. LastBlock \in Linked
  BY Basics DEF LastBlock, Shape
<1>2. LastBlock \in 1..blocks /\ LastBlock \in Block
  BY <1>1, Basics
<1> QED
  BY <1>2, TailSlot, CellTypes

\* From the front block up to the tail block, the element the consumer has
\* destroyed and not given back included.
LEMMA ContentsIs == IInv /\ Capacity => Contents = Run(dequeued, enqueued - dequeued)
<1> SUFFICES ASSUME IInv, Capacity
             PROVE  Contents = Run(dequeued, enqueued - dequeued)
  OBVIOUS
<1> USE DEF IInv
<1>1. PICK r : Ranking(r) /\ r[frontBlock] = 0
  BY RankingFrom, Basics DEF Capacity
<1>2. PICK n \in Nat : n = LinkedCount /\ n >= 1
  BY LinkedFacts
<1>3. /\ \A k \in 0..(n - 1) : Nth[k] \in Linked /\ r[Nth[k]] = k
      /\ \A b \in Linked : Nth[r[b]] = b
      /\ n <= MaxBlocks /\ MaxBlocks \in Nat
  BY <1>1, <1>2, NthRanks, Basics
<1>4. PICK l \in 0..(n - 1) : l = r[tailBlock] /\ Nth[l] = tailBlock
  BY <1>1, <1>2, <1>3, Basics DEF Ranking
<1> DEFINE P(j) == Nth[j] = tailBlock /\ \A m \in 0..(j - 1) : Nth[m] # tailBlock
           last == CHOOSE j \in 0..MaxBlocks : P(j)
<1>5. last = l
  <2>1. l \in 0..MaxBlocks
    BY <1>2, <1>3
  <2>2. P(l)
    <3> SUFFICES ASSUME NEW m \in 0..(l - 1) PROVE Nth[m] # tailBlock
      BY <1>4
    <3>1. m \in 0..(n - 1) /\ m # l
      BY <1>2, <1>4
    <3> QED
      BY <1>3, <1>4, <3>1
  <2>3. ASSUME NEW j \in 0..MaxBlocks, P(j) PROVE j = l
    <3>1. CASE j < l
      <4>1. j \in 0..(n - 1)
        BY <1>2, <1>4, <3>1
      <4>2. r[Nth[j]] = j
        BY <1>3, <4>1
      <4> QED
        BY <1>4, <2>3, <3>1, <4>2
    <3>2. CASE l < j
      <4>1. l \in 0..(j - 1)
        BY <1>4, <3>2
      <4> QED
        BY <1>4, <2>3, <4>1
    <3> QED
      BY <1>2, <1>4, <3>1, <3>2
  <2> HIDE DEF P
  <2> QED
    BY <2>1, <2>2, <2>3
<1> DEFINE F(x) == FlattenSeq([k \in 1..(x + 1) |-> Elements(Nth[k - 1])])
           raw == F(l)
<1>6. Contents = IF cpc = "advanceFront" THEN [raw EXCEPT ![1] = got] ELSE raw
  <2>1. Contents = IF cpc = "advanceFront" THEN [F(last) EXCEPT ![1] = got] ELSE F(last)
    BY Zenon DEF Contents
  <2> HIDE DEF F, last
  <2> QED
    BY <1>5, <2>1 DEF raw
<1>7. /\ enqueued \in Nat /\ dequeued \in Nat /\ dequeued <= enqueued
  BY CellTypes DEF Cells, Numbers
<1>8. Ends(r)[l + 1] = enqueued
  <2>1. l + 1 \in 1..n /\ (l + 1) - 1 = l
    BY <1>2
  <2>2. CASE ppc # "advance"
    <3>1. LastBlock = tailBlock
      BY <2>2 DEF LastBlock
    <3>2. Ends(r)[l + 1] = Oldest(LastBlock) + Count(LastBlock) - 1
      BY <1>1, <1>2, <1>4, <2>1, <3>1, EndsAre
    <3>3. Oldest(LastBlock) + Count(LastBlock) = enqueued + 1
      BY <1>7, <2>2 DEF Cells, Filled
    <3> QED
      BY <1>7, <3>2, <3>3, LastFacts
  <2>3. CASE ppc = "advance"
    <3>1. /\ LastBlock = pblock /\ pblock = next[tailBlock] /\ pblock # frontBlock
          /\ Count(pblock) = 1 /\ pblock \in Linked
      BY <2>3 DEF LastBlock, Ring, ProducerAt, Shape
    <3>2. r[pblock] = l + 1 /\ l + 1 \in 0..(n - 1)
      <4>1. r[pblock] = IF l = n - 1 THEN 0 ELSE l + 1
        BY <1>1, <1>2, <1>4, <3>1, Basics DEF Ranking
      <4>2. r[pblock] # 0
        BY <1>1, <3>1, Basics DEF Ranking
      <4> QED
        BY <1>4, <4>1, <4>2
    <3>3. PICK k \in 1..n : k - 1 = l + 1
      BY <1>2, <3>2
    <3>4. Nth[l + 1] = pblock
      BY <1>3, <3>1, <3>2
    <3>5. Ends(r)[k - 1] = Oldest(Nth[k - 1]) - 1
      <4>1. k \in 1..LinkedCount /\ k - 1 <= r[LastBlock]
        BY <1>2, <3>1, <3>2, <3>3
      <4> QED
        BY <1>1, <4>1, EndsAre
    <3>6. Oldest(pblock) + 1 = enqueued + 2
      BY <1>7, <2>3, <3>1 DEF Cells, Filled
    <3>7. Oldest(pblock) \in Nat
      BY <3>1, Basics, CellTypes
    <3>8. Ends(r)[l + 1] = Oldest(pblock) - 1
      BY <3>3, <3>4, <3>5
    <3> QED
      BY <1>7, <3>6, <3>7, <3>8
  <2> QED
    BY <2>2, <2>3
<1>9. raw = Cut(Values, dequeued, enqueued)
  <2>1. l + 1 \in 1..LinkedCount
    BY <1>2
  <2> QED
    BY <1>1, <1>8, <2>1, CircleIs
<1>10. PICK d, z : d = dequeued /\ z = enqueued - dequeued /\ d \in Nat /\ z \in Nat
  BY <1>7
<1>11. raw = [k \in 1..z |-> IF cpc = "advanceFront" /\ k = 1 THEN 0 ELSE d + k]
  <2>1. ASSUME NEW k \in 1..z
        PROVE  Values[d + k] = IF cpc = "advanceFront" /\ k = 1 THEN 0 ELSE d + k
    BY <1>10 DEF Values
  <2> QED
    BY <1>9, <1>10, <2>1 DEF Cut
<1> HIDE DEF raw, last, P, F
<1>12. CASE cpc = "advanceFront"
  <2>1. got = d + 1 /\ z >= 1
    BY <1>7, <1>10, <1>12 DEF Request
  <2>2. [raw EXCEPT ![1] = got] = [k \in 1..z |-> d + k]
    BY <1>10, <1>11, <1>12, <2>1
  <2> QED
    BY <1>6, <1>10, <1>12, <2>2 DEF Run
<1>13. CASE cpc # "advanceFront"
  BY <1>6, <1>10, <1>11, <1>13 DEF Run
<1> QED
  BY <1>12, <1>13

\* The circle of blocks is the abstract FIFO: the walk from block to block loses
\* no element and repeats none.
THEOREM ImplementsFifoCorrect == Spec => ImplementsFifo
<1> DEFINE Same == Contents = Run(dequeued, enqueued - dequeued)
<1>1. Same /\ Numbered!Init => Fifo!Init
  BY DEF Fifo!Init, Numbered!Init
<1>2. Same /\ Same' /\ [Numbered!Next]_(Numbered!vars) => [Fifo!Next]_(Fifo!vars)
  <2> SUFFICES ASSUME Same, Same', Numbered!Next \/ UNCHANGED Numbered!vars
               PROVE  Fifo!Next \/ UNCHANGED Fifo!vars
    OBVIOUS
  <2>1. CASE Numbered!Next
    <3>1. CASE Numbered!EnqueueCall
      BY <3>1 DEF Numbered!EnqueueCall, Fifo!EnqueueCall, Fifo!Next
    <3>2. CASE Numbered!EnqueueTrue
      BY <3>2 DEF Numbered!EnqueueTrue, Fifo!EnqueueTrue, Fifo!Next
    <3>3. CASE Numbered!EnqueueFalse
      BY <3>3 DEF Numbered!EnqueueFalse, Fifo!EnqueueFalse, Fifo!Next
    <3>4. CASE Numbered!DequeueCall
      BY <3>4 DEF Numbered!DequeueCall, Fifo!DequeueCall, Fifo!Next
    <3>5. CASE Numbered!DequeueTrue
      BY <3>5 DEF Numbered!DequeueTrue, Fifo!DequeueTrue, Fifo!Next
    <3>6. CASE Numbered!PeekTrue
      BY <3>6 DEF Numbered!PeekTrue, Fifo!PeekTrue, Fifo!Next
    <3>7. CASE Numbered!DequeueFalse
      BY <3>7 DEF Numbered!DequeueFalse, Fifo!DequeueFalse, Fifo!Next
    <3> QED
      BY <2>1, <3>1, <3>2, <3>3, <3>4, <3>5, <3>6, <3>7 DEF Numbered!Next
  <2>2. CASE UNCHANGED Numbered!vars
    BY <2>2 DEF Numbered!vars, Fifo!vars
  <2> QED
    BY <2>1, <2>2
<1>3. IInv /\ Capacity => Same
  BY ContentsIs
<1> HIDE DEF Same
<1> QED
  BY <1>1, <1>2, <1>3, CapacityCorrect, FifoCorrect, PTL
  DEF ImplementsFifo, Fifo!Spec, Numbered!Spec

-----------------------------------------------------------------------------
(* The destructor *)

\* Once round the circle: every block is freed, every element destroyed.
LEMMA DestructorIs ==
  ASSUME IInv, Capacity, ppc = "idle", cpc = "idle"
  PROVE  /\ Len(Freed) = blocks
         /\ Range(Freed) = 1..blocks
         /\ Destroyed = [k \in 1..QueueSize |-> dequeued + k]
<1> USE DEF IInv
<1>1. PICK r : Ranking(r) /\ r[frontBlock] = 0
  BY RankingFrom, Basics DEF Capacity
<1>2. PICK n \in Nat : n = LinkedCount /\ n >= 1 /\ n = blocks /\ Linked = 1..n
  BY LinkedFacts DEF LinkedCount
<1>3. /\ \A k \in 0..(n - 1) : Nth[k] \in Linked /\ r[Nth[k]] = k
      /\ \A b \in Linked : Nth[r[b]] = b
      /\ n <= MaxBlocks
  BY <1>1, <1>2, NthRanks
<1>3a. /\ \A b \in Linked : r[b] \in 0..(n - 1)
       /\ \A b \in Linked : r[next[b]] = IF r[b] = n - 1 THEN 0 ELSE r[b] + 1
       /\ \A b, c \in Linked : r[b] = r[c] => b = c
  BY <1>1, <1>2 DEF Ranking
<1>3b. MaxBlocks \in Nat /\ frontBlock \in Linked /\ \A b \in Linked : next[b] \in Linked
  BY Basics DEF Shape
<1>4. ASSUME NEW k \in 1..n PROVE next[Nth[k - 1]] = frontBlock <=> k = n
  <2>1. k - 1 \in 0..(n - 1)
    OBVIOUS
  <2>2. PICK b \in Linked : b = Nth[k - 1] /\ r[b] = k - 1
    BY <1>3, <2>1
  <2>3. next[b] \in Linked /\ r[next[b]] = IF k = n THEN 0 ELSE k
    BY <1>2, <1>3a, <1>3b, <2>2
  <2>4. next[b] = frontBlock <=> r[next[b]] = 0
    BY <1>1, <1>3a, <1>3b, <2>3
  <2> QED
    BY <2>2, <2>3, <2>4
<1> DEFINE P(j) == /\ next[Nth[j - 1]] = frontBlock
                   /\ \A m \in 1..(j - 1) : next[Nth[m - 1]] # frontBlock
           once == CHOOSE j \in 1..(MaxBlocks + 1) : P(j)
<1>5. once = n
  <2>1. n \in 1..(MaxBlocks + 1)
    BY <1>2, <1>3, <1>3a, <1>3b, <1>3a, <1>3b
  <2>2. P(n)
    <3>1. next[Nth[n - 1]] = frontBlock
      BY <1>2, <1>4
    <3>2. ASSUME NEW m \in 1..(n - 1) PROVE next[Nth[m - 1]] # frontBlock
      <4>1. m \in 1..n /\ m # n
        BY <1>2
      <4> QED
        BY <1>4, <4>1
    <3> QED
      BY <3>1, <3>2
  <2>3. ASSUME NEW j \in 1..(MaxBlocks + 1), P(j) PROVE j = n
    <3>1. CASE j <= n
      BY <1>2, <1>4, <2>3, <3>1
    <3>2. CASE j > n
      <4>1. n \in 1..(j - 1)
        BY <1>2, <3>2
      <4> QED
        BY <2>2, <2>3, <4>1
    <3> QED
      BY <1>2, <1>3, <1>3a, <1>3b, <3>1, <3>2
  <2> HIDE DEF P
  <2> QED
    BY <2>1, <2>2, <2>3
<1>6. Freed = [k \in 1..n |-> Nth[k - 1]]
  BY <1>5 DEF Freed
<1> HIDE DEF once, P
<1>7. Len(Freed) = blocks /\ DOMAIN Freed = 1..n
  BY <1>2, <1>6
<1>8. Range(Freed) = 1..blocks
  <2>1. ASSUME NEW k \in 1..n PROVE Nth[k - 1] \in 1..n
    <3>1. k - 1 \in 0..(n - 1)
      OBVIOUS
    <3> QED
      BY <1>2, <1>3, <1>3a, <1>3b, <3>1
  <2>2. ASSUME NEW b \in 1..n PROVE \E k \in 1..n : b = Nth[k - 1]
    <3>1. r[b] + 1 \in 1..n /\ (r[b] + 1) - 1 = r[b]
      BY <1>2, <1>3, <1>3a, <1>3b, <1>3a, <1>3b
    <3>2. b = Nth[(r[b] + 1) - 1]
      BY <1>2, <1>3, <1>3a, <1>3b, <3>1
    <3> QED
      BY <3>1, <3>2
  <2>3. Range(Freed) = {Nth[k - 1] : k \in 1..n}
    BY <1>6, <1>7 DEF Range
  <2> QED
    BY <1>2, <2>1, <2>2, <2>3
<1>9. /\ enqueued \in Nat /\ dequeued \in Nat /\ dequeued <= enqueued
  BY CellTypes DEF Cells, Numbers
<1>10. Ends(r)[n] = enqueued
  <2>1. n \in 1..n /\ n - 1 >= r[LastBlock]
    BY <1>1, <1>2, EndsAre
  <2>2. Ends(r)[n] = Oldest(LastBlock) + Count(LastBlock) - 1
    BY <1>1, <1>2, <2>1, EndsAre
  <2>3. Oldest(LastBlock) + Count(LastBlock) = enqueued + 1
    BY <1>9 DEF Cells, Filled
  <2> QED
    BY <1>9, <2>2, <2>3, LastFacts
<1>11. Destroyed = FlattenSeq([k \in 1..n |-> Elements(Nth[k - 1])])
  <2>1. [k \in DOMAIN Freed |-> Elements(Freed[k])]
          = [k \in 1..n |-> Elements(Nth[k - 1])]
    BY <1>6, <1>7
  <2> QED
    BY <2>1 DEF Destroyed
<1>12. Destroyed = Cut(Values, dequeued, enqueued)
  <2>1. n \in 1..LinkedCount
    BY <1>2
  <2>2. FlattenSeq([k \in 1..n |-> Elements(Nth[k - 1])]) = Cut(Values, dequeued, Ends(r)[n])
    BY <1>1, <2>1, CircleIs
  <2> QED
    BY <1>10, <1>11, <2>2
<1>13. Cut(Values, dequeued, enqueued) = [k \in 1..QueueSize |-> dequeued + k]
  <2>1. ASSUME NEW k \in 1..(enqueued - dequeued) PROVE Values[dequeued + k] = dequeued + k
    BY <1>9 DEF Values
  <2> QED
    BY <2>1 DEF Cut, QueueSize
<1> QED
  BY <1>7, <1>8, <1>12, <1>13

\* What ~ReaderWriterQueue() does between two calls: each block malloc returned is
\* freed once, and exactly the elements still in the queue are destroyed.
THEOREM DestructorCorrect == Spec => []DestructorIsExact
<1>1. IInv /\ Capacity /\ ConstructsInRawStorage => DestructorIsExact
  BY DestructorIs DEF DestructorIsExact
<1> QED
  BY <1>1, CapacityCorrect, RawStorageCorrect, PTL
-----------------------------------------------------------------------------
(***************************************************************************)
(* size_approx.  While a thread counts it changes nothing itself, so the   *)
(* walk of the consumer meets a queue that only grows, that of the         *)
(* producer one that only shrinks.  What is counted is compared with how   *)
(* many elements lie before the place the walk has reached.                *)
(***************************************************************************)

\* The number of the last element in the circle: accepted or about to be.
Upto == enqueued + IF ppc = "advance" THEN 1 ELSE 0

\* The number of the last element that lies before block b, counted from the
\* front block on.
Under(b) == IF b = frontBlock THEN dequeued
            ELSE IF Free(b) THEN Upto ELSE Oldest(b) - 1

\* The same from the block a numbering starts from, for a queue that has not
\* grown since: the free blocks before the front block are those it has left.
Past(r, b) == IF r[b] <= r[frontBlock] THEN dequeued
              ELSE IF r[b] <= r[tailBlock] THEN Oldest(b) - 1 ELSE enqueued

Ahead(r) ==
    /\ Ranking(r)
    /\ \A b \in Linked : Free(b) <=> r[b] < r[frontBlock] \/ r[tailBlock] < r[b]

\* What the walk has added for the block it is at.
Added(t) == IF spc[t] = "step" THEN Count(walk[t].at) ELSE 0

\* The consumer has counted no more than there is now up to where it is, and no
\* less than there was.
ConsumerWalk ==
    spc["consumer"] # "off" =>
      /\ cpc = "idle" /\ walk["consumer"].from = frontBlock
      /\ walk["consumer"].sum <= Under(walk["consumer"].at) + Added("consumer") - dequeued
      /\ walk["consumer"].before
           <= walk["consumer"].sum + Upto - (Under(walk["consumer"].at) + Added("consumer"))

\* The producer has counted no less than there is now up to where it is, and no
\* more than there was.
WalkFrom(r) ==
    /\ Ahead(r) /\ r[walk["producer"].from] = 0
    /\ Past(r, walk["producer"].at) + Added("producer") - dequeued <= walk["producer"].sum
    /\ walk["producer"].sum + enqueued - (Past(r, walk["producer"].at) + Added("producer"))
         <= walk["producer"].before

ProducerWalk ==
    spc["producer"] # "off" =>
      /\ ppc = "idle" /\ walk["producer"].from \in Linked
      /\ \E r : WalkFrom(r)

Walks == ConsumerWalk /\ ProducerWalk

-----------------------------------------------------------------------------
(* How many elements lie before a block *)

\* The ranges of these numbers; the last block in use ends the numbering.
LEMMA WalkTypes ==
  ASSUME IInv
  PROVE  /\ enqueued \in Nat /\ dequeued \in Nat /\ dequeued <= enqueued
         /\ Upto \in Nat /\ enqueued <= Upto
         /\ \A b \in Linked : /\ Count(b) \in Nat /\ Oldest(b) \in Nat
                              /\ Under(b) \in Int /\ (Free(b) => Count(b) = 0)
                              /\ \A r : Past(r, b) \in Int
         /\ LastBlock \in Linked /\ ~Free(LastBlock) /\ ~Free(frontBlock)
         /\ Oldest(LastBlock) + Count(LastBlock) = Upto + 1
         /\ Oldest(frontBlock) = dequeued + 1
<1> USE DEF IInv
<1>1. enqueued \in Nat /\ dequeued \in Nat /\ dequeued <= enqueued
  BY CellTypes DEF Cells, Numbers
<1>2. Upto \in Nat /\ enqueued <= Upto
  BY <1>1 DEF Upto
<1>3. ASSUME NEW b \in Linked
      PROVE  Count(b) \in Nat /\ Oldest(b) \in Nat /\ (Free(b) => Count(b) = 0)
  <2>1. b \in 1..blocks /\ b \in Block
    BY Basics
  <2> QED
    BY <2>1, TailSlot, CellTypes DEF Free
<1>4. \A b \in Linked : Under(b) \in Int /\ \A r : Past(r, b) \in Int
  BY <1>1, <1>2, <1>3 DEF Under, Past
<1>5. LastBlock \in Linked /\ ~Free(LastBlock) /\ ~Free(frontBlock)
  BY Basics DEF LastBlock, Shape, Ring, Circle, Free
<1>6. Oldest(LastBlock) + Count(LastBlock) = Upto + 1
  BY <1>1, <1>3, <1>5 DEF Cells, Filled, Upto
<1> QED
  BY <1>1, <1>2, <1>3, <1>4, <1>5, <1>6 DEF Oldest

\* A block's elements lie between it and the next one.
LEMMA UnderNext ==
  ASSUME IInv, NEW b \in Linked
  PROVE  Under(b) + Count(b) = IF next[b] = frontBlock THEN Upto ELSE Under(next[b])
<1> USE DEF IInv
<1>1. /\ next[b] \in Linked
      /\ Free(b) \/ b = LastBlock => Free(next[b]) \/ next[b] = frontBlock
      /\ ~Free(b) /\ b # LastBlock => ~Empty(next[b]) /\ next[b] # frontBlock
      /\ ~Free(b) /\ b # LastBlock => Oldest(next[b]) = Oldest(b) + Count(b)
  BY DEF Shape, Ring, Circle, Cells, Filled
<1> DEFINE U == Under(b)
           K == Count(b)
           O == Oldest(b)
           N == Under(next[b])
           M == Upto
<1>2. /\ U \in Int /\ K \in Nat /\ O \in Nat /\ N \in Int /\ M \in Nat
      /\ Free(b) => K = 0
  BY <1>1, WalkTypes
<1>3. ~Free(b) => U = O - 1
  <2>1. Oldest(frontBlock) = dequeued + 1 /\ dequeued \in Nat
    BY WalkTypes
  <2> QED
    BY <2>1 DEF Under
<1>4. Free(next[b]) => N = M
  BY DEF Under, Free
<1>5. CASE Free(b)
  <2>1. U = M
    BY <1>5 DEF Under, Free
  <2> HIDE DEF U, K, N, M
  <2>2. U + K = M
    BY <1>2, <1>5, <2>1
  <2>3. U + K = IF next[b] = frontBlock THEN M ELSE N
    BY <1>1, <1>4, <1>5, <2>2
  <2> QED
    BY <2>3 DEF U, K, N, M
<1>6. CASE b = LastBlock
  <2>1. ~Free(b) /\ O + K = M + 1
    BY <1>6, WalkTypes
  <2> HIDE DEF U, K, N, M, O
  <2>2. U + K = M
    BY <1>2, <1>3, <2>1
  <2>3. U + K = IF next[b] = frontBlock THEN M ELSE N
    BY <1>1, <1>4, <1>6, <2>2
  <2> QED
    BY <2>3 DEF U, K, N, M
<1>7. CASE ~Free(b) /\ b # LastBlock
  <2>1. N = Oldest(next[b]) - 1
    BY <1>1, <1>7 DEF Under, Free
  <2>2. N = (O + K) - 1
    BY <1>1, <1>7, <2>1
  <2> HIDE DEF U, K, N, M, O
  <2>3. U + K = N
    BY <1>2, <1>3, <1>7, <2>2
  <2>4. U + K = IF next[b] = frontBlock THEN M ELSE N
    BY <1>1, <1>7, <2>3
  <2> QED
    BY <2>4 DEF U, K, N, M
<1> QED
  BY <1>5, <1>6, <1>7

\* The same for the numbering the producer's walk keeps.
LEMMA PastNext ==
  ASSUME IInv, ppc = "idle", NEW r, Ahead(r), NEW b \in Linked
  PROVE  Past(r, b) + Count(b) = IF r[b] = LinkedCount - 1 THEN enqueued ELSE Past(r, next[b])
<1> USE DEF IInv
<1>1. PICK n \in Nat : n = LinkedCount /\ n >= 1
  BY LinkedFacts
<1>2. /\ LastBlock = tailBlock /\ Upto = enqueued
      /\ tailBlock \in Linked /\ frontBlock \in Linked /\ next[b] \in Linked
  <2>1. enqueued \in Nat
    BY WalkTypes
  <2>2. LastBlock = tailBlock /\ Upto = enqueued
    BY <2>1 DEF LastBlock, Upto
  <2> QED
    BY <2>2, Basics DEF Shape
<1>3. /\ \A c \in Linked : r[c] \in 0..(n - 1)
      /\ r[next[b]] = IF r[b] = n - 1 THEN 0 ELSE r[b] + 1
      /\ \A c, d \in Linked : r[c] = r[d] => c = d
      /\ \A c \in Linked : Free(c) <=> r[c] < r[frontBlock] \/ r[tailBlock] < r[c]
  BY <1>1 DEF Ahead, Ranking
<1> DEFINE U == Past(r, b)
           K == Count(b)
           O == Oldest(b)
           N == Past(r, next[b])
           f == r[frontBlock]
           t == r[tailBlock]
           k == r[b]
           d == dequeued
           e == enqueued
<1>4. /\ U \in Int /\ K \in Nat /\ O \in Nat /\ N \in Int /\ d \in Nat /\ e \in Nat
      /\ Free(b) => K = 0
  BY <1>2, WalkTypes
<1>5. f \in 0..(n - 1) /\ t \in 0..(n - 1) /\ k \in 0..(n - 1) /\ f <= t
  <2>1. ~Free(frontBlock)
    BY WalkTypes
  <2> QED
    BY <1>2, <1>3, <2>1
<1>6. U = IF k <= f THEN d ELSE IF k <= t THEN O - 1 ELSE e
  BY DEF Past
<1>7. k # n - 1 => N = IF k + 1 <= f THEN d ELSE IF k + 1 <= t THEN Oldest(next[b]) - 1 ELSE e
  BY <1>3 DEF Past
<1>8. k = f => O = d + 1
  BY <1>2, <1>3, WalkTypes
<1>9. k = t => O + K = e + 1
  BY <1>2, <1>3, WalkTypes
<1>10. f <= k /\ k < t => Oldest(next[b]) = O + K
  <2> SUFFICES ASSUME f <= k, k < t PROVE Oldest(next[b]) = O + K
    OBVIOUS
  <2>1. ~Free(b) /\ b # LastBlock
    BY <1>2, <1>3, <1>5
  <2> QED
    BY <2>1 DEF Cells, Filled
<1>11. k < f \/ t < k => K = 0
  BY <1>3, <1>4
<1>12. f <= k /\ k < t => N = (O + K) - 1
  BY <1>5, <1>7, <1>10
<1> HIDE DEF U, K, O, N, f, t, k, d, e
<1>13. U + K = IF k = n - 1 THEN e ELSE N
  <2>1. CASE k < f
    BY <1>4, <1>5, <1>6, <1>7, <1>11, <2>1
  <2>2. CASE f <= k /\ k < t
    BY <1>4, <1>5, <1>6, <1>8, <1>12, <2>2
  <2>3. CASE f <= k /\ k = t
    BY <1>4, <1>5, <1>6, <1>7, <1>8, <1>9, <2>3
  <2>4. CASE t < k
    BY <1>4, <1>5, <1>6, <1>7, <1>11, <2>4
  <2> QED
    BY <1>5, <2>1, <2>2, <2>3, <2>4
<1> QED
  BY <1>1, <1>13 DEF U, K, O, N, f, t, k, d, e
-----------------------------------------------------------------------------
(* The consumer walks, the producer enqueues *)

\* A step of the producer adds at most what it accepts, and takes nothing away.
LEMMA UnderGrows ==
  ASSUME IInv, Enqueue \/ TryEnqueue \/ InnerEnqueue, NEW b \in Linked
  PROVE  /\ Under(b)' \in Int /\ Count(b)' \in Int /\ Upto' \in Int
         /\ Under(b) <= Under(b)' /\ Count(b) <= Count(b)'
         /\ (Under(b)' - Under(b)) + (Count(b)' - Count(b)) <= Upto' - Upto
<1> USE DEF IInv, blockVars, prodVars, consVars, sizeVars
<1>1. /\ Under(b) \in Int /\ Count(b) \in Nat /\ Upto \in Nat /\ Oldest(b) \in Nat
      /\ enqueued \in Nat /\ dequeued \in Nat /\ (Free(b) => Count(b) = 0)
  BY WalkTypes
<1>2. /\ b \in 1..blocks /\ b \in Block /\ tailBlock \in Linked /\ tailBlock \in 1..blocks
      /\ tailBlock \in Block /\ front[b] \in Slot /\ tail[b] \in Slot
  BY Basics, TailSlot
<1>3. UNCHANGED <<frontBlock, front, dequeued>>
  BY DEF Enqueue, TryEnqueue, BeginEnqueue, InnerEnqueue, LoadFront, Construct,
     PublishTail, CheckNext, LoadNext, ConstructNext, PublishNext, MakeBlock,
     MallocFails, LinkBlock, AdvanceTailBlock
<1>4. ASSUME UNCHANGED <<tail, size>>, Upto' = Upto,
             b # frontBlock /\ ~Free(b) => data'[b][front[b]] = data[b][front[b]]
      PROVE  Under(b)' = Under(b) /\ Count(b)' = Count(b)
  <2>1. Count(b)' = Count(b) /\ Free(b)' = Free(b)
    BY <1>3, <1>4 DEF Count, Dist, Free, Empty
  <2> QED
    BY <1>3, <1>4, <2>1 DEF Under, Oldest
<1>5. CASE \/ Enqueue \/ TryEnqueue \/ LoadFront \/ CheckNext \/ LoadNext \/ MallocFails
  <2>1. /\ UNCHANGED <<tail, size, data, enqueued>> /\ ppc # "advance" /\ ppc' # "advance"
    BY <1>5 DEF Enqueue, TryEnqueue, BeginEnqueue, LoadFront, CheckNext, LoadNext, MallocFails
  <2>2. Upto' = Upto
    BY <2>1 DEF Upto
  <2>3. Under(b)' = Under(b) /\ Count(b)' = Count(b)
    BY <1>4, <2>1, <2>2
  <2> QED
    BY <1>1, <2>2, <2>3
<1>6. CASE Construct \/ ConstructNext
  <2>1. /\ UNCHANGED <<tail, size, enqueued>> /\ ppc # "advance" /\ ppc' # "advance"
    BY <1>6 DEF Construct, ConstructNext
  <2>2. Upto' = Upto
    BY <2>1 DEF Upto
  <2>3. ASSUME b # frontBlock, ~Free(b) PROVE data'[b][front[b]] = data[b][front[b]]
    <3>1. front[b] # tail[b]
      BY <2>3 DEF Free, Empty
    <3>2. CASE Construct
      BY <1>2, <3>1, <3>2 DEF Construct, TypeOK
    <3>3. CASE ConstructNext
      <4>1. pblock # b
        BY <2>3, <3>3 DEF ConstructNext, Ring, ProducerAt
      <4> QED
        BY <1>2, <3>3, <4>1 DEF ConstructNext, TypeOK
    <3> QED
      BY <1>6, <3>2, <3>3
  <2>4. Under(b)' = Under(b) /\ Count(b)' = Count(b)
    BY <1>4, <2>1, <2>2, <2>3
  <2> QED
    BY <1>1, <2>2, <2>4
<1>7. CASE MakeBlock
  <2>1. /\ enqueued' = enqueued /\ ppc # "advance" /\ ppc' # "advance"
        /\ data' = [data EXCEPT ![blocks + 1][0] = Element]
        /\ tail' = [tail EXCEPT ![blocks + 1] = 1]
        /\ size' = [size EXCEPT ![blocks + 1] = size'[blocks + 1]]
    BY <1>7 DEF MakeBlock, TypeOK
  <2>2. Upto' = Upto
    BY <2>1 DEF Upto
  <2>3. b # blocks + 1
    BY <1>2, Basics
  <2>4. tail'[b] = tail[b] /\ size'[b] = size[b] /\ data'[b] = data[b]
    BY <1>2, <2>1, <2>3 DEF TypeOK
  <2>5. Count(b)' = Count(b) /\ Free(b)' = Free(b)
    BY <1>3, <2>4 DEF Count, Dist, Free, Empty
  <2>6. Under(b)' = Under(b)
    BY <1>3, <2>2, <2>4, <2>5 DEF Under, Oldest
  <2> QED
    BY <1>1, <2>2, <2>5, <2>6
<1>8. CASE AdvanceTailBlock
  <2>1. /\ UNCHANGED <<tail, size, data>> /\ enqueued' = enqueued + 1
        /\ ppc = "advance" /\ ppc' = "idle"
    BY <1>8 DEF AdvanceTailBlock
  <2>2. Upto' = Upto
    BY <1>1, <2>1 DEF Upto
  <2>3. Under(b)' = Under(b) /\ Count(b)' = Count(b)
    BY <1>4, <2>1, <2>2
  <2> QED
    BY <1>1, <2>2, <2>3
<1>9. CASE LinkBlock
  <2>1. /\ UNCHANGED <<tail, size, data, enqueued>>
        /\ ppc = "link" /\ ppc' = "advance"
    BY <1>9 DEF LinkBlock
  <2>2. Upto' = Upto + 1
    BY <1>1, <2>1 DEF Upto
  <2>3. Count(b)' = Count(b) /\ Free(b)' = Free(b)
    BY <1>3, <2>1 DEF Count, Dist, Free, Empty
  <2>4. Under(b)' = IF Free(b) THEN Under(b) + 1 ELSE Under(b)
    BY <1>3, <2>1, <2>2, <2>3 DEF Under, Oldest, Free
  <2> QED
    BY <1>1, <2>2, <2>3, <2>4
<1>10. CASE PublishTail
  <2>1. /\ UNCHANGED <<size, data, localFront, localTail>> /\ enqueued' = enqueued + 1
        /\ ppc = "publish" /\ ppc' = "idle"
        /\ tail' = [tail EXCEPT ![tailBlock] = Succ(tailBlock, tail[tailBlock])]
    BY <1>10 DEF PublishTail
  <2>2. Upto' = Upto + 1
    BY <1>1, <2>1 DEF Upto
  <2>3. CASE b = tailBlock
    <3>1. Ordered(b) /\ Succ(b, tail[b]) # localFront[b]
      BY <1>2, <2>1, <2>3 DEF Ring, Positions
    <3>2. tail'[b] = Succ(b, tail[b])
      BY <1>2, <2>1, <2>3 DEF TypeOK
    <3>3. Count(b)' = Count(b) + 1 /\ front[b] # tail'[b]
      BY <1>2, <1>3, <2>1, <3>1, <3>2, TailForward
    <3>4. ~Free(b) /\ ~Free(b)'
      <4>1. ~Free(LastBlock)
        BY WalkTypes
      <4> QED
        BY <1>3, <2>1, <2>3, <3>3, <4>1 DEF LastBlock, Free, Empty
    <3>5. Under(b)' = Under(b)
      BY <1>3, <2>1, <3>4 DEF Under, Oldest
    <3> QED
      BY <1>1, <2>2, <3>3, <3>5
  <2>4. CASE b # tailBlock
    <3>1. tail'[b] = tail[b]
      BY <1>2, <2>1, <2>4 DEF TypeOK
    <3>2. Count(b)' = Count(b) /\ Free(b)' = Free(b)
      BY <1>3, <2>1, <3>1 DEF Count, Dist, Free, Empty
    <3>3. Under(b)' = IF Free(b) THEN Under(b) + 1 ELSE Under(b)
      BY <1>3, <2>1, <2>2, <3>2 DEF Under, Oldest, Free
    <3> QED
      BY <1>1, <2>2, <3>2, <3>3
  <2> QED
    BY <2>3, <2>4
<1>11. CASE PublishNext
  <2>1. /\ UNCHANGED <<size, data, localFront, localTail>> /\ enqueued' = enqueued
        /\ ppc = "publishNext" /\ ppc' = "advance"
        /\ tail' = [tail EXCEPT ![pblock] = Succ(pblock, tail[pblock])]
    BY <1>11 DEF PublishNext
  <2>2. Upto' = Upto + 1 /\ Upto = enqueued
    BY <1>1, <2>1 DEF Upto
  <2>3. CASE b = pblock
    <3>1. Free(b) /\ front[b] = tail[b] /\ Count(b) = 0 /\ Under(b) = Upto
      BY <1>1, <2>1, <2>3 DEF Ring, ProducerAt, Free, Empty, Under
    <3>2. tail'[b] = Succ(b, tail[b])
      BY <1>2, <2>1, <2>3 DEF TypeOK
    <3>3. Count(b)' = 1 /\ tail'[b] # front[b]
      <4>1. size[b] \in Nat /\ size[b] >= 2 /\ tail[b] \in Nat /\ tail[b] < size[b]
        BY <1>2, BlockFacts
      <4> QED
        BY <1>3, <2>1, <3>1, <3>2, <4>1 DEF Count, Dist, Succ
    <3>4. data[b][front[b]] = enqueued + 1
      <4>1. Pending(b, front[b])
        BY <2>1, <2>3, <3>1 DEF Pending
      <4> QED
        BY <1>2, <4>1 DEF Cells, Numbers, Element
    <3>5. Under(b)' = enqueued
      BY <1>1, <1>3, <2>1, <3>1, <3>3, <3>4 DEF Under, Oldest, Free, Empty
    <3> QED
      BY <1>1, <2>2, <3>1, <3>3, <3>5
  <2>4. CASE b # pblock
    <3>1. tail'[b] = tail[b]
      BY <1>2, <2>1, <2>4 DEF TypeOK
    <3>2. Count(b)' = Count(b) /\ Free(b)' = Free(b)
      BY <1>3, <2>1, <3>1 DEF Count, Dist, Free, Empty
    <3>3. Under(b)' = IF Free(b) THEN Under(b) + 1 ELSE Under(b)
      BY <1>3, <2>1, <2>2, <3>2 DEF Under, Oldest, Free
    <3> QED
      BY <1>1, <2>2, <3>2, <3>3
  <2> QED
    BY <2>3, <2>4
<1> QED
  BY <1>5, <1>6, <1>7, <1>8, <1>9, <1>10, <1>11 DEF InnerEnqueue

\* The consumer's count keeps its place.
LEMMA ConsumerWalkProducer ==
  ASSUME IInv, ConsumerWalk, Enqueue \/ TryEnqueue \/ InnerEnqueue
  PROVE  ConsumerWalk'
<1> USE DEF IInv
<1>1. UNCHANGED <<spc, walk, cpc, frontBlock, dequeued>>
  BY DEF Enqueue, TryEnqueue, BeginEnqueue, InnerEnqueue, LoadFront, Construct,
     PublishTail, CheckNext, LoadNext, ConstructNext, PublishNext, MakeBlock,
     MallocFails, LinkBlock, AdvanceTailBlock, blockVars, prodVars, consVars, sizeVars
<1> SUFFICES ASSUME spc["consumer"] # "off" PROVE ConsumerWalk'
  BY <1>1 DEF ConsumerWalk
<1>2. PICK b : b = walk["consumer"].at
  OBVIOUS
<1>3. b \in Linked
  BY <1>2 DEF Shape, Threads
<1>4. PICK s : s = walk["consumer"].sum /\ s \in Nat
  BY DEF TypeOK, Threads
<1>5. PICK w : w = walk["consumer"].before /\ w \in Int
  BY DEF TypeOK, Threads
<1> DEFINE U == Under(b)
           V == Under(b)'
           K == Count(b)
           L == Count(b)'
           M == Upto
           N == Upto'
           d == dequeued
<1>6. /\ U \in Int /\ V \in Int /\ K \in Int /\ L \in Int /\ M \in Int /\ N \in Int /\ d \in Int
      /\ U <= V /\ K <= L /\ (V - U) + (L - K) <= N - M
  BY <1>3, UnderGrows, WalkTypes
<1>7. /\ cpc = "idle" /\ walk["consumer"].from = frontBlock
      /\ s <= U + (IF spc["consumer"] = "step" THEN K ELSE 0) - d
      /\ w <= s + M - (U + (IF spc["consumer"] = "step" THEN K ELSE 0))
  BY <1>2, <1>4, <1>5 DEF ConsumerWalk, Added
<1> HIDE DEF U, V, K, L, M, N, d
<1>8. /\ s <= V + (IF spc["consumer"] = "step" THEN L ELSE 0) - d
      /\ w <= s + N - (V + (IF spc["consumer"] = "step" THEN L ELSE 0))
  BY <1>4, <1>5, <1>6, <1>7
<1> QED
  BY <1>1, <1>2, <1>4, <1>5, <1>7, <1>8 DEF ConsumerWalk, Added, U, V, K, L, M, N, d
-----------------------------------------------------------------------------
(* The producer walks, the consumer dequeues *)

\* A step of the consumer takes away at most what it removes, and adds nothing.
LEMMA PastShrinks ==
  ASSUME IInv, ppc = "idle", NEW r, Ahead(r), TryDequeue \/ Pop \/ Peek \/ InnerDequeue
  PROVE  /\ Ahead(r)' /\ dequeued' \in Int /\ enqueued' = enqueued /\ ppc' = "idle"
         /\ Linked' = Linked
         /\ \A b \in Linked :
              /\ Past(r, b)' \in Int /\ Count(b)' \in Int
              /\ Past(r, b) <= Past(r, b)'
              /\ Past(r, b) + Count(b) <= Past(r, b)' + Count(b)'
              /\ Past(r, b)' - dequeued' <= Past(r, b) - dequeued
              /\ (Past(r, b)' + Count(b)') - dequeued' <= (Past(r, b) + Count(b)) - dequeued
<1> USE DEF IInv, blockVars, prodVars, consVars, sizeVars
<1>1. UNCHANGED <<tailBlock, tail, next, size, blocks, enqueued, ppc>>
  BY DEF TryDequeue, Pop, Peek, BeginDequeue, InnerDequeue, LoadTail, ReloadTail,
     RefreshLocalTail, CheckTailBlock, FollowNext, LoadNextTail, AdvanceFrontBlock,
     ReadElement, ReadNext, AdvanceFront
<1>2. Linked' = Linked /\ LinkedCount' = LinkedCount /\ LastBlock = tailBlock
  BY <1>1 DEF Linked, LinkedCount, LastBlock
<1>3. Ranking(r) /\ Ranking(r)'
  BY <1>1, <1>2 DEF Ahead, Ranking
<1>4. PICK n \in Nat : n = LinkedCount /\ n >= 1
  BY LinkedFacts
<1>5. /\ \A b \in Linked : r[b] \in 0..(n - 1) /\ next[b] \in Linked
      /\ \A b \in Linked : r[next[b]] = IF r[b] = n - 1 THEN 0 ELSE r[b] + 1
      /\ \A b, c \in Linked : r[b] = r[c] => b = c
      /\ \A b \in Linked : Free(b) <=> r[b] < r[frontBlock] \/ r[tailBlock] < r[b]
  BY <1>3, <1>4 DEF Ahead, Ranking, Shape
<1>6. /\ tailBlock \in Linked /\ frontBlock \in Linked /\ Linked \subseteq Block
      /\ Linked \subseteq 1..blocks
      /\ r[frontBlock] <= r[tailBlock]
  <2>1. tailBlock \in Linked /\ frontBlock \in Linked /\ ~Free(frontBlock)
    BY Basics, WalkTypes
  <2> QED
    BY <1>5, <2>1, Basics
<1>7. /\ enqueued \in Nat /\ dequeued \in Nat
      /\ \A b \in Linked : /\ Count(b) \in Nat /\ Oldest(b) \in Nat /\ Past(r, b) \in Int
                           /\ (Free(b) => Count(b) = 0)
  BY WalkTypes
<1>8. CASE AdvanceFrontBlock
  <2>1. /\ UNCHANGED <<front, data, dequeued>> /\ frontBlock' = cblock
        /\ cblock = next[frontBlock] /\ frontBlock # tailBlock /\ Empty(frontBlock)
        /\ cpc = "advanceFrontBlock"
    BY <1>8 DEF AdvanceFrontBlock, Ring, ConsumerAt
  <2>2. /\ cblock # frontBlock /\ ~Empty(cblock) /\ cblock \in Linked
        /\ data[cblock][front[cblock]] = dequeued + 1
    BY <1>5, <1>6, <2>1, FrontBlockEmpty
  <2>3. r[cblock] = r[frontBlock] + 1 /\ r[cblock] <= r[tailBlock]
    <3>1. r[frontBlock] # r[tailBlock]
      BY <1>5, <1>6, <2>1
    <3>2. r[frontBlock] # n - 1
      BY <1>5, <1>6, <3>1
    <3> QED
      BY <1>5, <1>6, <2>1, <3>1, <3>2
  <2>4. ASSUME NEW b \in Linked
        PROVE  Free(b)' <=> r[b] < r[cblock] \/ r[tailBlock] < r[b]
    <3>1. Free(b)' <=> Empty(b) /\ b # cblock
      BY <1>1, <2>1 DEF Free, Empty
    <3>2. CASE b = frontBlock
      BY <1>5, <1>6, <2>1, <2>2, <2>3, <3>1, <3>2
    <3>3. CASE b # frontBlock
      <4>1. Free(b)' <=> Free(b)
        BY <2>2, <3>1, <3>3 DEF Free
      <4>2. r[b] # r[frontBlock] /\ r[b] \in 0..(n - 1) /\ r[frontBlock] \in 0..(n - 1)
        BY <1>5, <1>6, <3>3
      <4> QED
        BY <1>5, <2>3, <4>1, <4>2
    <3> QED
      BY <3>2, <3>3
  <2>5. Ahead(r)'
    BY <1>1, <1>2, <1>3, <2>1, <2>4 DEF Ahead
  <2>6. ASSUME NEW b \in Linked PROVE Past(r, b)' = Past(r, b) /\ Count(b)' = Count(b)
    <3>1. Count(b)' = Count(b)
      BY <1>1, <2>1 DEF Count, Dist
    <3>2. Past(r, b)' = IF r[b] <= r[cblock] THEN dequeued
                        ELSE IF r[b] <= r[tailBlock] THEN Oldest(b)' - 1 ELSE enqueued
      BY <1>1, <2>1 DEF Past
    <3>3. r[b] \in 0..(n - 1) /\ r[frontBlock] \in 0..(n - 1)
      BY <1>5, <1>6
    <3>4. CASE b = cblock
      <4>1. Oldest(b) = dequeued + 1
        BY <2>2, <3>4 DEF Oldest
      <4> QED
        BY <1>7, <2>3, <3>1, <3>2, <3>3, <3>4, <4>1 DEF Past
    <3>5. CASE b # cblock
      <4>1. r[b] # r[cblock]
        BY <1>5, <2>2, <3>5
      <4>2. r[b] <= r[cblock] <=> r[b] <= r[frontBlock]
        BY <2>3, <3>3, <4>1
      <4>3. ~(r[b] <= r[frontBlock]) => Oldest(b)' = Oldest(b)
        <5>1. ~(r[b] <= r[frontBlock]) => b # frontBlock
          BY <3>3
        <5> QED
          BY <2>1, <3>5, <5>1 DEF Oldest
      <4> QED
        BY <3>1, <3>2, <4>2, <4>3 DEF Past
    <3> QED
      BY <3>4, <3>5
  <2> QED
    BY <1>1, <1>2, <1>7, <2>1, <2>5, <2>6
<1>9. CASE AdvanceFront
  <2>1. /\ UNCHANGED <<frontBlock, data, localFront, localTail>>
        /\ cpc = "advanceFront" /\ dequeued' = dequeued + 1
        /\ front' = [front EXCEPT ![frontBlock] = Succ(frontBlock, front[frontBlock])]
    BY <1>9 DEF AdvanceFront
  <2>2. \A b \in Linked : front'[b] = IF b = frontBlock THEN Succ(b, front[b]) ELSE front[b]
    BY <1>6, <2>1 DEF TypeOK
  <2>3. Count(frontBlock)' = Count(frontBlock) - 1
    <3>1. /\ frontBlock \in 1..blocks /\ Ordered(frontBlock)
          /\ front[frontBlock] # localTail[frontBlock]
      BY <1>6, <2>1 DEF Ring, Positions
    <3> QED
      BY <1>1, <1>6, <2>1, <2>2, <3>1, FrontForward
  <2>4. ASSUME NEW b \in Linked, b # frontBlock
        PROVE  Count(b)' = Count(b) /\ Oldest(b)' = Oldest(b) /\ Free(b)' = Free(b)
    BY <1>1, <2>1, <2>2, <2>4 DEF Count, Dist, Oldest, Free, Empty
  <2>5. Ahead(r)'
    <3>1. ~Free(frontBlock)' /\ ~Free(frontBlock)
      BY <2>1 DEF Free
    <3>2. ASSUME NEW b \in Linked PROVE Free(b)' <=> Free(b)
      <4>1. CASE b = frontBlock
        <5>1. frontBlock' = frontBlock
          BY <2>1
        <5> QED
          BY <5>1, <4>1 DEF Free
      <4>2. CASE b # frontBlock
        BY <2>4, <4>2
      <4> QED
        BY <4>1, <4>2
    <3> QED
      BY <1>1, <1>2, <1>3, <1>5, <2>1, <3>2 DEF Ahead
  <2>6. ASSUME NEW b \in Linked
        PROVE  /\ Past(r, b)' \in Int /\ Count(b)' \in Int
               /\ Past(r, b) <= Past(r, b)'
               /\ Past(r, b) + Count(b) <= Past(r, b)' + Count(b)'
               /\ Past(r, b)' - dequeued' <= Past(r, b) - dequeued
               /\ (Past(r, b)' + Count(b)') - dequeued' <= (Past(r, b) + Count(b)) - dequeued
    <3> DEFINE P == Past(r, b)
               Q == Past(r, b)'
               K == Count(b)
               L == Count(b)'
    <3>1. r[b] \in 0..(n - 1) /\ r[frontBlock] \in 0..(n - 1) /\ r[tailBlock] \in 0..(n - 1)
      BY <1>5, <1>6
    <3>2. Q = IF r[b] <= r[frontBlock] THEN dequeued + 1
              ELSE IF r[b] <= r[tailBlock] THEN Oldest(b)' - 1 ELSE enqueued
      BY <1>1, <2>1 DEF Past
    <3>3. P = IF r[b] <= r[frontBlock] THEN dequeued
              ELSE IF r[b] <= r[tailBlock] THEN Oldest(b) - 1 ELSE enqueued
      BY DEF Past
    <3>4. ~(r[b] <= r[frontBlock]) => Q = P /\ L = K
      <4>1. ~(r[b] <= r[frontBlock]) => b # frontBlock
        BY <3>1
      <4> QED
        BY <2>4, <3>2, <3>3, <4>1
    <3>5. r[b] <= r[frontBlock] => /\ P = dequeued /\ Q = dequeued + 1
                                   /\ L = IF b = frontBlock THEN K - 1 ELSE K
      <4>1. ASSUME b = frontBlock PROVE L = K - 1
        <5>1. frontBlock' = frontBlock
          BY <2>1
        <5> QED
          BY <2>3, <4>1, <5>1 DEF Count, Dist
      <4>2. b # frontBlock => L = K
        BY <2>4
      <4>3. r[b] <= r[frontBlock] => P = dequeued /\ Q = dequeued + 1
        BY <3>2, <3>3
      <4> HIDE DEF P, Q, K, L
      <4> QED
        BY <4>1, <4>2, <4>3
    <3>6. r[b] <= r[frontBlock] /\ b # frontBlock => K = 0
      BY <1>5, <1>6, <1>7
    <3>7. P \in Int /\ K \in Nat /\ dequeued \in Nat
      BY <1>7
    <3> HIDE DEF P, Q, K, L
    <3>8. /\ Q \in Int /\ L \in Int /\ P <= Q /\ P + K <= Q + L
          /\ Q - (dequeued + 1) <= P - dequeued
          /\ (Q + L) - (dequeued + 1) <= (P + K) - dequeued
      BY <3>4, <3>5, <3>6, <3>7
    <3> QED
      BY <2>1, <3>8 DEF P, Q, K, L
  <2> QED
    BY <1>1, <1>2, <1>7, <2>1, <2>5, <2>6
<1>10. CASE \/ TryDequeue \/ Pop \/ Peek \/ LoadTail \/ CheckTailBlock \/ ReloadTail
            \/ FollowNext \/ LoadNextTail \/ ReadElement \/ ReadNext
  <2>1. UNCHANGED <<frontBlock, front, dequeued>>
    BY <1>10 DEF TryDequeue, Pop, Peek, BeginDequeue, LoadTail, ReloadTail,
       RefreshLocalTail, CheckTailBlock, FollowNext, LoadNextTail, ReadElement, ReadNext
  <2>2. ASSUME NEW b \in Linked, b # frontBlock PROVE data'[b] = data[b]
    BY <1>6, <1>10, <2>2 DEF TryDequeue, Pop, Peek, BeginDequeue, LoadTail, ReloadTail,
       RefreshLocalTail, CheckTailBlock, FollowNext, LoadNextTail, ReadElement, ReadNext,
       TypeOK
  <2>3. ASSUME NEW b \in Linked
        PROVE  /\ Count(b)' = Count(b) /\ Free(b)' = Free(b) /\ Oldest(b)' = Oldest(b)
    BY <1>1, <2>1, <2>2 DEF Count, Dist, Free, Empty, Oldest
  <2>4. Ahead(r)'
    BY <1>1, <1>2, <1>3, <1>5, <2>1, <2>3 DEF Ahead
  <2>5. \A b \in Linked : Past(r, b)' = Past(r, b)
    BY <1>1, <2>1, <2>3 DEF Past
  <2> QED
    BY <1>1, <1>2, <1>7, <2>1, <2>3, <2>4, <2>5
<1> QED
  BY <1>8, <1>9, <1>10 DEF InnerDequeue

\* The producer's count keeps its place.
LEMMA ProducerWalkConsumer ==
  ASSUME IInv, ProducerWalk, TryDequeue \/ Pop \/ Peek \/ InnerDequeue
  PROVE  ProducerWalk'
<1> USE DEF IInv
<1>1. UNCHANGED <<spc, walk>>
  BY DEF TryDequeue, Pop, Peek, BeginDequeue, InnerDequeue, LoadTail, ReloadTail,
     RefreshLocalTail, CheckTailBlock, FollowNext, LoadNextTail, AdvanceFrontBlock,
     ReadElement, ReadNext, AdvanceFront, blockVars, prodVars, consVars, sizeVars
<1> SUFFICES ASSUME spc["producer"] # "off" PROVE ProducerWalk'
  BY <1>1 DEF ProducerWalk
<1>2. PICK r : WalkFrom(r)
  BY DEF ProducerWalk
<1>3. ppc = "idle" /\ walk["producer"].from \in Linked /\ Ahead(r)
      /\ r[walk["producer"].from] = 0
  BY <1>2 DEF ProducerWalk, WalkFrom
<1>4. PICK b : b = walk["producer"].at
  OBVIOUS
<1>5. b \in Linked
  BY <1>4 DEF Shape, Threads
<1>6. PICK s : s = walk["producer"].sum /\ s \in Nat
  BY DEF TypeOK, Threads
<1>7. PICK w : w = walk["producer"].before /\ w \in Int
  BY DEF TypeOK, Threads
<1> DEFINE P == Past(r, b)
           Q == Past(r, b)'
           K == Count(b)
           L == Count(b)'
           d == dequeued
           c == dequeued'
           e == enqueued
<1>8. /\ P \in Int /\ Q \in Int /\ K \in Int /\ L \in Int /\ d \in Int /\ c \in Int /\ e \in Int
      /\ P <= Q /\ P + K <= Q + L /\ Q - c <= P - d /\ (Q + L) - c <= (P + K) - d
  BY <1>3, <1>5, PastShrinks, WalkTypes
<1>9. /\ P + (IF spc["producer"] = "step" THEN K ELSE 0) - d <= s
      /\ s + e - (P + (IF spc["producer"] = "step" THEN K ELSE 0)) <= w
  BY <1>2, <1>4, <1>6, <1>7 DEF WalkFrom, Added
<1>10. /\ Ahead(r)' /\ enqueued' = enqueued /\ ppc' = "idle" /\ Linked' = Linked
  BY <1>3, PastShrinks
<1> HIDE DEF P, Q, K, L, d, c, e
<1>11. /\ Q + (IF spc["producer"] = "step" THEN L ELSE 0) - c <= s
       /\ s + e - (Q + (IF spc["producer"] = "step" THEN L ELSE 0)) <= w
  BY <1>6, <1>7, <1>8, <1>9
<1>12. WalkFrom(r)'
  BY <1>1, <1>3, <1>4, <1>6, <1>7, <1>10, <1>11 DEF WalkFrom, Added, Q, L, c, e
<1> QED
  BY <1>1, <1>3, <1>10, <1>12 DEF ProducerWalk
-----------------------------------------------------------------------------
(* The walks themselves *)

\* A step of size_approx leaves the queue alone.
LEMMA CountingKeeps ==
  ASSUME UNCHANGED <<frontBlock, tailBlock, blockVars, prodVars, consVars>>
  PROVE  /\ UNCHANGED <<frontBlock, next, enqueued, dequeued, ppc, cpc>>
         /\ Linked' = Linked /\ Upto' = Upto
         /\ \A b : Count(b)' = Count(b) /\ Under(b)' = Under(b)
         /\ \A r, b : Past(r, b)' = Past(r, b)
         /\ \A r : Ahead(r) => Ahead(r)'
<1>1. UNCHANGED <<frontBlock, tailBlock, blocks, front, tail, next, size, data, enqueued,
                  dequeued, ppc, cpc>>
  BY DEF blockVars, prodVars, consVars
<1>2. Linked' = Linked /\ Upto' = Upto /\ LinkedCount' = LinkedCount
  BY <1>1 DEF Linked, Upto, LinkedCount
<1>3. \A b : Count(b)' = Count(b) /\ Oldest(b)' = Oldest(b) /\ Free(b)' = Free(b)
  BY <1>1 DEF Count, Dist, Oldest, Free, Empty
<1>4. \A b : Under(b)' = Under(b)
  BY <1>1, <1>2, <1>3 DEF Under
<1>5. \A r, b : Past(r, b)' = Past(r, b)
  BY <1>1, <1>3 DEF Past
<1>6. ASSUME NEW r, Ahead(r) PROVE Ahead(r)'
  <2>1. Ranking(r)'
    BY <1>1, <1>2, <1>6 DEF Ahead, Ranking
  <2>2. \A b \in Linked : Free(b)' <=> r[b] < r[frontBlock] \/ r[tailBlock] < r[b]
    BY <1>1, <1>6 DEF Ahead, Free, Empty
  <2> QED
    BY <1>1, <1>2, <2>1, <2>2 DEF Ahead
<1> QED
  BY <1>1, <1>2, <1>3, <1>4, <1>5, <1>6

\* The consumer's count moves block by block.
LEMMA ConsumerWalkSizing ==
  ASSUME IInv, ConsumerWalk, NEW t \in Threads, SizeApprox(t) \/ CountBlock(t) \/ StepBlock(t)
  PROVE  ConsumerWalk'
<1> USE DEF IInv
<1>1. /\ UNCHANGED <<frontBlock, next, enqueued, dequeued, ppc, cpc>> /\ Upto' = Upto
      /\ \A b : Count(b)' = Count(b) /\ Under(b)' = Under(b)
  BY CountingKeeps DEF SizeApprox, CountBlock, StepBlock
<1>2. CASE t # "consumer"
  <2>1. walk'["consumer"] = walk["consumer"] /\ spc'["consumer"] = spc["consumer"]
    BY <1>2 DEF SizeApprox, CountBlock, StepBlock, TypeOK, Threads
  <2>2. Added("consumer")' = Added("consumer")
    BY <1>1, <2>1 DEF Added
  <2> QED
    BY <1>1, <2>1, <2>2 DEF ConsumerWalk
<1>3. CASE t = "consumer" /\ SizeApprox(t)
  <2>1. /\ spc'["consumer"] = "count" /\ cpc = "idle"
        /\ walk'["consumer"] = [from |-> frontBlock, at |-> frontBlock, sum |-> 0,
                                before |-> enqueued - dequeued]
    BY <1>3 DEF SizeApprox, ThreadIdle, TypeOK, Threads, QueueSize
  <2>2. Under(frontBlock) = dequeued
    BY DEF Under
  <2>3. Added("consumer")' = 0
    BY <2>1 DEF Added
  <2>4. enqueued \in Nat /\ dequeued \in Nat /\ Upto \in Nat /\ enqueued <= Upto
    BY WalkTypes
  <2>5. /\ walk'["consumer"].at = frontBlock /\ walk'["consumer"].from = frontBlock
        /\ walk'["consumer"].sum = 0 /\ walk'["consumer"].before = enqueued - dequeued
    BY <2>1
  <2>6. Under(walk["consumer"].at)' = dequeued
    BY <1>1, <2>2, <2>5 DEF Under
  <2> DEFINE M == Upto
  <2>7. M \in Nat /\ enqueued <= M
    BY <2>4
  <2> HIDE DEF M
  <2>8. 0 <= dequeued + 0 - dequeued /\ enqueued - dequeued <= 0 + M - (dequeued + 0)
    BY <2>4, <2>7
  <2> QED
    BY <1>1, <2>1, <2>3, <2>5, <2>6, <2>8 DEF ConsumerWalk, M
<1>4. CASE t = "consumer" /\ ~SizeApprox(t)
  <2>1. PICK b : b = walk["consumer"].at
    OBVIOUS
  <2>2. PICK s : s = walk["consumer"].sum /\ s \in Nat
    BY DEF TypeOK, Threads
  <2>3. PICK w : w = walk["consumer"].before /\ w \in Int
    BY DEF TypeOK, Threads
  <2>4. spc["consumer"] \in {"count", "step"} /\ b \in Linked
    BY <1>4, <2>1 DEF CountBlock, StepBlock, Shape, Threads
  <2> DEFINE U == Under(b)
             K == Count(b)
             M == Upto
             d == dequeued
  <2>5. U \in Int /\ K \in Nat /\ M \in Nat /\ d \in Nat
    BY <2>4, WalkTypes
  <2>6. /\ cpc = "idle" /\ walk["consumer"].from = frontBlock
        /\ s <= U + (IF spc["consumer"] = "step" THEN K ELSE 0) - d
        /\ w <= s + M - (U + (IF spc["consumer"] = "step" THEN K ELSE 0))
    BY <2>1, <2>2, <2>3, <2>4 DEF ConsumerWalk, Added
  <2>7. CASE CountBlock(t)
    <3>1. /\ spc["consumer"] = "count" /\ spc'["consumer"] = "step"
          /\ walk'["consumer"] = [walk["consumer"] EXCEPT !.sum = s + K]
      BY <1>4, <2>1, <2>2, <2>7 DEF CountBlock, TypeOK, Threads
    <3>2. /\ walk'["consumer"].at = b /\ walk'["consumer"].from = frontBlock
          /\ walk'["consumer"].sum = s + K /\ walk'["consumer"].before = w
      BY <2>1, <2>3, <2>6, <3>1 DEF TypeOK, Threads
    <3>3. Added("consumer")' = K /\ Under(walk["consumer"].at)' = U
      BY <1>1, <3>1, <3>2 DEF Added, Under, Count, Dist
    <3>4. s <= U + 0 - d /\ w <= s + M - (U + 0)
      BY <2>6, <3>1
    <3> HIDE DEF U, K, M, d
    <3>5. s + K <= U + K - d /\ w <= (s + K) + M - (U + K)
      BY <2>2, <2>3, <2>5, <3>4
    <3> QED
      BY <1>1, <2>6, <3>2, <3>3, <3>5 DEF ConsumerWalk, U, K, M, d
  <2>8. CASE StepBlock(t) /\ next[b] = frontBlock
    <3>1. spc'["consumer"] = "off"
      BY <1>4, <2>1, <2>6, <2>8 DEF StepBlock, TypeOK, Threads
    <3> QED
      BY <3>1 DEF ConsumerWalk
  <2>9. CASE StepBlock(t) /\ next[b] # frontBlock
    <3>1. /\ spc["consumer"] = "step" /\ spc'["consumer"] = "count"
          /\ walk'["consumer"] = [walk["consumer"] EXCEPT !.at = next[b]]
      BY <1>4, <2>1, <2>6, <2>9 DEF StepBlock, TypeOK, Threads
    <3>2. /\ walk'["consumer"].at = next[b] /\ walk'["consumer"].from = frontBlock
          /\ walk'["consumer"].sum = s /\ walk'["consumer"].before = w
      BY <2>2, <2>3, <2>6, <3>1 DEF TypeOK, Threads
    <3>3. Added("consumer")' = 0
      BY <3>1 DEF Added
    <3>4. Under(walk["consumer"].at)' = Under(next[b])
      BY <1>1, <3>2 DEF Under
    <3>5. Under(next[b]) = U + K
      BY <2>4, <2>9, UnderNext
    <3>6. s <= U + K - d /\ w <= s + M - (U + K)
      BY <2>6, <3>1
    <3> HIDE DEF U, K, M, d
    <3>7. s <= (U + K) + 0 - d /\ w <= s + M - ((U + K) + 0)
      BY <2>2, <2>3, <2>5, <3>6
    <3> QED
      BY <1>1, <2>6, <3>2, <3>3, <3>4, <3>5, <3>7 DEF ConsumerWalk, M, d
  <2> QED
    BY <1>4, <2>7, <2>8, <2>9
<1> QED
  BY <1>2, <1>3, <1>4

\* A count that begins finds the free blocks behind the last one.
LEMMA AheadOfFront ==
  ASSUME IInv, Capacity, ppc = "idle"
  PROVE  \E r : Ahead(r) /\ r[frontBlock] = 0
<1> USE DEF IInv
<1>1. frontBlock \in Linked /\ LastBlock = tailBlock /\ tailBlock \in Linked
  BY Basics DEF LastBlock
<1>2. PICK r : Ranking(r) /\ r[frontBlock] = 0
  BY <1>1, RankingFrom DEF Capacity
<1>3. PICK n \in Nat : n = LinkedCount /\ n >= 1
  BY LinkedFacts
<1>4. \A b \in Linked : r[b] \in 0..(n - 1)
  BY <1>2, <1>3 DEF Ranking
<1>5. ASSUME NEW b \in Linked
      PROVE  Free(b) <=> r[b] < r[frontBlock] \/ r[tailBlock] < r[b]
  <2>1. ~Free(b) <=> r[b] <= r[tailBlock]
    BY <1>1, <1>2, InUse
  <2>2. ~(r[b] < r[frontBlock]) /\ (r[b] <= r[tailBlock] <=> ~(r[tailBlock] < r[b]))
    BY <1>1, <1>2, <1>4
  <2> QED
    BY <2>1, <2>2
<1> QED
  BY <1>2, <1>5 DEF Ahead

\* The producer's count moves block by block.
LEMMA ProducerWalkSizing ==
  ASSUME IInv, Capacity, ProducerWalk, NEW t \in Threads,
         SizeApprox(t) \/ CountBlock(t) \/ StepBlock(t)
  PROVE  ProducerWalk'
<1> USE DEF IInv
<1>1. /\ UNCHANGED <<frontBlock, next, enqueued, dequeued, ppc, cpc>> /\ Linked' = Linked
      /\ \A b : Count(b)' = Count(b)
      /\ \A r, b : Past(r, b)' = Past(r, b)
      /\ \A r : Ahead(r) => Ahead(r)'
  BY CountingKeeps DEF SizeApprox, CountBlock, StepBlock
<1>2. CASE t # "producer"
  <2>1. walk'["producer"] = walk["producer"] /\ spc'["producer"] = spc["producer"]
    BY <1>2 DEF SizeApprox, CountBlock, StepBlock, TypeOK, Threads
  <2>2. Added("producer")' = Added("producer")
    BY <1>1, <2>1 DEF Added
  <2>3. \A r : WalkFrom(r) => WalkFrom(r)'
    BY <1>1, <2>1, <2>2 DEF WalkFrom
  <2> QED
    BY <1>1, <2>1, <2>3 DEF ProducerWalk
<1>3. CASE t = "producer" /\ SizeApprox(t)
  <2>1. /\ spc'["producer"] = "count" /\ ppc = "idle"
        /\ walk'["producer"] = [from |-> frontBlock, at |-> frontBlock, sum |-> 0,
                                before |-> enqueued - dequeued]
    BY <1>3 DEF SizeApprox, ThreadIdle, TypeOK, Threads, QueueSize
  <2>2. PICK r : Ahead(r) /\ r[frontBlock] = 0
    BY <2>1, AheadOfFront
  <2>3. frontBlock \in Linked /\ enqueued \in Nat /\ dequeued \in Nat
    BY Basics, WalkTypes
  <2>4. PICK n \in Nat : n = r[frontBlock]
    BY <2>2
  <2>5. Past(r, frontBlock) = dequeued
    BY <2>2, <2>4 DEF Past
  <2>6. Added("producer")' = 0
    BY <2>1 DEF Added
  <2>7. /\ walk'["producer"].at = frontBlock /\ walk'["producer"].from = frontBlock
        /\ walk'["producer"].sum = 0 /\ walk'["producer"].before = enqueued - dequeued
    BY <2>1
  <2>8. Past(r, walk["producer"].at)' = dequeued
    BY <1>1, <2>5, <2>7 DEF Past
  <2>9. dequeued + 0 - dequeued <= 0 /\ 0 + enqueued - (dequeued + 0) <= enqueued - dequeued
    BY <2>3
  <2>10. WalkFrom(r)'
    BY <1>1, <2>2, <2>6, <2>7, <2>8, <2>9 DEF WalkFrom
  <2> QED
    BY <1>1, <2>1, <2>3, <2>7, <2>10 DEF ProducerWalk
<1>4. CASE t = "producer" /\ ~SizeApprox(t)
  <2>1. PICK b : b = walk["producer"].at
    OBVIOUS
  <2>2. PICK s : s = walk["producer"].sum /\ s \in Nat
    BY DEF TypeOK, Threads
  <2>3. PICK w : w = walk["producer"].before /\ w \in Int
    BY DEF TypeOK, Threads
  <2>4. PICK o : o = walk["producer"].from
    OBVIOUS
  <2>5. spc["producer"] \in {"count", "step"} /\ b \in Linked
    BY <1>4, <2>1 DEF CountBlock, StepBlock, Shape, Threads
  <2>6. /\ ppc = "idle" /\ o \in Linked
        /\ \E r : WalkFrom(r)
    BY <2>4, <2>5 DEF ProducerWalk
  <2>7. PICK r : WalkFrom(r)
    BY <2>6
  <2> DEFINE P == Past(r, b)
             K == Count(b)
             e == enqueued
             d == dequeued
  <2>8. P \in Int /\ K \in Nat /\ e \in Nat /\ d \in Nat
    BY <2>5, WalkTypes
  <2>9. /\ Ahead(r) /\ r[o] = 0
        /\ P + (IF spc["producer"] = "step" THEN K ELSE 0) - d <= s
        /\ s + e - (P + (IF spc["producer"] = "step" THEN K ELSE 0)) <= w
    BY <2>1, <2>2, <2>3, <2>4, <2>7 DEF WalkFrom, Added
  <2>10. CASE CountBlock(t)
    <3>1. /\ spc["producer"] = "count" /\ spc'["producer"] = "step"
          /\ walk'["producer"] = [walk["producer"] EXCEPT !.sum = s + K]
      BY <1>4, <2>1, <2>2, <2>10 DEF CountBlock, TypeOK, Threads
    <3>2. /\ walk'["producer"].at = b /\ walk'["producer"].from = o
          /\ walk'["producer"].sum = s + K /\ walk'["producer"].before = w
      BY <2>1, <2>3, <2>4, <3>1 DEF TypeOK, Threads
    <3>3. Added("producer")' = K /\ Past(r, walk["producer"].at)' = P
      BY <1>1, <3>1, <3>2 DEF Added, Past, Count, Dist
    <3>4. P + 0 - d <= s /\ s + e - (P + 0) <= w
      BY <2>9, <3>1
    <3> HIDE DEF P, K, e, d
    <3>5. P + K - d <= s + K /\ (s + K) + e - (P + K) <= w
      BY <2>2, <2>3, <2>8, <3>4
    <3>6. WalkFrom(r)'
      BY <1>1, <2>9, <3>2, <3>3, <3>5 DEF WalkFrom, P, K, e, d
    <3> QED
      BY <1>1, <2>6, <3>2, <3>6 DEF ProducerWalk
  <2>11. CASE StepBlock(t) /\ next[b] = o
    <3>1. spc'["producer"] = "off"
      BY <1>4, <2>1, <2>4, <2>11 DEF StepBlock, TypeOK, Threads
    <3> QED
      BY <3>1 DEF ProducerWalk
  <2>12. CASE StepBlock(t) /\ next[b] # o
    <3>1. /\ spc["producer"] = "step" /\ spc'["producer"] = "count"
          /\ walk'["producer"] = [walk["producer"] EXCEPT !.at = next[b]]
      BY <1>4, <2>1, <2>4, <2>12 DEF StepBlock, TypeOK, Threads
    <3>2. /\ walk'["producer"].at = next[b] /\ walk'["producer"].from = o
          /\ walk'["producer"].sum = s /\ walk'["producer"].before = w
      BY <2>2, <2>3, <2>4, <3>1 DEF TypeOK, Threads
    <3>3. Added("producer")' = 0
      BY <3>1 DEF Added
    <3>4. Past(r, walk["producer"].at)' = Past(r, next[b])
      BY <1>1, <3>2 DEF Past
    <3>5. r[b] # LinkedCount - 1
      <4>1. /\ next[b] \in Linked
            /\ r[b] = LinkedCount - 1 => r[next[b]] = 0
            /\ \A c, u \in Linked : r[c] = r[u] => c = u
        BY <2>5, <2>9 DEF Ahead, Ranking, Shape
      <4> QED
        BY <2>6, <2>9, <2>12, <4>1
    <3>6. Past(r, next[b]) = P + K
      BY <2>5, <2>6, <2>9, <3>5, PastNext
    <3>7. P + K - d <= s /\ s + e - (P + K) <= w
      BY <2>9, <3>1
    <3> HIDE DEF P, K, e, d
    <3>8. (P + K) + 0 - d <= s /\ s + e - ((P + K) + 0) <= w
      BY <2>2, <2>3, <2>8, <3>7
    <3>9. WalkFrom(r)'
      BY <1>1, <2>9, <3>2, <3>3, <3>4, <3>6, <3>8 DEF WalkFrom, e, d
    <3> QED
      BY <1>1, <2>6, <3>2, <3>9 DEF ProducerWalk
  <2> QED
    BY <1>4, <2>10, <2>11, <2>12
<1> QED
  BY <1>2, <1>3, <1>4

\* Every step keeps both counts: a thread that counts takes no other step.
LEMMA WalksStep == IInv /\ Capacity /\ Walks /\ [Next]_vars => Walks'
<1> SUFFICES ASSUME IInv, Capacity, Walks, [Next]_vars PROVE Walks'
  OBVIOUS
<1>1. CASE Enqueue \/ TryEnqueue \/ InnerEnqueue
  <2>1. ConsumerWalk'
    BY <1>1, ConsumerWalkProducer DEF Walks
  <2>2. spc' = spc /\ (spc["producer"] = "off" \/ ppc # "idle")
    BY <1>1 DEF Enqueue, TryEnqueue, BeginEnqueue, InnerEnqueue, LoadFront, Construct,
       PublishTail, CheckNext, LoadNext, ConstructNext, PublishNext, MakeBlock,
       MallocFails, LinkBlock, AdvanceTailBlock, sizeVars
  <2> QED
    BY <2>1, <2>2 DEF Walks, ProducerWalk
<1>2. CASE TryDequeue \/ Pop \/ Peek \/ InnerDequeue
  <2>1. ProducerWalk'
    BY <1>2, ProducerWalkConsumer DEF Walks
  <2>2. spc' = spc /\ (spc["consumer"] = "off" \/ cpc # "idle")
    BY <1>2 DEF TryDequeue, Pop, Peek, BeginDequeue, InnerDequeue, LoadTail, ReloadTail,
       RefreshLocalTail, CheckTailBlock, FollowNext, LoadNextTail, AdvanceFrontBlock,
       ReadElement, ReadNext, AdvanceFront, sizeVars
  <2> QED
    BY <2>1, <2>2 DEF Walks, ConsumerWalk
<1>3. CASE Sizing
  BY <1>3, ConsumerWalkSizing, ProducerWalkSizing DEF Sizing, Walks
<1>4. CASE UNCHANGED vars
  <2>1. /\ UNCHANGED <<spc, walk, frontBlock, tailBlock, blockVars, prodVars, consVars>>
    BY <1>4 DEF vars, sizeVars
  <2>2. /\ UNCHANGED <<frontBlock, next, enqueued, dequeued, ppc, cpc>>
        /\ Linked' = Linked /\ Upto' = Upto
        /\ \A b : Count(b)' = Count(b) /\ Under(b)' = Under(b)
        /\ \A r, b : Past(r, b)' = Past(r, b)
        /\ \A r : Ahead(r) => Ahead(r)'
    BY <2>1, CountingKeeps
  <2>3. Added("consumer")' = Added("consumer") /\ Added("producer")' = Added("producer")
    BY <2>1, <2>2 DEF Added
  <2>4. ConsumerWalk'
    BY <2>1, <2>2, <2>3 DEF Walks, ConsumerWalk
  <2>5. \A r : WalkFrom(r) => WalkFrom(r)'
    BY <2>1, <2>2, <2>3 DEF WalkFrom
  <2> QED
    BY <2>1, <2>2, <2>4, <2>5 DEF Walks, ProducerWalk
<1> QED
  BY <1>1, <1>2, <1>3, <1>4 DEF Next

\* A count that ends has been once round the circle.
LEMMA WalkEnds ==
  ASSUME IInv, Walks, NEW t \in Threads, StepBlock(t), next[walk[t].at] = walk[t].from
  PROVE  IF t = "producer"
           THEN walk[t].sum \in QueueSize..walk[t].before
           ELSE walk[t].sum \in walk[t].before..
                  (QueueSize + IF ppc = "advance" THEN 1 ELSE 0)
<1> USE DEF IInv
<1>1. PICK b : b = walk[t].at
  OBVIOUS
<1>2. PICK s : s = walk[t].sum /\ s \in Nat
  BY DEF TypeOK, Threads
<1>3. PICK w : w = walk[t].before /\ w \in Int
  BY DEF TypeOK, Threads
<1>4. spc[t] = "step" /\ b \in Linked
  BY <1>1 DEF StepBlock, Shape, Threads
<1> DEFINE K == Count(b)
           M == Upto
           e == enqueued
           d == dequeued
<1>5. K \in Nat /\ M \in Nat /\ e \in Nat /\ d \in Nat
  BY <1>4, WalkTypes
<1>6. CASE t = "consumer"
  <2> DEFINE U == Under(b)
  <2>1. /\ walk["consumer"].from = frontBlock
        /\ s <= U + K - d /\ w <= s + M - (U + K)
    BY <1>1, <1>2, <1>3, <1>4, <1>6 DEF Walks, ConsumerWalk, Added
  <2>2. U \in Int /\ U + K = M
    BY <1>1, <1>4, <1>6, <2>1, UnderNext, WalkTypes
  <2>3. M = e + IF ppc = "advance" THEN 1 ELSE 0
    BY DEF Upto
  <2> HIDE DEF U, K, M, e, d
  <2>4. s \in w..((e - d) + IF ppc = "advance" THEN 1 ELSE 0)
    BY <1>2, <1>3, <1>5, <2>1, <2>2, <2>3
  <2> QED
    BY <1>2, <1>3, <1>6, <2>4 DEF QueueSize, e, d
<1>7. CASE t = "producer"
  <2>1. PICK r : WalkFrom(r)
    BY <1>4, <1>7 DEF Walks, ProducerWalk
  <2> DEFINE P == Past(r, b)
  <2>2. /\ ppc = "idle" /\ walk["producer"].from \in Linked /\ Ahead(r)
        /\ r[walk["producer"].from] = 0
        /\ P + K - d <= s /\ s + e - (P + K) <= w
    BY <1>1, <1>2, <1>3, <1>4, <1>7, <2>1 DEF Walks, ProducerWalk, WalkFrom, Added
  <2>3. r[b] = LinkedCount - 1
    <3>1. PICK n \in Nat : n = LinkedCount /\ n >= 1
      BY LinkedFacts
    <3>2. r[b] \in 0..(n - 1) /\ r[next[b]] = IF r[b] = n - 1 THEN 0 ELSE r[b] + 1
      BY <1>4, <2>2, <3>1 DEF Ahead, Ranking
    <3>3. r[next[b]] = 0
      BY <1>1, <1>7, <2>2
    <3> QED
      BY <3>1, <3>2, <3>3
  <2>4. P \in Int /\ P + K = e
    BY <1>4, <2>2, <2>3, PastNext, WalkTypes
  <2> HIDE DEF P, K, e, d
  <2>5. s \in (e - d)..w
    BY <1>2, <1>3, <1>5, <2>2, <2>4
  <2> QED
    BY <1>2, <1>3, <1>7, <2>5 DEF QueueSize, e, d
<1> QED
  BY <1>6, <1>7 DEF Threads

\* size_approx never invents elements: the producer gets a size the queue had
\* during the call, the consumer at most one more.
THEOREM SizeApproxCorrect == Spec => SizeApproxIsClose
<1> DEFINE Close(t) == IF t = "producer"
                         THEN walk[t].sum \in QueueSize..walk[t].before
                         ELSE walk[t].sum \in walk[t].before..
                                (QueueSize + IF ppc = "advance" THEN 1 ELSE 0)
<1>1. Init => Walks
  BY DEF Init, Walks, ConsumerWalk, ProducerWalk, Threads
<1>2. IInv /\ Walks /\ [Next]_vars
        => [\A t \in Threads : spc[t] # "off" /\ spc'[t] = "off" => Close(t)]_vars
  <2> SUFFICES ASSUME IInv, Walks, Next, NEW t \in Threads, spc[t] # "off", spc'[t] = "off"
               PROVE  Close(t)
    BY DEF vars
  <2>1. StepBlock(t) /\ next[walk[t].at] = walk[t].from
    <3>1. CASE Sizing
      <4>1. PICK u \in Threads : SizeApprox(u) \/ CountBlock(u) \/ StepBlock(u)
        BY <3>1 DEF Sizing
      <4>2. u = t
        BY <4>1 DEF SizeApprox, CountBlock, StepBlock, IInv, TypeOK
      <4> QED
        BY <4>1, <4>2 DEF SizeApprox, CountBlock, StepBlock, IInv, TypeOK
    <3>2. CASE Enqueue \/ TryEnqueue \/ InnerEnqueue
      BY <3>2 DEF Enqueue, TryEnqueue, BeginEnqueue, InnerEnqueue, LoadFront, Construct,
         PublishTail, CheckNext, LoadNext, ConstructNext, PublishNext, MakeBlock,
         MallocFails, LinkBlock, AdvanceTailBlock, sizeVars
    <3>3. CASE TryDequeue \/ Pop \/ Peek \/ InnerDequeue
      BY <3>3 DEF TryDequeue, Pop, Peek, BeginDequeue, InnerDequeue, LoadTail, ReloadTail,
         RefreshLocalTail, CheckTailBlock, FollowNext, LoadNextTail, AdvanceFrontBlock,
         ReadElement, ReadNext, AdvanceFront, sizeVars
    <3> QED
      BY <3>1, <3>2, <3>3 DEF Next
  <2> QED
    BY <2>1, WalkEnds
<1> QED
  BY <1>1, <1>2, WalksStep, CapacityCorrect, PTL DEF Spec, SizeApproxIsClose
====
