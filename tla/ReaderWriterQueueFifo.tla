----------------------- MODULE ReaderWriterQueueFifo -----------------------
(***************************************************************************)
(* The circle of blocks seen as the sequence of elements it stands for:    *)
(* what the destructor walks, and the refinement of SpscFifo.              *)
(***************************************************************************)
EXTENDS ReaderWriterQueue, Sequences, FiniteSets, SequencesExt

\* The n-th block of the circle, counted from the front block.
Nth == LET at[n \in 0..MaxBlocks] ==
             IF n = 0 THEN frontBlock ELSE next[at[n - 1]]
       IN  at

\* The elements in block b, oldest first, without the one in the slot the
\* consumer has destroyed but not given back yet.
Elements(b) ==
    [k \in 1..Count(b) |->
       data[b][(front[b] + k - 1) % size[b]]]

\* The queue is what lies between the front block and the tail block; while
\* the consumer is between destroying an element and giving its slot back,
\* that element still heads the queue.
Contents ==
    LET last == CHOOSE n \in 0..MaxBlocks :
                  /\ Nth[n] = tailBlock
                  /\ \A m \in 0..(n - 1) : Nth[m] # tailBlock
        raw  == FlattenSeq([n \in 1..(last + 1) |-> Elements(Nth[n - 1])])
    IN  IF cpc = "advanceFront" THEN [raw EXCEPT ![1] = got] ELSE raw

Fifo == INSTANCE SpscFifo WITH
          Capacity <- MaxSize,
          q        <- Contents,
          accepted <- enqueued,
          offer    <- IF ppc = "idle" THEN "none"
                      ELSE IF wasFull THEN "full" ELSE "room",
          request  <- IF cpc = "idle" THEN "none"
                      ELSE IF wasEmpty THEN "empty" ELSE "some",
          out      <- IF cpc = "advanceFront" THEN 0 ELSE got

\* The circle of blocks implements the abstract FIFO: every call takes effect
\* at one instant, and the walk from block to block loses no element.
ImplementsFifo == Fifo!Spec

-----------------------------------------------------------------------------
(* ~ReaderWriterQueue(), run when neither thread is inside a call *)

\* From the front block, once round: the blocks whose memory is freed.
Freed == LET once == CHOOSE n \in 1..(MaxBlocks + 1) :
                       /\ next[Nth[n - 1]] = frontBlock
                       /\ \A m \in 1..(n - 1) : next[Nth[m - 1]] # frontBlock
         IN  [n \in 1..once |-> Nth[n - 1]]

\* The elements it destroys, block by block.
Destroyed == FlattenSeq([n \in DOMAIN Freed |-> Elements(Freed[n])])

\* The destructor frees every block malloc returned, each once, and destroys
\* exactly the elements still in the queue, and before that no element was
\* constructed over a living one: nothing leaks, nothing dies twice.
DestructorIsExact ==
    /\ ConstructsInRawStorage
    /\ ppc = "idle" /\ cpc = "idle" =>
         /\ Len(Freed) = blocks
         /\ Range(Freed) = 1..blocks
         /\ Destroyed = [k \in 1..QueueSize |-> dequeued + k]
=============================================================================
