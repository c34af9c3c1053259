-------------------------- MODULE WeakMemoryQueue --------------------------
(***************************************************************************)
(* ReaderWriterQueue again, on hardware that reorders accesses: what each  *)
(* fence of src/readerwriterqueue.h is there for.                          *)
(*                                                                         *)
(* The control is ReaderWriterQueue's; every block has BlockSize slots (a  *)
(* first block as large as MAX_BLOCK_SIZE).  A thread's step is a load     *)
(* that may return an old value, and the fences and the stores that follow *)
(* it: stores in a row need no steps of their own, since the other thread  *)
(* may read an older value of any of them.  What a block's constructor     *)
(* writes is one location, Built(b).  localFront, localTail and            *)
(* largestBlockSize are touched by one thread only.                        *)
(***************************************************************************)
EXTENDS ViewMemory, Integers

CONSTANTS BlockSize,     \* slots of every block
          MaxBlocks,     \* bound: blocks malloc can provide
          MaxElements,   \* bound: elements the producer gets accepted
          ProducerOps,   \* the calls the producer makes
          ConsumerOps    \* the calls the consumer makes

ASSUME WeakAssumption ==
    /\ BlockSize \in Nat \ {0, 1}
    /\ MaxBlocks \in Nat \ {0}
    /\ MaxElements \in Nat
    /\ ProducerOps \subseteq {"enqueue", "try_enqueue", "size_approx"}
    /\ ConsumerOps \subseteq {"try_dequeue", "pop", "peek", "size_approx"}

Null    == 0
Block   == 1..MaxBlocks
Slots   == 0..(BlockSize - 1)
Threads == {"producer", "consumer"}

\* The locations: weak_atomic members, slots, and the rest of a block.
FrontBlock == <<"frontBlock", Null, 0>>
TailBlock  == <<"tailBlock", Null, 0>>
FrontOf(b) == <<"front", b, 0>>
TailOf(b)  == <<"tail", b, 0>>
NextOf(b)  == <<"next", b, 0>>
Slot(b, i) == <<"data", b, i>>
Built(b)   == <<"block", b, 0>>

Locations == {FrontBlock, TailBlock}
             \cup {Slot(b, i) : b \in Block, i \in Slots}
             \cup UNION {{FrontOf(b), TailOf(b), NextOf(b), Built(b)} : b \in Block}

VARIABLES ppc, cpc,                 \* where the producer, the consumer is
          cblock,                   \* the consumer's nextBlock
          localFront, localTail,    \* per block
          blocks,                   \* how many blocks make_block returned
          enqueued, dequeued,       \* elements accepted, removed so far
          spc, walk                 \* size_approx, per thread

prodVars == <<ppc, localFront, blocks, enqueued>>
consVars == <<cpc, cblock, dequeued>>
sizeVars == <<spc, walk>>
weakVars == <<mem, views, prodVars, consVars, localTail, sizeVars>>

Succ(i) == (i + 1) % BlockSize

\* The constructor with one block, up to its full fence.
Init ==
    /\ Start(Threads, [l \in Locations |->
                         IF l \in {FrontBlock, TailBlock, NextOf(1), Built(1)}
                           THEN 1 ELSE 0])
    /\ ppc = "idle" /\ cpc = "idle" /\ cblock = Null
    /\ localFront = [b \in Block |-> 0] /\ localTail = [b \in Block |-> 0]
    /\ blocks = 1
    /\ enqueued = 0 /\ dequeued = 0
    /\ spc = [t \in Threads |-> "off"]
    /\ walk = [t \in Threads |-> [from |-> Null, at |-> Null]]

-----------------------------------------------------------------------------
(* inner_enqueue *)

P  == Sees("producer")
tb == Latest(TailBlock)                     \* tailBlock_, the producer's own
nb == Latest(NextOf(tb))                    \* tailBlockNext

\* enqueue and try_enqueue part where the queue would have to grow.  localFront
\* was read before an acquire fence; the one of line 433 is crossed again.
BeginEnqueue ==
    /\ ProducerOps \cap {"enqueue", "try_enqueue"} # {}
    /\ ppc = "idle" /\ spc["producer"] = "off"
    /\ enqueued < MaxElements
    /\ IF Succ(Latest(TailOf(tb))) # localFront[tb]
         THEN ppc' = "construct" /\ Becomes("producer", AcquireFence(P))
         ELSE ppc' = "loadFront" /\ UNCHANGED <<mem, views>>
    /\ UNCHANGED <<localFront, blocks, enqueued, consVars, localTail, sizeVars>>

\* front, and the acquire fence of either branch (433, 442).
LoadFront ==
    /\ ppc = "loadFront"
    /\ \E n \in Visible(P, FrontOf(tb)) :
         LET f == ValueAt(P, FrontOf(tb), n)
         IN  /\ Becomes("producer", AcquireFence(Load(P, FrontOf(tb), n)))
             /\ localFront' = [localFront EXCEPT ![tb] = f]
             /\ ppc' = IF Succ(Latest(TailOf(tb))) # f THEN "construct"
                                                     ELSE "checkNext"
    /\ UNCHANGED <<blocks, enqueued, consVars, localTail, sizeVars>>

\* The element, the release fence (438), tail; the call returns true.
Construct ==
    /\ ppc = "construct"
    /\ LET i == Latest(TailOf(tb))
           s == Store(P, Slot(tb, i), enqueued + 1)
       IN  Becomes("producer", Store(ReleaseFence(s), TailOf(tb), Succ(i)))
    /\ enqueued' = enqueued + 1
    /\ ppc' = "idle"
    /\ UNCHANGED <<localFront, blocks, consVars, localTail, sizeVars>>

\* Is the block after the tail block free?  A frontBlock that has moved on is
\* followed by an acquire fence (449), an old value makes the queue grow.
CheckNext ==
    /\ ppc = "checkNext"
    /\ \E n \in Visible(P, FrontBlock) :
         LET s == Load(P, FrontBlock, n)
         IN  IF Latest(NextOf(tb)) # ValueAt(P, FrontBlock, n)
               THEN Becomes("producer", AcquireFence(s)) /\ ppc' = "loadNext"
               ELSE /\ Becomes("producer", s)
                    /\ \/ "enqueue" \in ProducerOps /\ ppc' = "alloc"
                       \/ "try_enqueue" \in ProducerOps /\ ppc' = "idle"
    /\ UNCHANGED <<localFront, blocks, enqueued, consVars, localTail, sizeVars>>

\* The free block's front, and the acquire fence (455).
LoadNext ==
    /\ ppc = "loadNext"
    /\ \E n \in Visible(P, FrontOf(nb)) :
         /\ Becomes("producer", AcquireFence(Load(P, FrontOf(nb), n)))
         /\ localFront' = [localFront EXCEPT
                             ![nb] = ValueAt(P, FrontOf(nb), n)]
    /\ ppc' = "constructNext"
    /\ UNCHANGED <<blocks, enqueued, consVars, localTail, sizeVars>>

\* The element, tail, the release fence (467), tailBlock; returns true.
ConstructNext ==
    /\ ppc = "constructNext"
    /\ LET i == Latest(TailOf(nb))
           s == Stores(P, [l \in {Slot(nb, i), TailOf(nb)} |->
                             IF l = TailOf(nb) THEN Succ(i) ELSE enqueued + 1])
       IN  Becomes("producer", Store(ReleaseFence(s), TailBlock, nb))
    /\ enqueued' = enqueued + 1
    /\ ppc' = "idle"
    /\ UNCHANGED <<localFront, blocks, consVars, localTail, sizeVars>>

\* What make_block and the lines after it store, up to the link (485, 486).
NewBlockLinked(b) ==
    Stores(P, [l \in {Built(b), FrontOf(b), Slot(b, 0), TailOf(b), NextOf(b),
                     NextOf(tb)} |->
                 CASE l = FrontOf(b)  -> 0
                   [] l = Slot(b, 0)  -> enqueued + 1
                   [] l = NextOf(b)   -> nb
                   [] l = NextOf(tb)  -> b
                   [] OTHER           -> 1])

\* The new block, the release fence (494), tailBlock; returns true.
MakeBlock ==
    LET b == blocks + 1
        s == ReleaseFence(NewBlockLinked(b))
    IN  /\ ppc = "alloc" /\ blocks < MaxBlocks
        /\ Becomes("producer", Store(s, TailBlock, b))
        /\ localTail' = [localTail EXCEPT ![b] = 1]
        /\ blocks' = b
        /\ enqueued' = enqueued + 1
        /\ ppc' = "idle"
        /\ UNCHANGED <<localFront, consVars, sizeVars>>

MallocFails ==
    /\ ppc = "alloc"
    /\ ppc' = "idle"
    /\ UNCHANGED <<mem, views, localFront, blocks, enqueued,
                   consVars, localTail, sizeVars>>

InnerEnqueue == \/ LoadFront \/ Construct \/ CheckNext \/ LoadNext
                \/ ConstructNext \/ MakeBlock \/ MallocFails

-----------------------------------------------------------------------------
(* try_dequeue, pop and peek *)

C  == Sees("consumer")
fb == Latest(FrontBlock)                   \* frontBlock_, the consumer's own

Removes == ConsumerOps \cap {"try_dequeue", "pop"} # {}

\* try_dequeue, pop and peek part where the element is found.
BeginDequeue ==
    /\ ConsumerOps \cap {"try_dequeue", "pop", "peek"} # {}
    /\ cpc = "idle" /\ spc["consumer"] = "off"
    /\ IF Latest(FrontOf(fb)) # localTail[fb]
         THEN cpc' = "read" /\ Becomes("consumer", AcquireFence(C))
         ELSE cpc' = "loadTail" /\ UNCHANGED <<mem, views>>
    /\ UNCHANGED <<prodVars, cblock, dequeued, localTail, sizeVars>>

\* The copy says empty: refresh it; the acquire fence (214) only if it helped.
LoadTail ==
    /\ cpc = "loadTail"
    /\ \E n \in Visible(C, TailOf(fb)) :
         LET t == ValueAt(C, TailOf(fb), n)
             s == Load(C, TailOf(fb), n)
         IN  /\ localTail' = [localTail EXCEPT ![fb] = t]
             /\ IF Latest(FrontOf(fb)) # t
                  THEN cpc' = "read" /\ Becomes("consumer", AcquireFence(s))
                  ELSE cpc' = "checkTailBlock" /\ Becomes("consumer", s)
    /\ UNCHANGED <<prodVars, cblock, dequeued, sizeVars>>

\* Mutant of CheckTailBlock: no acquire fence after tailBlock.
CheckTailBlockUnfenced ==
    /\ cpc = "checkTailBlock"
    /\ \E n \in Visible(C, TailBlock) :
         /\ Becomes("consumer", Load(C, TailBlock, n))
         /\ cpc' = IF fb # ValueAt(C, TailBlock, n) THEN "reloadTail"
                                                    ELSE "idle"
    /\ UNCHANGED <<prodVars, cblock, dequeued, localTail, sizeVars>>

\* tailBlock, and the acquire fence (228) if the producer has moved on.
CheckTailBlock ==
    /\ cpc = "checkTailBlock"
    /\ \E n \in Visible(C, TailBlock) :
         LET s == Load(C, TailBlock, n)
         IN  IF fb # ValueAt(C, TailBlock, n)
               THEN /\ cpc' = "reloadTail"
                    /\ Becomes("consumer", AcquireFence(s))
               ELSE cpc' = "idle" /\ Becomes("consumer", s)
    /\ UNCHANGED <<prodVars, cblock, dequeued, localTail, sizeVars>>

\* tail once more, and the acquire fence (233).
ReloadTail ==
    /\ cpc = "reloadTail"
    /\ \E n \in Visible(C, TailOf(fb)) :
         LET t == ValueAt(C, TailOf(fb), n)
         IN  /\ localTail' = [localTail EXCEPT ![fb] = t]
             /\ Becomes("consumer", AcquireFence(Load(C, TailOf(fb), n)))
             /\ cpc' = IF Latest(FrontOf(fb)) # t THEN "read" ELSE "loadNext"
    /\ UNCHANGED <<prodVars, cblock, dequeued, sizeVars>>

\* next has no fence of its own.
FollowNext ==
    /\ cpc = "loadNext"
    /\ \E n \in Visible(C, NextOf(fb)) :
         /\ Becomes("consumer", Load(C, NextOf(fb), n))
         /\ cblock' = ValueAt(C, NextOf(fb), n)
    /\ cpc' = "loadNextTail"
    /\ UNCHANGED <<prodVars, dequeued, localTail, sizeVars>>

\* The next block's tail, the acquire fence (248), the assertion (252).
LoadNextTail ==
    /\ cpc = "loadNextTail" /\ Removes
    /\ \E n \in Visible(C, TailOf(cblock)) :
         LET t == ValueAt(C, TailOf(cblock), n)
         IN  /\ Becomes("consumer", AcquireFence(Load(C, TailOf(cblock), n)))
             /\ localTail' = [localTail EXCEPT ![cblock] = t]
             /\ cpc' = IF Latest(FrontOf(cblock)) # t THEN "advanceFrontBlock"
                                                    ELSE "failed"
    /\ UNCHANGED <<prodVars, cblock, dequeued, sizeVars>>

\* peek crosses the fence first (315), and asserts on a fresh tail (317).
AssertNextTail ==
    /\ cpc = "loadNextTail" /\ "peek" \in ConsumerOps
    /\ LET s == AcquireFence(C)
       IN  \E n \in Visible(s, TailOf(cblock)) :
             /\ Becomes("consumer", Load(s, TailOf(cblock), n))
             /\ cpc' = IF Latest(FrontOf(cblock)) # ValueAt(s, TailOf(cblock), n)
                         THEN "readNext" ELSE "failed"
    /\ UNCHANGED <<prodVars, cblock, dequeued, localTail, sizeVars>>

\* Mutant of AdvanceFrontBlock: the last front is not released.
AdvanceFrontBlockUnfenced ==
    /\ cpc = "advanceFrontBlock"
    /\ Becomes("consumer", Store(C, FrontBlock, cblock))
    /\ cpc' = "move"
    /\ UNCHANGED <<prodVars, cblock, dequeued, localTail, sizeVars>>

\* The release fence (256), frontBlock.
AdvanceFrontBlock ==
    /\ cpc = "advanceFrontBlock"
    /\ Becomes("consumer", Store(ReleaseFence(C), FrontBlock, cblock))
    /\ cpc' = "move"
    /\ UNCHANGED <<prodVars, cblock, dequeued, localTail, sizeVars>>

\* The slot the call reads.
Found == LET b == IF cpc = "readNext" THEN cblock ELSE fb
         IN  Slot(b, Latest(FrontOf(b)))

GiveBack(s) == Store(s, FrontOf(fb), Succ(Latest(FrontOf(fb))))

\* Mutant of ReadElement: no release fence before front.
ReadElementUnfenced ==
    /\ cpc = "move" \/ (cpc = "read" /\ Removes)
    /\ Becomes("consumer", GiveBack(Store(C, Found, 0)))
    /\ dequeued' = dequeued + 1
    /\ cpc' = "idle" /\ cblock' = Null
    /\ UNCHANGED <<prodVars, localTail, sizeVars>>

\* Move the element out and destroy it, the release fence (224), front.
ReadElement ==
    /\ cpc = "move" \/ (cpc = "read" /\ Removes)
    /\ Becomes("consumer", GiveBack(ReleaseFence(Store(C, Found, 0))))
    /\ dequeued' = dequeued + 1
    /\ cpc' = "idle" /\ cblock' = Null
    /\ UNCHANGED <<prodVars, localTail, sizeVars>>

\* peek's pointer, read by the caller.
PeekElement ==
    /\ cpc = "readNext" \/ (cpc = "read" /\ "peek" \in ConsumerOps)
    /\ cpc' = "idle" /\ cblock' = Null
    /\ UNCHANGED <<mem, views, prodVars, dequeued, localTail, sizeVars>>

InnerDequeue == \/ LoadTail \/ CheckTailBlock \/ ReloadTail \/ FollowNext
                \/ LoadNextTail \/ AssertNextTail \/ AdvanceFrontBlock
                \/ ReadElement \/ PeekElement

-----------------------------------------------------------------------------
(* size_approx: an acquire fence, then front and tail, then next, for each
   block of the circle. *)

MayCount(t) == IF t = "producer"
                 THEN ppc = "idle" /\ "size_approx" \in ProducerOps
                 ELSE cpc = "idle" /\ "size_approx" \in ConsumerOps

SizeApprox(t) ==
    /\ MayCount(t) /\ spc[t] = "off"
    /\ \E n \in Visible(Sees(t), FrontBlock) :
         LET s == Load(Sees(t), FrontBlock, n)
             b == ValueAt(s, FrontBlock, n)
         IN  /\ Becomes(t, AcquireFence(s))
             /\ walk' = [walk EXCEPT ![t] = [from |-> b, at |-> b]]
    /\ spc' = [spc EXCEPT ![t] = "count"]
    /\ UNCHANGED <<prodVars, consVars, localTail>>

CountBlock(t) ==
    /\ spc[t] = "count"
    /\ LET b == walk[t].at
       IN  \E n \in Visible(Sees(t), FrontOf(b)), m \in Visible(Sees(t), TailOf(b)) :
             Becomes(t, Load(Load(Sees(t), FrontOf(b), n), TailOf(b), m))
    /\ spc' = [spc EXCEPT ![t] = "step"]
    /\ UNCHANGED <<prodVars, consVars, localTail, walk>>

StepBlock(t) ==
    /\ spc[t] = "step"
    /\ LET l == NextOf(walk[t].at)
       IN  \E n \in Visible(Sees(t), l) :
             LET s == Load(Sees(t), l, n)
                 b == ValueAt(s, l, n)
             IN  IF b = walk[t].from
                   THEN /\ Becomes(t, s)
                        /\ spc' = [spc EXCEPT ![t] = "off"]
                        /\ walk' = [walk EXCEPT ![t] = [from |-> Null,
                                                        at |-> Null]]
                   ELSE /\ Becomes(t, AcquireFence(s))
                        /\ spc' = [spc EXCEPT ![t] = "count"]
                        /\ walk' = [walk EXCEPT ![t].at = b]
    /\ UNCHANGED <<prodVars, consVars, localTail>>

Sizing == \E t \in Threads : SizeApprox(t) \/ CountBlock(t) \/ StepBlock(t)

-----------------------------------------------------------------------------
Next == \/ BeginEnqueue \/ InnerEnqueue
        \/ BeginDequeue \/ InnerDequeue
        \/ Sizing

Spec == Init /\ [][Next]_weakVars

-----------------------------------------------------------------------------
(* Properties *)

WeakTypeOK ==
    /\ \A t \in Threads, l \in Locations :
         /\ views[t].cur[l] \in 1..views[t].acq[l]
         /\ views[t].rel[l] \in 1..views[t].cur[l]
         /\ views[t].acq[l] \in 1..Len(mem[l])
    /\ ppc \in {"idle", "loadFront", "construct", "checkNext", "loadNext",
                "constructNext", "alloc"}
    /\ cpc \in {"idle", "loadTail", "checkTailBlock", "reloadTail", "loadNext",
                "loadNextTail", "advanceFrontBlock", "read", "move",
                "readNext", "failed"}
    /\ cblock \in Block \cup {Null}
    /\ localFront \in [Block -> Slots] /\ localTail \in [Block -> Slots]
    /\ blocks \in Block
    /\ enqueued \in 0..MaxElements /\ dequeued \in 0..enqueued
    /\ spc \in [Threads -> {"off", "count", "step"}]
    /\ walk \in [Threads -> [from : Block \cup {Null}, at : Block \cup {Null}]]

\* Whatever the hardware reorders, a slot is constructed over, read and
\* destroyed by a thread that has seen the last thing done to it, and a block
\* is entered by a thread that has seen it built: the fences suffice.
NoDataRace ==
    /\ WeakTypeOK
    /\ ppc = "construct" => Knows("producer", Slot(tb, Latest(TailOf(tb))))
    /\ ppc = "constructNext" => Knows("producer", Slot(nb, Latest(TailOf(nb))))
    /\ cpc \in {"loadNextTail", "advanceFrontBlock", "readNext"}
         => cblock # Null /\ Knows("consumer", Built(cblock))
    /\ cpc \in {"read", "move", "readNext"} => Knows("consumer", Found)

\* The assertions of lines 252, 317 and 459, with the values the thread has
\* really loaded: the block ahead holds an element, the free block none.
WeakAssertionsHold ==
    /\ cpc # "failed"
    /\ ppc = "constructNext" => localFront[nb] = Latest(TailOf(nb))

\* Elements come out whole, once and in the order they went in, although the
\* consumer may read old values of tail, tailBlock, next and the slot itself:
\* whichever value of the slot it reads, it is the oldest element's.
ReadsInOrder ==
    cpc \in {"read", "move", "readNext"}
      => \A n \in Visible(C, Found) : ValueAt(C, Found, n) = dequeued + 1

\* size_approx enters a block only when its thread has seen it built.  The
\* comment above it says that both threads may call it.
SizeSeesBuiltBlocks ==
    \A t \in Threads :
      spc[t] # "off" => walk[t].at # Null /\ Knows(t, Built(walk[t].at))
=============================================================================
