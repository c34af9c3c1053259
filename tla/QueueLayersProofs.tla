------------------------- MODULE QueueLayersProofs -------------------------
(***************************************************************************)
(* The proofs about the layers below ReaderWriterQueue and the layer above *)
(* it: that the fences of src/readerwriterqueue.h suffice on a memory that *)
(* reorders accesses (WeakMemoryQueue), for every size of the blocks and   *)
(* every number of blocks and elements; that a block fits into the memory  *)
(* asked for (BlockLayout); and that the semaphore of                      *)
(* BlockingReaderWriterQueue agrees with its queue.                        *)
(*                                                                         *)
(* The first part's theorems leave size_approx to the producer: what the   *)
(* consumer's call may meet is WeakSize's counterexample.  The invariant   *)
(* WInv says of every value a location has ever held what whoever reads it *)
(* learns with it, the histories of the locations taking the place that    *)
(* their contents have in ReaderWriterQueueProofs:                         *)
(*   - Memory: views lead to values there are;                             *)
(*   - Control, Histories, Circle, Counts, Cells: the queue as it is, that *)
(*     is, as the latest value of every location has it;                   *)
(*   - FrontViews, FrontBlockViews, TailBlockViews, TailViews: what is     *)
(*     released with each value of front, frontBlock, tailBlock and tail;  *)
(*   - ProducerRoom, ProducerKnows, ProducerAt and ConsumerStock,          *)
(*     ConsumerKnows, ConsumerAt: what each thread has acquired.           *)
(***************************************************************************)
EXTENDS WeakMemoryQueue, BlockingReaderWriterQueue, BlockLayout, SequenceTheorems, TLAPS


-----------------------------------------------------------------------------
(* The invariant *)

\* Position p of a block lies in this slot: positions count the elements ever put there.
Wrap(p) == p % BlockSize

\* The place in front's history that stands for no element given back: the store of
\* make_block follows the initial value.
Origin(b) == IF b = 1 THEN 1 ELSE 2

Made == 1..blocks

Message == [val : Nat, view : [Locations -> Nat]]
Views == [cur : [Locations -> Nat], acq : [Locations -> Nat], rel : [Locations -> Nat]]
Parts == {"mem", "cur", "acq", "rel"}

\* What a thread sees is there: views lead to values that were stored.
Sound(s) ==
  /\ DOMAIN s = Parts
  /\ s.mem \in [Locations -> Seq(Message)]
  /\ s.cur \in [Locations -> Nat] /\ s.acq \in [Locations -> Nat] /\ s.rel \in [Locations -> Nat]
  /\ \A l \in Locations : /\ 1 <= s.rel[l] /\ s.rel[l] <= s.cur[l]
                          /\ s.cur[l] <= s.acq[l] /\ s.acq[l] <= Len(s.mem[l])
  /\ \A l, x \in Locations : \A k \in 1..Len(s.mem[l]) :
       1 <= s.mem[l][k].view[x] /\ s.mem[l][k].view[x] <= Len(s.mem[x])

Memory ==
  /\ views \in [Threads -> Views]
  /\ \A t \in Threads : Sound(Sees(t))

\* How many values every location has had, the latest of them, and what each thread knows.
last == [l \in Locations |-> Len(mem[l])]
now  == [l \in Locations |-> mem[l][Len(mem[l])].val]
Pc   == views["producer"].cur
Cc   == views["consumer"].cur

\* The elements ever put into a block and given back from it; the blocks the producer
\* has entered, one after another, and how many of them both threads have.
Put     == [b \in Block |-> last[TailOf(b)] - 1]
Got     == [b \in Block |-> last[FrontOf(b)] - Origin(b)]
At      == [j \in 1..Len(mem[TailBlock]) |-> mem[TailBlock][j].val]
Entered == last[TailBlock]
Left    == last[FrontBlock]

\* None of the positions from g up to q lies in slot i; and block b is none of the blocks
\* entered from the n-th to the e-th.
Spare(g, q, i) == \A p \in g..(q - 1) : Wrap(p) # i
Outside(at, n, e, b) == \A j \in n..e : at[j] # b

\* Where the calls are.
Control ==
  /\ ppc \in {"idle", "loadFront", "construct", "checkNext", "loadNext",
              "constructNext", "alloc"}
  /\ cpc \in {"idle", "loadTail", "checkTailBlock", "reloadTail", "loadNext",
              "loadNextTail", "advanceFrontBlock", "read", "move", "readNext"}
  /\ cblock \in Block \cup {Null}
  /\ localFront \in [Block -> Slots] /\ localTail \in [Block -> Slots]
  /\ blocks \in Block
  /\ enqueued \in 0..MaxElements /\ dequeued \in 0..enqueued
  /\ ppc # "idle" => enqueued < MaxElements
  /\ spc \in [Threads -> {"off", "count", "step"}]
  /\ walk \in [Threads -> [from : Block \cup {Null}, at : Block \cup {Null}]]
  /\ spc["producer"] # "off" => walk["producer"].at \in Made
  /\ spc["consumer"] = "off"

\* tail and front count round the slots, frontBlock follows tailBlock, and what malloc
\* has not returned is untouched.
Histories ==
  /\ \A b \in Made : Got[b] >= 0 /\ now[NextOf(b)] \in Made
  /\ \A b \in Made : \A q \in 0..Put[b] : mem[TailOf(b)][q + 1].val = Wrap(q)
  /\ \A b \in Made : \A g \in 0..Got[b] : mem[FrontOf(b)][g + Origin(b)].val = Wrap(g)
  /\ \A b \in Block \ Made :
       /\ Put[b] = 0 /\ Got[b] = -1 /\ localFront[b] = 0
       /\ mem[TailOf(b)][1].val = 0
       /\ \A i \in Slots : last[Slot(b, i)] = 1
  /\ Left <= Entered
  /\ \A j \in 1..Entered : At[j] \in Made
  /\ \A j \in 1..Left : mem[FrontBlock][j].val = At[j]

\* The blocks form a circle.  Those from the last one the producer has seen the consumer
\* in to its own follow one another in it, and the block behind its own is either free
\* or the first of them.
Circle ==
  LET n == Pc[FrontBlock]
  IN  /\ \A i, j \in n..Entered : At[i] = At[j] => i = j
      /\ \A j \in n..(Entered - 1) : now[NextOf(At[j])] = At[j + 1]
      /\ \A b \in Made : Outside(At, n, Entered, b) \/ b = At[Entered]
           => Outside(At, n, Entered, now[NextOf(b)]) \/ now[NextOf(b)] = At[n]
      /\ \A b, c \in Made : now[NextOf(b)] = now[NextOf(c)] => b = c

\* A block never holds more than one element less than its slots; outside the blocks in
\* use it is empty, ahead of the consumer it is not.
Counts ==
  /\ \A b \in Made : Got[b] <= Put[b] /\ Put[b] - Got[b] < BlockSize
  /\ \A b \in Made : Outside(At, Left, Entered, b) => Got[b] = Put[b]
  /\ \A j \in (Left + 1)..Entered : Got[At[j]] < Put[At[j]]

\* The elements of a block are consecutive numbers, and go on from block to block.
First(b) == IF Got[b] < Put[b] THEN now[Slot(b, Wrap(Got[b]))] ELSE dequeued + 1
Cells ==
  /\ \A b \in Made : \A p \in Got[b]..(Put[b] - 1) :
       now[Slot(b, Wrap(p))] = now[Slot(b, Wrap(Got[b]))] + (p - Got[b])
  /\ First(At[Left]) = dequeued + 1
  /\ \A j \in Left..(Entered - 1) : First(At[j]) + (Put[At[j]] - Got[At[j]]) = First(At[j + 1])
  /\ \A j \in Left..Entered : First(At[j]) + (Put[At[j]] - Got[At[j]]) <= enqueued + 1
  /\ First(At[Entered]) + (Put[At[Entered]] - Got[At[Entered]]) = enqueued + 1

\* A value of front brings what happened to the slots that were free when it was stored
\* and still are: their elements have been destroyed.
FrontViews ==
  \A b \in Made : \A g \in 0..Got[b], i \in Slots :
    Spare(g, Put[b], i)
      => mem[FrontOf(b)][g + Origin(b)].view[Slot(b, i)] = last[Slot(b, i)]

\* A value of frontBlock brings all there is to know of the blocks not in use since.
FrontBlockViews ==
  \A n \in 1..Left : \A b \in Made : Outside(At, n, Entered, b) =>
    /\ mem[FrontBlock][n].view[FrontOf(b)] = last[FrontOf(b)]
    /\ \A i \in Slots : mem[FrontBlock][n].view[Slot(b, i)] = last[Slot(b, i)]

\* Block b as its first element left it: what a consumer who enters it must know.
Ready(v, b) ==
  /\ v[FrontOf(b)] = last[FrontOf(b)] /\ v[Built(b)] = last[Built(b)]
  /\ v[TailOf(b)] >= Got[b] + 2
  /\ v[Slot(b, Wrap(Got[b]))] = last[Slot(b, Wrap(Got[b]))]
\* Block b as the producer left it.
Complete(v, b) ==
  /\ v[TailOf(b)] = last[TailOf(b)] /\ v[NextOf(b)] = last[NextOf(b)]
  /\ \A p \in Got[b]..(Put[b] - 1) : v[Slot(b, Wrap(p))] = last[Slot(b, Wrap(p))]
TailBlockViews ==
  \A m \in 1..Entered : \A j \in Left..m :
    /\ j > Left => Ready(mem[TailBlock][m].view, At[j])
    /\ j < m => Complete(mem[TailBlock][m].view, At[j])

\* A value of tail brings the elements before it, unless the consumer knows them: only
\* the first element of a block it has not entered comes with tailBlock instead.
TailViews ==
  \A b \in Made : \A q \in 0..Put[b] : \A p \in Got[b]..(q - 1) :
    \/ mem[TailOf(b)][q + 1].view[Slot(b, Wrap(p))] = last[Slot(b, Wrap(p))]
    \/ Cc[Slot(b, Wrap(p))] = last[Slot(b, Wrap(p))]
    \/ b # At[Left] /\ p = Got[b]

\* localFront of the tail block is an older front, and the producer knows the slots that
\* were free then.
Room(b) ==
  \E g \in 0..(Pc[FrontOf(b)] - Origin(b)) :
    /\ localFront[b] = Wrap(g) /\ Put[b] - g < BlockSize
    /\ \A i \in Slots : Spare(g, Put[b], i) => Pc[Slot(b, i)] = last[Slot(b, i)]

ProducerRoom == Room(At[Entered])

\* The producer knows its own stores, the elements in the blocks and the fronts of the
\* blocks ahead of the consumer.
ProducerKnows ==
  /\ Pc[TailBlock] = Entered
  /\ \A b \in Block : /\ Pc[TailOf(b)] = last[TailOf(b)] /\ Pc[NextOf(b)] = last[NextOf(b)]
                      /\ Pc[Built(b)] = last[Built(b)]
  /\ \A b \in Made : Pc[FrontOf(b)] >= Origin(b)
  /\ \A j \in (Left + 1)..Entered : Pc[FrontOf(At[j])] = last[FrontOf(At[j])]
  /\ \A b \in Made : \A p \in Got[b]..(Put[b] - 1) :
       Pc[Slot(b, Wrap(p))] = last[Slot(b, Wrap(p))]

\* What it has found out in the call in progress.
ProducerAt ==
  LET t == At[Entered]
      n == now[NextOf(t)]
  IN  /\ ppc = "construct" => Succ(Wrap(Put[t])) # localFront[t]
      /\ ppc \in {"loadNext", "constructNext"} =>
           /\ Outside(At, Pc[FrontBlock], Entered, n)
           /\ Pc[FrontOf(n)] = last[FrontOf(n)]
           /\ \A i \in Slots : Pc[Slot(n, i)] = last[Slot(n, i)]
      /\ ppc = "constructNext" => localFront[n] = Wrap(Got[n])

\* localTail is an older tail, and the consumer knows the elements before it.
Stock(b) ==
  \E q \in Got[b]..(Cc[TailOf(b)] - 1) :
    /\ localTail[b] = Wrap(q)
    /\ \A p \in Got[b]..(q - 1) : Cc[Slot(b, Wrap(p))] = last[Slot(b, Wrap(p))]

ConsumerStock == Stock(At[Left])

\* The consumer knows its own stores: the fronts of the blocks it is not ahead of, and
\* every slot without an element.
ConsumerKnows ==
  /\ Cc[FrontBlock] = Left /\ Cc[TailBlock] >= Left
  /\ \A b \in Made : Outside(At, Left + 1, Entered, b) => Cc[FrontOf(b)] = last[FrontOf(b)]
  /\ \A b \in Made : \A i \in Slots : Spare(Got[b], Put[b], i) => Cc[Slot(b, i)] = last[Slot(b, i)]

\* What it has found out in the call in progress.
ConsumerAt ==
  LET f == At[Left]
      a == At[Left + 1]
  IN  /\ cpc \in {"reloadTail", "loadNext", "loadNextTail", "advanceFrontBlock", "readNext"} =>
           /\ Left < Entered /\ Cc[TailBlock] > Left
           /\ Complete(Cc, f) /\ Ready(Cc, a)
      /\ cpc \in {"loadNext", "loadNextTail", "advanceFrontBlock", "readNext"} => Got[f] = Put[f]
      /\ cpc \in {"loadNextTail", "advanceFrontBlock", "readNext"} => cblock = a
      /\ cpc = "advanceFrontBlock" => Stock(a) /\ Wrap(Got[a]) # localTail[a]
      /\ cpc \in {"read", "move"} => Wrap(Got[f]) # localTail[f]

WInv == /\ Memory /\ Control /\ Histories /\ Circle /\ Counts /\ Cells
        /\ FrontViews /\ FrontBlockViews /\ TailBlockViews /\ TailViews
        /\ ProducerRoom /\ ProducerKnows /\ ProducerAt
        /\ ConsumerStock /\ ConsumerKnows /\ ConsumerAt

-----------------------------------------------------------------------------
(* Locations *)

\* The parts of a location tell it from any other.
LEMMA Kinds ==
  /\ FrontBlock \in Locations /\ FrontBlock[1] = "frontBlock"
  /\ TailBlock \in Locations /\ TailBlock[1] = "tailBlock"
  /\ \A b \in Block :
       /\ FrontOf(b) \in Locations /\ TailOf(b) \in Locations /\ NextOf(b) \in Locations
       /\ Built(b) \in Locations
  /\ \A b \in Block, i \in Slots : Slot(b, i) \in Locations
  /\ \A b : /\ FrontOf(b)[1] = "front" /\ FrontOf(b)[2] = b
            /\ TailOf(b)[1] = "tail" /\ TailOf(b)[2] = b
            /\ NextOf(b)[1] = "next" /\ NextOf(b)[2] = b
            /\ Built(b)[1] = "block" /\ Built(b)[2] = b
  /\ \A b, i : Slot(b, i)[1] = "data" /\ Slot(b, i)[2] = b /\ Slot(b, i)[3] = i
BY DEF Locations, FrontBlock, TailBlock, FrontOf, TailOf, NextOf, Built, Slot

\* Every location is one of these.
LEMMA AllLocations ==
  ASSUME NEW l \in Locations
  PROVE  \/ l = FrontBlock \/ l = TailBlock
         \/ \E b \in Block : \/ l \in {FrontOf(b), TailOf(b), NextOf(b), Built(b)}
                             \/ \E i \in Slots : l = Slot(b, i)
BY DEF Locations

-----------------------------------------------------------------------------
(* Positions and slots *)

\* Quotient and remainder are the only ones.
LEMMA Remainder ==
  ASSUME NEW p \in Nat, NEW q \in Nat, NEW r \in 0..(BlockSize-1), p = BlockSize * q + r
  PROVE  p % BlockSize = r /\ p \div BlockSize = q
  BY WeakAssumption

\* Every position has them.
LEMMA Quotient ==
  ASSUME NEW p \in Nat
  PROVE  \E q \in Nat, r \in 0..(BlockSize - 1) :
           p = BlockSize * q + r /\ r = p % BlockSize /\ q = p \div BlockSize
  BY WeakAssumption

\* The next position is in the next slot, or in the first one.
LEMMA NextRemainder ==
  ASSUME NEW p \in Nat
  PROVE  (p + 1) % BlockSize
           = IF p % BlockSize = BlockSize - 1 THEN 0 ELSE (p % BlockSize) + 1
<1>1. PICK q \in Nat, r \in 0..(BlockSize - 1) : p = BlockSize * q + r /\ r = p % BlockSize
  BY Quotient
<1>2. CASE r = BlockSize - 1
  <2>1. PICK m \in Nat, c \in Nat : m = p + 1 /\ c = q + 1
    OBVIOUS
  <2>2. m = BlockSize * c + 0 /\ 0 \in 0..(BlockSize - 1)
    BY WeakAssumption, <1>1, <1>2, <2>1
  <2>3. m % BlockSize = 0
    BY <2>2, Remainder
  <2> QED
    BY <1>1, <1>2, <2>1, <2>3
<1>3. CASE r # BlockSize - 1
  <2>1. PICK m \in Nat, c \in 0..(BlockSize - 1) : m = p + 1 /\ c = r + 1
    BY WeakAssumption, <1>3
  <2>2. m = BlockSize * q + c
    <3>1. PICK k \in Nat : k = BlockSize * q
      BY WeakAssumption
    <3>2. p = k + r
      BY <1>1, <3>1
    <3> QED
      BY <2>1, <3>1, <3>2
  <2>3. m % BlockSize = c
    BY <2>2, Remainder
  <2> QED
    BY <1>1, <1>3, <2>1, <2>3
<1> QED
  BY <1>2, <1>3

\* The first positions are the slots themselves.
LEMMA SmallRemainder ==
  ASSUME NEW p \in 0..(BlockSize - 1) PROVE p % BlockSize = p
  BY WeakAssumption

\* Positions less than a block apart are in different slots.
LEMMA NearRemainders ==
  ASSUME NEW p \in Nat, NEW q \in Nat, p < q, q - p < BlockSize
  PROVE  p % BlockSize # q % BlockSize
<1> SUFFICES ASSUME p % BlockSize = q % BlockSize PROVE FALSE
  OBVIOUS
<1>1. PICK a \in Nat, r \in 0..(BlockSize - 1) : p = BlockSize * a + r /\ r = p % BlockSize
  BY Quotient
<1>2. PICK b \in Nat, s \in 0..(BlockSize - 1) : q = BlockSize * b + s /\ s = q % BlockSize
  BY Quotient
<1>3. r = s /\ BlockSize * b > BlockSize * a /\ BlockSize * b < BlockSize * a + BlockSize
  BY WeakAssumption, <1>1, <1>2
<1>4. PICK n \in Nat : n = BlockSize /\ n >= 2
  BY WeakAssumption
<1>5. CASE b >= a + 1
  <2>1. PICK c \in Nat : b = (a + 1) + c
    <3>1. b - (a + 1) \in Nat
      BY <1>5
    <3> QED
      BY <3>1
  <2>2. n * b = n * a + n + n * c /\ n * c >= 0 /\ n * a \in Nat /\ n * b \in Nat
    BY <2>1
  <2> QED
    BY <1>3, <1>4, <2>2
<1>6. CASE b <= a
  <2>1. PICK c \in Nat : a = b + c
    <3>1. a - b \in Nat
      BY <1>6
    <3> QED
      BY <3>1
  <2>2. n * a = n * b + n * c /\ n * c >= 0 /\ n * a \in Nat /\ n * b \in Nat
    BY <2>1
  <2> QED
    BY <1>3, <1>4, <2>2
<1> QED
  BY <1>5, <1>6

\* Positions wrap round: as many that follow one another as a block has slots differ.
LEMMA WrapFacts ==
  /\ \A p \in Nat : Wrap(p) \in Slots /\ Succ(Wrap(p)) = Wrap(p + 1)
  /\ \A p, q \in Nat : p < q /\ q < p + BlockSize => Wrap(p) # Wrap(q)
  /\ Wrap(0) = 0 /\ Wrap(1) = 1
<1>1. ASSUME NEW p \in Nat PROVE Wrap(p) \in Slots
  BY Quotient DEF Wrap, Slots
<1>2. ASSUME NEW p \in Nat PROVE Succ(Wrap(p)) = Wrap(p + 1)
  <2>1. PICK r \in 0..(BlockSize - 1) : r = p % BlockSize
    BY Quotient
  <2>2. (p + 1) % BlockSize = IF r = BlockSize - 1 THEN 0 ELSE r + 1
    BY <2>1, NextRemainder
  <2>3. r % BlockSize = r
    BY SmallRemainder
  <2>4. (r + 1) % BlockSize = IF r % BlockSize = BlockSize - 1 THEN 0 ELSE (r % BlockSize) + 1
    BY NextRemainder
  <2> QED
    BY <2>1, <2>2, <2>3, <2>4 DEF Wrap, Succ
<1>3. ASSUME NEW p \in Nat, NEW q \in Nat, p < q, q < p + BlockSize PROVE Wrap(p) # Wrap(q)
  <2>1. q - p < BlockSize
    BY <1>3, WeakAssumption
  <2> QED
    BY <1>3, <2>1, NearRemainders DEF Wrap
<1>4. Wrap(0) = 0 /\ Wrap(1) = 1
  <2>1. 0 \in 0..(BlockSize - 1) /\ 1 \in 0..(BlockSize - 1)
    BY WeakAssumption
  <2> QED
    BY <2>1, SmallRemainder DEF Wrap
<1> QED
  BY <1>1, <1>2, <1>3, <1>4

-----------------------------------------------------------------------------
(* Loads, stores and fences *)

\* The operators of ViewMemory, part by part.
LEMMA LoadParts ==
  ASSUME NEW s, DOMAIN s = Parts, NEW l, NEW n
  PROVE  /\ Load(s, l, n).mem = s.mem /\ Load(s, l, n).rel = s.rel
         /\ Load(s, l, n).cur = [s.cur EXCEPT ![l] = n]
         /\ Load(s, l, n).acq = [Join(s.acq, s.mem[l][n].view) EXCEPT ![l] = n]
         /\ DOMAIN Load(s, l, n) = Parts
BY DEF Load, Parts

\* What a store adds to a location's history.
Added(s, new, l) == [val |-> new[l], view |-> [s.rel EXCEPT ![l] = Place(s, l)]]

\* A fence changes a view, never the memory.
LEMMA FenceParts ==
  ASSUME NEW s, DOMAIN s = Parts
  PROVE  /\ AcquireFence(s).mem = s.mem /\ AcquireFence(s).rel = s.rel
         /\ AcquireFence(s).cur = s.acq /\ AcquireFence(s).acq = s.acq
         /\ DOMAIN AcquireFence(s) = Parts
         /\ ReleaseFence(s).mem = s.mem /\ ReleaseFence(s).rel = s.cur
         /\ ReleaseFence(s).cur = s.cur /\ ReleaseFence(s).acq = s.acq
         /\ DOMAIN ReleaseFence(s) = Parts
BY DEF AcquireFence, ReleaseFence, Parts

\* What a thread sees: the memory and its own views.
LEMMA SeesParts ==
  ASSUME NEW t
  PROVE  /\ Sees(t).mem = mem /\ Sees(t).cur = views[t].cur
         /\ Sees(t).acq = views[t].acq /\ Sees(t).rel = views[t].rel
         /\ DOMAIN Sees(t) = Parts
BY DEF Sees, Parts

\* A message is a value and a view.
LEMMA MessageFields ==
  /\ \A m \in Message : m.val \in Nat /\ m.view \in [Locations -> Nat]
  /\ \A v \in Nat, w \in [Locations -> Nat] : [val |-> v, view |-> w] \in Message
BY DEF Message

\* What Sound says of one location and one value.
LEMMA SoundFacts ==
  ASSUME NEW s, Sound(s)
  PROVE  /\ \A l \in Locations :
              /\ s.rel[l] \in Nat /\ s.cur[l] \in Nat /\ s.acq[l] \in Nat
              /\ Len(s.mem[l]) \in Nat /\ s.mem[l] \in Seq(Message)
              /\ 1 <= s.rel[l] /\ s.rel[l] <= s.cur[l]
              /\ s.cur[l] <= s.acq[l] /\ s.acq[l] <= Len(s.mem[l])
         /\ \A l \in Locations : \A k \in 1..Len(s.mem[l]) :
              /\ s.mem[l][k] \in Message
              /\ s.mem[l][k].val \in Nat /\ s.mem[l][k].view \in [Locations -> Nat]
         /\ \A l, x \in Locations : \A k \in 1..Len(s.mem[l]) :
              /\ s.mem[l][k].view[x] \in Nat
              /\ 1 <= s.mem[l][k].view[x] /\ s.mem[l][k].view[x] <= Len(s.mem[x])
<1>2. /\ s.mem \in [Locations -> Seq(Message)]
      /\ s.cur \in [Locations -> Nat] /\ s.acq \in [Locations -> Nat]
      /\ s.rel \in [Locations -> Nat]
  BY DEF Sound
<1>3. ASSUME NEW l \in Locations, NEW k \in 1..Len(s.mem[l]) PROVE s.mem[l][k] \in Message
  <2>1. s.mem[l] \in Seq(Message)
    BY <1>2
  <2> QED
    BY <2>1
<1>4. ASSUME NEW l \in Locations, NEW k \in 1..Len(s.mem[l])
      PROVE  s.mem[l][k].val \in Nat /\ s.mem[l][k].view \in [Locations -> Nat]
  BY <1>3, MessageFields
<1>5. ASSUME NEW l \in Locations, NEW k \in 1..Len(s.mem[l]), NEW x \in Locations
      PROVE  s.mem[l][k].view[x] \in Nat
  BY <1>4
<1>6. ASSUME NEW l \in Locations
      PROVE  /\ s.rel[l] \in Nat /\ s.cur[l] \in Nat /\ s.acq[l] \in Nat
             /\ Len(s.mem[l]) \in Nat /\ s.mem[l] \in Seq(Message)
  <2>1. s.mem[l] \in Seq(Message)
    BY <1>2
  <2> QED
    BY <1>2, <2>1
<1>7. /\ \A l \in Locations : /\ 1 <= s.rel[l] /\ s.rel[l] <= s.cur[l]
                              /\ s.cur[l] <= s.acq[l] /\ s.acq[l] <= Len(s.mem[l])
      /\ \A l, x \in Locations : \A k \in 1..Len(s.mem[l]) :
           1 <= s.mem[l][k].view[x] /\ s.mem[l][k].view[x] <= Len(s.mem[x])
  BY DEF Sound
<1> QED
  BY <1>3, <1>4, <1>5, <1>6, <1>7

\* A load keeps what the thread knew, and brings the location up to the value read.
LEMMA LoadIs ==
  ASSUME NEW s, Sound(s), NEW l \in Locations, NEW n, n \in Visible(s, l)
  PROVE  /\ Sound(Load(s, l, n))
         /\ Load(s, l, n).mem = s.mem /\ Load(s, l, n).rel = s.rel
         /\ Load(s, l, n).cur[l] = n /\ Load(s, l, n).acq[l] = n
         /\ \A x \in Locations \ {l} : Load(s, l, n).cur[x] = s.cur[x]
         /\ \A x \in Locations : s.cur[x] <= Load(s, l, n).cur[x]
         /\ \A x \in Locations \ {l} : s.mem[l][n].view[x] <= Load(s, l, n).acq[x]
<1> DEFINE v == s.mem[l][n].view
           r == Load(s, l, n)
<1>1. /\ DOMAIN s = Parts /\ n \in Nat /\ s.cur[l] <= n /\ n <= Len(s.mem[l]) /\ n \in 1..Len(s.mem[l])
  BY SoundFacts DEF Visible, Sound
<1>2. /\ v \in [Locations -> Nat]
      /\ \A x \in Locations : v[x] \in Nat /\ v[x] <= Len(s.mem[x])
  BY <1>1, SoundFacts
<1>3. /\ s.mem \in [Locations -> Seq(Message)]
      /\ s.cur \in [Locations -> Nat] /\ s.acq \in [Locations -> Nat]
      /\ s.rel \in [Locations -> Nat]
  BY DEF Sound
<1>4. /\ r.mem = s.mem /\ r.rel = s.rel /\ r.cur = [s.cur EXCEPT ![l] = n]
      /\ r.acq = [Join(s.acq, v) EXCEPT ![l] = n] /\ DOMAIN r = Parts
  <2>1. DOMAIN s = Parts
    BY <1>1
  <2> HIDE DEF v, r
  <2>2. /\ Load(s, l, n).mem = s.mem /\ Load(s, l, n).rel = s.rel
        /\ Load(s, l, n).cur = [s.cur EXCEPT ![l] = n]
        /\ Load(s, l, n).acq = [Join(s.acq, s.mem[l][n].view) EXCEPT ![l] = n]
        /\ DOMAIN Load(s, l, n) = Parts
    BY <2>1, LoadParts
  <2> QED
    BY <2>2 DEF v, r
<1> HIDE DEF v, r
<1>5. /\ Join(s.acq, v) \in [Locations -> Nat]
      /\ \A x \in Locations : Join(s.acq, v)[x] = IF s.acq[x] < v[x] THEN v[x] ELSE s.acq[x]
  <2>1. DOMAIN s.acq = Locations
    BY <1>3
  <2> QED
    BY <1>2, <1>3, <2>1 DEF Join
<1>6. /\ r.acq \in [Locations -> Nat] /\ r.cur \in [Locations -> Nat] /\ r.cur[l] = n /\ r.acq[l] = n
      /\ \A x \in Locations \ {l} :
           r.cur[x] = s.cur[x] /\ r.acq[x] = IF s.acq[x] < v[x] THEN v[x] ELSE s.acq[x]
  BY <1>1, <1>3, <1>4, <1>5
<1>7. \A x \in Locations :
        /\ 1 <= s.rel[x] /\ s.rel[x] <= s.cur[x] /\ s.cur[x] <= s.acq[x]
        /\ s.acq[x] <= Len(s.mem[x])
        /\ s.rel[x] \in Nat /\ s.cur[x] \in Nat /\ s.acq[x] \in Nat /\ Len(s.mem[x]) \in Nat
  BY SoundFacts
<1>8. ASSUME NEW x \in Locations
      PROVE  /\ 1 <= s.rel[x] /\ s.rel[x] <= r.cur[x] /\ r.cur[x] <= r.acq[x]
             /\ r.acq[x] <= Len(s.mem[x]) /\ s.cur[x] <= r.cur[x]
             /\ x # l => v[x] <= r.acq[x]
  <2>1. CASE x = l
    BY <1>1, <1>6, <1>7, <2>1
  <2>2. CASE x # l
    <3>1. r.cur[x] = s.cur[x] /\ r.acq[x] = IF s.acq[x] < v[x] THEN v[x] ELSE s.acq[x]
      BY <1>6, <2>2
    <3> QED
      BY <1>2, <1>7, <2>2, <3>1
  <2> QED
    BY <2>1, <2>2
<1>9. Sound(r)
  <2>1. \A x, y \in Locations : \A k \in 1..Len(s.mem[x]) :
          1 <= s.mem[x][k].view[y] /\ s.mem[x][k].view[y] <= Len(s.mem[y])
    BY SoundFacts
  <2> QED
    BY <1>3, <1>4, <1>6, <1>8, <2>1 DEF Sound
<1> QED
  BY <1>4, <1>6, <1>8, <1>9 DEF r, v

\* An acquire fence brings into force what was loaded.
LEMMA AcquireIs ==
  ASSUME NEW s, Sound(s)
  PROVE  /\ Sound(AcquireFence(s))
         /\ AcquireFence(s).mem = s.mem /\ AcquireFence(s).rel = s.rel
         /\ AcquireFence(s).cur = s.acq
         /\ \A x \in Locations : s.cur[x] <= AcquireFence(s).cur[x]
<1> DEFINE r == AcquireFence(s)
<1>4. r.mem = s.mem /\ r.cur = s.acq /\ r.acq = s.acq /\ r.rel = s.rel /\ DOMAIN r = Parts
  BY FenceParts DEF Sound
<1>3. /\ s.mem \in [Locations -> Seq(Message)]
      /\ s.cur \in [Locations -> Nat] /\ s.acq \in [Locations -> Nat]
      /\ s.rel \in [Locations -> Nat]
  BY DEF Sound
<1> HIDE DEF r
<1>5. \A x \in Locations : /\ 1 <= s.rel[x] /\ s.rel[x] <= s.acq[x] /\ s.cur[x] <= s.acq[x]
                           /\ s.acq[x] <= s.acq[x] /\ s.acq[x] <= Len(s.mem[x])
  BY SoundFacts
<1>6. \A x, y \in Locations : \A k \in 1..Len(s.mem[x]) :
        1 <= s.mem[x][k].view[y] /\ s.mem[x][k].view[y] <= Len(s.mem[y])
  BY SoundFacts
<1>7. Sound(r)
  BY <1>3, <1>4, <1>5, <1>6 DEF Sound
<1> QED
  BY <1>4, <1>5, <1>7 DEF r

\* A load and the acquire fence behind it bring the view of the value that was read.
LEMMA LoadAcquireIs ==
  ASSUME NEW s, Sound(s), NEW l \in Locations, NEW n, n \in Visible(s, l)
  PROVE  /\ Sound(AcquireFence(Load(s, l, n)))
         /\ AcquireFence(Load(s, l, n)).mem = s.mem /\ AcquireFence(Load(s, l, n)).rel = s.rel
         /\ AcquireFence(Load(s, l, n)).cur[l] = n
         /\ \A x \in Locations : s.cur[x] <= AcquireFence(Load(s, l, n)).cur[x]
         /\ \A x \in Locations \ {l} :
              s.mem[l][n].view[x] <= AcquireFence(Load(s, l, n)).cur[x]
<1> DEFINE r == Load(s, l, n)
<1>1. /\ Sound(r) /\ r.mem = s.mem /\ r.rel = s.rel /\ r.acq[l] = n
      /\ \A x \in Locations : s.cur[x] <= r.cur[x]
      /\ \A x \in Locations \ {l} : s.mem[l][n].view[x] <= r.acq[x]
  BY LoadIs
<1> HIDE DEF r
<1>2. /\ Sound(AcquireFence(r)) /\ AcquireFence(r).mem = r.mem /\ AcquireFence(r).rel = r.rel
      /\ AcquireFence(r).cur = r.acq
  BY <1>1, AcquireIs
<1>3. \A x \in Locations : /\ s.cur[x] \in Nat /\ r.cur[x] \in Nat /\ r.acq[x] \in Nat
                           /\ r.cur[x] <= r.acq[x]
  BY <1>1, SoundFacts
<1>4. \A x \in Locations : s.cur[x] <= r.acq[x]
  BY <1>1, <1>3
<1> QED
  BY <1>1, <1>2, <1>4 DEF r

\* A release fence changes nothing but what later stores carry.
LEMMA ReleaseIs ==
  ASSUME NEW s, Sound(s)
  PROVE  /\ Sound(ReleaseFence(s))
         /\ ReleaseFence(s).mem = s.mem /\ ReleaseFence(s).cur = s.cur
         /\ ReleaseFence(s).rel = s.cur
<1> DEFINE r == ReleaseFence(s)
<1>4. r.mem = s.mem /\ r.cur = s.cur /\ r.acq = s.acq /\ r.rel = s.cur /\ DOMAIN r = Parts
  BY FenceParts DEF Sound
<1>3. /\ s.mem \in [Locations -> Seq(Message)]
      /\ s.cur \in [Locations -> Nat] /\ s.acq \in [Locations -> Nat]
      /\ s.rel \in [Locations -> Nat]
  BY DEF Sound
<1> HIDE DEF r
<1>5. \A x \in Locations : /\ 1 <= s.cur[x] /\ s.cur[x] <= s.cur[x] /\ s.cur[x] <= s.acq[x]
                           /\ s.acq[x] <= Len(s.mem[x])
  BY SoundFacts
<1>6. \A x, y \in Locations : \A k \in 1..Len(s.mem[x]) :
        1 <= s.mem[x][k].view[y] /\ s.mem[x][k].view[y] <= Len(s.mem[y])
  BY SoundFacts
<1>7. Sound(r)
  BY <1>3, <1>4, <1>5, <1>6 DEF Sound
<1> QED
  BY <1>4, <1>7 DEF r

\* A store adds values with the released view, and the thread knows them.
Adds(s, r, new) ==
  /\ Sound(r) /\ r.rel = s.rel
  /\ \A x \in Locations \ DOMAIN new : r.mem[x] = s.mem[x] /\ r.cur[x] = s.cur[x]
  /\ \A x \in DOMAIN new : /\ Len(r.mem[x]) = Place(s, x) /\ r.cur[x] = Place(s, x)
                           /\ r.mem[x][Place(s, x)].val = new[x]
  /\ \A x \in DOMAIN new : \A k \in 1..Len(s.mem[x]) : r.mem[x][k] = s.mem[x][k]
  /\ \A x \in DOMAIN new, y \in Locations :
       r.mem[x][Place(s, x)].view[y] = IF y = x THEN Place(s, x) ELSE s.rel[y]

\* Stores in a row append one value to each of their locations, and keep Sound.
LEMMA StoresIs ==
  ASSUME NEW s, Sound(s), NEW new, DOMAIN new \subseteq Locations,
         \A l \in DOMAIN new : new[l] \in Nat
  PROVE  Adds(s, Stores(s, new), new)
<1> DEFINE n(l) == Place(s, l)
           w(l) == [s.rel EXCEPT ![l] = n(l)]
           m(l) == Added(s, new, l)
           r == Stores(s, new)
<1>1. \A l \in Locations : /\ s.mem[l] \in Seq(Message) /\ Len(s.mem[l]) \in Nat
                           /\ n(l) \in Nat /\ n(l) = Len(s.mem[l]) + 1
  BY SoundFacts DEF Place
<1> HIDE DEF n
<1>2. /\ s.mem \in [Locations -> Seq(Message)]
      /\ s.cur \in [Locations -> Nat] /\ s.acq \in [Locations -> Nat]
      /\ s.rel \in [Locations -> Nat]
  BY DEF Sound
<1>3. /\ DOMAIN r.mem = Locations /\ r.mem = [l \in Locations |-> r.mem[l]]
      /\ \A l \in Locations : r.mem[l] = IF l \in DOMAIN new THEN Append(s.mem[l], m(l)) ELSE s.mem[l]
      /\ r.rel = s.rel /\ DOMAIN r = Parts
  <2>1. DOMAIN s.mem = Locations
    BY <1>2
  <2>2. r.mem = [l \in DOMAIN s.mem |-> r.mem[l]]
    BY DEF Stores
  <2>3. /\ \A l \in DOMAIN s.mem : r.mem[l] = IF l \in DOMAIN new THEN Append(s.mem[l], m(l)) ELSE s.mem[l]
        /\ DOMAIN r.mem = DOMAIN s.mem
    BY DEF Stores, Added, n
  <2>4. r.rel = s.rel /\ DOMAIN r = Parts
    BY DEF Stores, Parts
  <2> HIDE DEF r
  <2> QED
    BY <2>1, <2>2, <2>3, <2>4
<1>4. /\ r.cur = [l \in Locations |-> r.cur[l]]
      /\ \A l \in Locations : r.cur[l] = IF l \in DOMAIN new THEN n(l) ELSE s.cur[l]
      /\ r.acq = [l \in Locations |-> r.acq[l]]
      /\ \A l \in Locations : r.acq[l] = IF l \in DOMAIN new THEN n(l) ELSE s.acq[l]
  <2>1. DOMAIN s.cur = Locations /\ DOMAIN s.acq = Locations
    BY <1>2
  <2>2. /\ r.cur = [l \in DOMAIN s.cur |-> r.cur[l]]
        /\ r.acq = [l \in DOMAIN s.acq |-> r.acq[l]]
    BY DEF Stores
  <2>3. /\ \A l \in DOMAIN s.cur : r.cur[l] = IF l \in DOMAIN new THEN n(l) ELSE s.cur[l]
        /\ \A l \in DOMAIN s.acq : r.acq[l] = IF l \in DOMAIN new THEN n(l) ELSE s.acq[l]
    BY DEF Stores, n
  <2> HIDE DEF r
  <2> QED
    BY <2>1, <2>2, <2>3
<1> HIDE DEF r
<1>5. ASSUME NEW l \in DOMAIN new
      PROVE  /\ w(l) \in [Locations -> Nat] /\ w(l)[l] = n(l)
             /\ \A x \in Locations \ {l} : w(l)[x] = s.rel[x]
  <2>1. l \in Locations /\ n(l) \in Nat
    BY <1>1
  <2> QED
    BY <1>2, <2>1
<1> HIDE DEF w
<1>6. ASSUME NEW l \in DOMAIN new PROVE m(l) \in Message /\ m(l).val = new[l] /\ m(l).view = w(l)
  <2>1. m(l) = [val |-> new[l], view |-> w(l)]
    BY DEF Added, w, n
  <2> QED
    BY <1>5, <2>1, MessageFields
<1> HIDE DEF m
<1>7. ASSUME NEW l \in DOMAIN new
      PROVE  /\ r.mem[l] \in Seq(Message) /\ Len(r.mem[l]) = n(l) /\ r.mem[l][n(l)] = m(l)
             /\ \A k \in 1..Len(s.mem[l]) : r.mem[l][k] = s.mem[l][k]
             /\ r.cur[l] = n(l) /\ r.acq[l] = n(l)
  <2>1. l \in Locations /\ s.mem[l] \in Seq(Message) /\ m(l) \in Message
    BY <1>1, <1>6
  <2>2. r.mem[l] = Append(s.mem[l], m(l)) /\ r.cur[l] = n(l) /\ r.acq[l] = n(l)
    BY <1>3, <1>4, <2>1
  <2>3. n(l) = Len(s.mem[l]) + 1 /\ n(l) \in Nat
    BY <1>1, <2>1
  <2>4. PICK q \in Seq(Message), e \in Message, i \in Nat : q = s.mem[l] /\ e = m(l) /\ i = n(l)
    BY <2>1, <2>3
  <2>5. /\ Append(q, e) \in Seq(Message) /\ Len(Append(q, e)) = Len(q) + 1
        /\ Append(q, e)[Len(q) + 1] = e /\ \A k \in 1..Len(q) : Append(q, e)[k] = q[k]
    OBVIOUS
  <2>6. i = Len(q) + 1
    BY <2>3, <2>4
  <2> QED
    BY <2>2, <2>4, <2>5, <2>6
<1>8. ASSUME NEW l \in Locations \ DOMAIN new
      PROVE  r.mem[l] = s.mem[l] /\ r.cur[l] = s.cur[l] /\ r.acq[l] = s.acq[l]
  BY <1>3, <1>4
<1>9. /\ r.mem \in [Locations -> Seq(Message)]
      /\ r.cur \in [Locations -> Nat] /\ r.acq \in [Locations -> Nat]
  <2>1. \A l \in Locations : r.mem[l] \in Seq(Message)
    BY <1>1, <1>7, <1>8
  <2>2. \A l \in Locations : r.cur[l] \in Nat /\ r.acq[l] \in Nat
    BY <1>1, <1>2, <1>7, <1>8
  <2> QED
    BY <1>3, <1>4, <2>1, <2>2
<1>10. \A x \in Locations :
         /\ 1 <= s.rel[x] /\ s.rel[x] <= s.cur[x] /\ s.cur[x] <= s.acq[x] /\ s.acq[x] <= Len(s.mem[x])
         /\ s.rel[x] \in Nat /\ s.cur[x] \in Nat /\ s.acq[x] \in Nat /\ Len(s.mem[x]) \in Nat
  BY SoundFacts
<1>11. ASSUME NEW x \in Locations
       PROVE  /\ 1 <= s.rel[x] /\ s.rel[x] <= r.cur[x] /\ r.cur[x] <= r.acq[x]
              /\ r.acq[x] <= Len(r.mem[x]) /\ Len(s.mem[x]) <= Len(r.mem[x])
              /\ s.rel[x] <= Len(r.mem[x]) /\ Len(r.mem[x]) \in Nat
  <2>1. CASE x \in DOMAIN new
    <3>1. Len(r.mem[x]) = n(x) /\ r.cur[x] = n(x) /\ r.acq[x] = n(x)
      BY <1>7, <2>1
    <3>2. PICK h \in Nat, k \in Nat : h = Len(s.mem[x]) /\ k = s.rel[x]
      BY <1>10
    <3>3. Len(r.mem[x]) = h + 1 /\ r.cur[x] = h + 1 /\ r.acq[x] = h + 1
      BY <1>1, <3>1, <3>2
    <3>4. 1 <= k /\ k <= h
      BY <1>10, <3>2
    <3> QED
      BY <3>2, <3>3, <3>4
  <2>2. CASE x \notin DOMAIN new
    BY <1>8, <1>10, <2>2
  <2> QED
    BY <2>1, <2>2
<1>12. ASSUME NEW y \in Locations, NEW x \in Locations, NEW k \in 1..Len(r.mem[y])
       PROVE  1 <= r.mem[y][k].view[x] /\ r.mem[y][k].view[x] <= Len(r.mem[x])
  <2>1. CASE y \in DOMAIN new /\ k = n(y)
    <3>1. r.mem[y][k].view = w(y)
      BY <1>6, <1>7, <2>1
    <3>2. w(y)[x] = IF x = y THEN n(y) ELSE s.rel[x]
      BY <1>5, <2>1
    <3>3. n(y) \in Nat /\ n(y) >= 1 /\ Len(r.mem[y]) = n(y)
      BY <1>1, <1>7, <2>1
    <3> QED
      BY <1>10, <1>11, <3>1, <3>2, <3>3
  <2>2. CASE ~(y \in DOMAIN new /\ k = n(y))
    <3>1. k \in 1..Len(s.mem[y]) /\ r.mem[y][k] = s.mem[y][k]
      <4>1. CASE y \in DOMAIN new
        BY <1>1, <1>7, <2>2, <4>1
      <4>2. CASE y \notin DOMAIN new
        BY <1>8, <4>2
      <4> QED
        BY <4>1, <4>2
    <3>2. /\ 1 <= s.mem[y][k].view[x] /\ s.mem[y][k].view[x] <= Len(s.mem[x])
          /\ s.mem[y][k].view[x] \in Nat
      BY <3>1, SoundFacts
    <3>3. Len(s.mem[x]) <= Len(r.mem[x]) /\ Len(r.mem[x]) \in Nat /\ Len(s.mem[x]) \in Nat
      BY <1>10, <1>11
    <3>4. PICK d \in Nat : d = s.mem[y][k].view[x]
      BY <3>2
    <3>5. r.mem[y][k].view[x] = d
      BY <3>1, <3>4
    <3> QED
      <4> HIDE DEF n
      <4> QED
        BY <3>2, <3>3, <3>4, <3>5, SMTT(30)
  <2> QED
    BY <2>1, <2>2
<1>13. Sound(r)
  BY <1>2, <1>3, <1>9, <1>11, <1>12 DEF Sound
<1>14. ASSUME NEW x \in DOMAIN new, NEW y \in Locations
       PROVE  r.mem[x][n(x)].view[y] = IF y = x THEN n(x) ELSE s.rel[y]
  <2>1. r.mem[x][n(x)].view = w(x)
    BY <1>6, <1>7
  <2> QED
    BY <1>5, <2>1
<1>15. \A x : n(x) = Place(s, x)
  BY DEF n
<1>16. ASSUME NEW x \in DOMAIN new
       PROVE  /\ Len(r.mem[x]) = Place(s, x) /\ r.cur[x] = Place(s, x)
              /\ r.mem[x][Place(s, x)].val = new[x]
  BY <1>6, <1>7, <1>15
<1>17. \A x \in DOMAIN new : \A k \in 1..Len(s.mem[x]) : r.mem[x][k] = s.mem[x][k]
  BY <1>7
<1>18. \A x \in DOMAIN new, y \in Locations :
         r.mem[x][Place(s, x)].view[y] = IF y = x THEN Place(s, x) ELSE s.rel[y]
  BY <1>14, <1>15
<1>19. Adds(s, r, new)
  BY <1>3, <1>8, <1>13, <1>16, <1>17, <1>18 DEF Adds
<1> QED
  BY <1>19 DEF r

\* As many positions further it is the same slot again.
LEMMA WrapPeriod == ASSUME NEW p \in Nat PROVE Wrap(p + BlockSize) = Wrap(p)
<1>1. BlockSize \in Nat /\ BlockSize >= 2
  BY WeakAssumption
<1>2. PICK q \in Nat, r \in 0..(BlockSize - 1) : p = BlockSize * q + r /\ r = p % BlockSize
  BY Quotient
<1>3. PICK s \in Nat : s = BlockSize * q
  BY <1>1
<1>4. BlockSize * (q + 1) = s + BlockSize
  BY <1>1, <1>3
<1>5. p + BlockSize = BlockSize * (q + 1) + r
  BY <1>1, <1>2, <1>3, <1>4
<1>6. p + BlockSize \in Nat /\ q + 1 \in Nat
  BY <1>1
<1>7. (p + BlockSize) % BlockSize = r
  BY <1>5, <1>6, Remainder
<1> QED
  BY <1>2, <1>7 DEF Wrap

\* One store, and the fence that releases what the thread did before it: its value
\* carries all the thread knows.
Releases(s, r, l, v) ==
  /\ Sound(r)
  /\ \A x \in Locations \ {l} : r.mem[x] = s.mem[x] /\ r.cur[x] = s.cur[x]
  /\ Len(r.mem[l]) = Place(s, l) /\ r.cur[l] = Place(s, l)
  /\ \A k \in 1..Len(s.mem[l]) : r.mem[l][k] = s.mem[l][k]
  /\ r.mem[l][Place(s, l)].val = v
  /\ \A x \in Locations : r.mem[l][Place(s, l)].view[x] = r.cur[x]

\* One store is the shortest row.
LEMMA StoreIs ==
  ASSUME NEW s, Sound(s), NEW l \in Locations, NEW v \in Nat
  PROVE  Adds(s, Store(s, l, v), [k \in {l} |-> v])
BY StoresIs DEF Store

\* A store behind a release fence carries all that its thread knows.
LEMMA ReleaseStoreIs ==
  ASSUME NEW s, Sound(s), NEW l \in Locations, NEW v \in Nat
  PROVE  Releases(s, Store(ReleaseFence(s), l, v), l, v)
<1>1. PICK f, new, r : /\ f = ReleaseFence(s) /\ new = [k \in {l} |-> v]
                       /\ r = Store(f, l, v)
  OBVIOUS
<1>2. Sound(f) /\ f.mem = s.mem /\ f.cur = s.cur /\ f.rel = s.cur
  BY <1>1, ReleaseIs
<1>3. Adds(f, r, new)
  BY <1>1, <1>2, StoreIs
<1>4. DOMAIN new = {l} /\ new[l] = v
  BY <1>1
<1>5. Place(f, l) = Place(s, l)
  BY <1>2 DEF Place
<1>6. /\ Sound(r) /\ r.rel = s.cur
      /\ \A x \in Locations \ {l} : r.mem[x] = s.mem[x] /\ r.cur[x] = s.cur[x]
      /\ Len(r.mem[l]) = Place(s, l) /\ r.cur[l] = Place(s, l)
      /\ r.mem[l][Place(s, l)].val = v
  BY <1>2, <1>3, <1>4, <1>5 DEF Adds
<1>7. \A k \in 1..Len(s.mem[l]) : r.mem[l][k] = s.mem[l][k]
  BY <1>2, <1>3, <1>4 DEF Adds
<1>8. ASSUME NEW x \in Locations PROVE r.mem[l][Place(s, l)].view[x] = r.cur[x]
  <2>1. r.mem[l][Place(s, l)].view[x] = IF x = l THEN Place(s, l) ELSE s.cur[x]
    BY <1>2, <1>3, <1>4, <1>5 DEF Adds
  <2> QED
    BY <1>6, <2>1
<1>9. Releases(s, r, l, v)
  BY <1>6, <1>7, <1>8 DEF Releases
<1> QED
  BY <1>1, <1>9

\* What a step of one thread does to the memory and to the other.
LEMMA BecomesIs ==
  ASSUME Memory, NEW t \in Threads, NEW s, Sound(s), Becomes(t, s),
         \A l \in Locations : Len(mem[l]) <= Len(s.mem[l])
  PROVE  /\ Memory' /\ mem' = s.mem /\ views'[t].cur = s.cur
         /\ \A u \in Threads \ {t} : views'[u] = views[u]
<1>1. /\ DOMAIN s = Parts
      /\ s.mem \in [Locations -> Seq(Message)]
      /\ s.cur \in [Locations -> Nat] /\ s.acq \in [Locations -> Nat] /\ s.rel \in [Locations -> Nat]
      /\ \A l \in Locations : /\ 1 <= s.rel[l] /\ s.rel[l] <= s.cur[l]
                              /\ s.cur[l] <= s.acq[l] /\ s.acq[l] <= Len(s.mem[l])
      /\ \A l, x \in Locations : \A k \in 1..Len(s.mem[l]) :
           1 <= s.mem[l][k].view[x] /\ s.mem[l][k].view[x] <= Len(s.mem[x])
  BY DEF Sound
<1>2. PICK w : w = [cur |-> s.cur, acq |-> s.acq, rel |-> s.rel]
  OBVIOUS
<1>3. w \in Views /\ w.cur = s.cur /\ w.acq = s.acq /\ w.rel = s.rel
  BY <1>1, <1>2 DEF Views
<1>4. mem' = s.mem /\ views' = [views EXCEPT ![t] = w]
  BY <1>2 DEF Becomes
<1>5. views \in [Threads -> Views]
  BY DEF Memory
<1>6. /\ views' \in [Threads -> Views] /\ views'[t] = w
      /\ \A u \in Threads \ {t} : views'[u] = views[u]
  BY <1>3, <1>4, <1>5
<1>7. /\ Sees(t)'.mem = s.mem /\ Sees(t)'.cur = s.cur /\ Sees(t)'.acq = s.acq
      /\ Sees(t)'.rel = s.rel /\ DOMAIN Sees(t)' = Parts
  BY <1>3, <1>4, <1>6 DEF Sees, Parts
<1>8. Sound(Sees(t))'
  <2>1. PICK r : r = Sees(t)'
    OBVIOUS
  <2>2. r.mem = s.mem /\ r.cur = s.cur /\ r.acq = s.acq /\ r.rel = s.rel /\ DOMAIN r = Parts
    BY <1>7, <2>1
  <2>3. Sound(r)
    BY <1>1, <2>2 DEF Sound
  <2> QED
    BY <2>1, <2>3 DEF Sound
<1>9. ASSUME NEW u \in Threads \ {t} PROVE Sound(Sees(u))'
  <2>1. PICK r, o : r = Sees(u)' /\ o = Sees(u)
    OBVIOUS
  <2>2. /\ r.mem = s.mem /\ r.cur = views[u].cur /\ r.acq = views[u].acq /\ r.rel = views[u].rel
        /\ DOMAIN r = Parts
    BY <1>4, <1>6, <2>1 DEF Sees, Parts
  <2>3. /\ Sound(o) /\ o.mem = mem /\ o.cur = views[u].cur /\ o.acq = views[u].acq
        /\ o.rel = views[u].rel
    BY <2>1, SeesParts DEF Memory
  <2>4. /\ \A l \in Locations : /\ 1 <= o.rel[l] /\ o.rel[l] <= o.cur[l]
                                /\ o.cur[l] <= o.acq[l] /\ o.acq[l] <= Len(o.mem[l])
                                /\ o.acq[l] \in Nat /\ Len(o.mem[l]) \in Nat
        /\ o.cur \in [Locations -> Nat] /\ o.acq \in [Locations -> Nat] /\ o.rel \in [Locations -> Nat]
    BY <2>3, SoundFacts DEF Sound
  <2>5. \A l \in Locations : Len(s.mem[l]) \in Nat
    BY SoundFacts
  <2>6. ASSUME NEW l \in Locations PROVE o.acq[l] <= Len(s.mem[l])
    <3>1. PICK a \in Nat, h \in Nat, k \in Nat : a = o.acq[l] /\ h = Len(mem[l]) /\ k = Len(s.mem[l])
      BY <2>3, <2>4, <2>5
    <3>2. a <= h /\ h <= k
      BY <2>3, <2>4, <3>1
    <3> QED
      BY <3>1, <3>2
  <2>7. Sound(r)
    BY <1>1, <2>2, <2>3, <2>4, <2>6 DEF Sound
  <2> QED
    BY <2>1, <2>7 DEF Sound
<1>10. Memory'
  BY <1>6, <1>8, <1>9 DEF Memory
<1> QED
  BY <1>3, <1>4, <1>6, <1>10

\* A load, an acquire fence, or both.
LEMMA LoadStep ==
  ASSUME Memory, NEW t \in Threads, NEW l \in Locations, NEW n, n \in Visible(Sees(t), l),
         Becomes(t, Load(Sees(t), l, n))
  PROVE  /\ Memory' /\ mem' = mem /\ views'[t].cur[l] = n
         /\ \A x \in Locations : views[t].cur[x] <= views'[t].cur[x]
         /\ \A u \in Threads \ {t} : views'[u] = views[u]
<1>1. PICK s, r : s = Sees(t) /\ r = Load(s, l, n)
  OBVIOUS
<1>2. Sound(s) /\ s.mem = mem /\ s.cur = views[t].cur /\ n \in Visible(s, l)
  BY <1>1, SeesParts DEF Memory
<1>3. /\ Sound(r) /\ r.mem = s.mem /\ r.cur[l] = n
      /\ \A x \in Locations : s.cur[x] <= r.cur[x]
  BY <1>1, <1>2, LoadIs
<1>4. \A x \in Locations : Len(mem[x]) \in Nat /\ Len(mem[x]) <= Len(r.mem[x])
  BY <1>2, <1>3, SoundFacts
<1>5. /\ Memory' /\ mem' = r.mem /\ views'[t].cur = r.cur
      /\ \A u \in Threads \ {t} : views'[u] = views[u]
  BY <1>1, <1>3, <1>4, BecomesIs
<1> QED
  BY <1>2, <1>3, <1>5

\* A load and the acquire fence behind it: the thread knows what came with the value.
LEMMA LoadAcquireStep ==
  ASSUME Memory, NEW t \in Threads, NEW l \in Locations, NEW n, n \in Visible(Sees(t), l),
         Becomes(t, AcquireFence(Load(Sees(t), l, n)))
  PROVE  /\ Memory' /\ mem' = mem /\ views'[t].cur[l] = n
         /\ \A x \in Locations : views[t].cur[x] <= views'[t].cur[x]
         /\ \A x \in Locations \ {l} : mem[l][n].view[x] <= views'[t].cur[x]
         /\ \A u \in Threads \ {t} : views'[u] = views[u]
<1>1. PICK s, r : s = Sees(t) /\ r = AcquireFence(Load(s, l, n))
  OBVIOUS
<1>2. Sound(s) /\ s.mem = mem /\ s.cur = views[t].cur /\ n \in Visible(s, l)
  BY <1>1, SeesParts DEF Memory
<1>3. /\ Sound(r) /\ r.mem = s.mem /\ r.cur[l] = n
      /\ \A x \in Locations : s.cur[x] <= r.cur[x]
      /\ \A x \in Locations \ {l} : s.mem[l][n].view[x] <= r.cur[x]
  BY <1>1, <1>2, LoadAcquireIs
<1>4. \A x \in Locations : Len(mem[x]) \in Nat /\ Len(mem[x]) <= Len(r.mem[x])
  BY <1>2, <1>3, SoundFacts
<1>5. /\ Memory' /\ mem' = r.mem /\ views'[t].cur = r.cur
      /\ \A u \in Threads \ {t} : views'[u] = views[u]
  BY <1>1, <1>3, <1>4, BecomesIs
<1> QED
  BY <1>2, <1>3, <1>5

\* An acquire fence alone: the thread knows no less.
LEMMA AcquireStep ==
  ASSUME Memory, NEW t \in Threads, Becomes(t, AcquireFence(Sees(t)))
  PROVE  /\ Memory' /\ mem' = mem
         /\ \A x \in Locations : views[t].cur[x] <= views'[t].cur[x]
         /\ \A u \in Threads \ {t} : views'[u] = views[u]
<1>1. PICK s, r : s = Sees(t) /\ r = AcquireFence(s)
  OBVIOUS
<1>2. Sound(s) /\ s.mem = mem /\ s.cur = views[t].cur
  BY <1>1, SeesParts DEF Memory
<1>3. /\ Sound(r) /\ r.mem = s.mem /\ \A x \in Locations : s.cur[x] <= r.cur[x]
  BY <1>1, <1>2, AcquireIs
<1>4. \A x \in Locations : Len(mem[x]) \in Nat /\ Len(mem[x]) <= Len(r.mem[x])
  BY <1>2, <1>3, SoundFacts
<1>5. /\ Memory' /\ mem' = r.mem /\ views'[t].cur = r.cur
      /\ \A u \in Threads \ {t} : views'[u] = views[u]
  BY <1>1, <1>3, <1>4, BecomesIs
<1> QED
  BY <1>2, <1>3, <1>5

-----------------------------------------------------------------------------
(* What the invariant is made of *)

\* The numbers and their ranges.
LEMMA Numbers ==
  ASSUME Memory
  PROVE  /\ last \in [Locations -> Nat]
         /\ \A l \in Locations : last[l] >= 1 /\ last[l] = Len(mem[l])
         /\ Pc \in [Locations -> Nat] /\ Cc \in [Locations -> Nat]
         /\ \A l \in Locations : /\ 1 <= Pc[l] /\ Pc[l] <= last[l]
                                 /\ 1 <= Cc[l] /\ Cc[l] <= last[l]
<1>1. "producer" \in Threads /\ "consumer" \in Threads
  BY DEF Threads
<1>2. PICK p, c : p = Sees("producer") /\ c = Sees("consumer")
  OBVIOUS
<1>3. /\ Sound(p) /\ Sound(c) /\ p.mem = mem /\ c.mem = mem /\ p.cur = Pc /\ c.cur = Cc
  BY <1>1, <1>2, SeesParts DEF Memory, Pc, Cc
<1>4. \A l \in Locations :
        /\ Pc[l] \in Nat /\ Cc[l] \in Nat /\ Len(mem[l]) \in Nat /\ Len(mem[l]) >= 1
        /\ 1 <= Pc[l] /\ Pc[l] <= Len(mem[l]) /\ 1 <= Cc[l] /\ Cc[l] <= Len(mem[l])
  <2>1. ASSUME NEW s, Sound(s), NEW l \in Locations
        PROVE  /\ s.cur[l] \in Nat /\ Len(s.mem[l]) \in Nat /\ Len(s.mem[l]) >= 1
               /\ 1 <= s.cur[l] /\ s.cur[l] <= Len(s.mem[l])
    <3>1. PICK a \in Nat, b \in Nat, c1 \in Nat, d \in Nat :
            a = s.rel[l] /\ b = s.cur[l] /\ c1 = s.acq[l] /\ d = Len(s.mem[l])
      BY <2>1, SoundFacts
    <3>2. 1 <= a /\ a <= b /\ b <= c1 /\ c1 <= d
      BY <2>1, <3>1, SoundFacts
    <3>3. 1 <= b /\ b <= d /\ d >= 1
      BY <3>2
    <3> QED
      BY <3>1, <3>3
  <2> QED
    BY <1>3, <2>1
<1>5. Pc \in [Locations -> Nat] /\ Cc \in [Locations -> Nat]
  BY <1>3 DEF Sound
<1>6. last \in [Locations -> Nat] /\ \A l \in Locations : last[l] = Len(mem[l])
  BY <1>4 DEF last
<1> QED
  BY <1>4, <1>5, <1>6

\* Values and the views they carry.
LEMMA Messages ==
  ASSUME Memory
  PROVE  /\ \A l \in Locations : \A k \in 1..last[l] : mem[l][k].val \in Nat
         /\ \A l, x \in Locations : \A k \in 1..last[l] :
              /\ mem[l][k].view[x] \in Nat
              /\ 1 <= mem[l][k].view[x] /\ mem[l][k].view[x] <= last[x]
         /\ \A l \in Locations : now[l] = mem[l][last[l]].val /\ now[l] \in Nat
<1>1. PICK p : p = Sees("producer")
  OBVIOUS
<1>2. Sound(p) /\ p.mem = mem
  BY <1>1, SeesParts DEF Memory, Threads
<1>3. last \in [Locations -> Nat] /\ \A l \in Locations : last[l] >= 1 /\ last[l] = Len(mem[l])
  BY Numbers
<1>4. \A l \in Locations : \A k \in 1..last[l] : mem[l][k].val \in Nat
  BY <1>2, <1>3, SoundFacts
<1>5. \A l, x \in Locations : \A k \in 1..last[l] :
        /\ mem[l][k].view[x] \in Nat
        /\ 1 <= mem[l][k].view[x] /\ mem[l][k].view[x] <= last[x]
  BY <1>2, <1>3, SoundFacts
<1>6. \A l \in Locations : now[l] = mem[l][last[l]].val
  BY <1>3 DEF now
<1>7. \A l \in Locations : last[l] \in 1..last[l]
  BY <1>3
<1> QED
  BY <1>4, <1>5, <1>6, <1>7

\* Blocks, and the histories as functions.
LEMMA Shapes ==
  ASSUME Memory, Control
  PROVE  /\ Made \subseteq Block /\ blocks \in Nat /\ blocks >= 1
         /\ \A b \in Block : b \in Nat /\ b # Null /\ Origin(b) \in 1..2
         /\ \A b \in Block : /\ Put[b] \in Nat /\ Put[b] = last[TailOf(b)] - 1
                             /\ Got[b] \in Int /\ Got[b] = last[FrontOf(b)] - Origin(b)
                             /\ last[TailOf(b)] = Put[b] + 1
                             /\ last[FrontOf(b)] = Got[b] + Origin(b)
         /\ Entered \in Nat /\ Entered >= 1 /\ Left \in Nat /\ Left >= 1
         /\ Entered = last[TailBlock] /\ Left = last[FrontBlock]
         /\ DOMAIN At = 1..Entered /\ \A j \in 1..Entered : At[j] = mem[TailBlock][j].val
<1>1. blocks \in 1..MaxBlocks /\ MaxBlocks \in Nat
  BY WeakAssumption DEF Control, Block
<1>2. Made \subseteq Block /\ blocks \in Nat /\ blocks >= 1
  BY <1>1 DEF Made, Block
<1>3. \A b \in Block : b \in Nat /\ b # Null /\ Origin(b) \in 1..2
  BY <1>1 DEF Block, Null, Origin
<1>4. last \in [Locations -> Nat] /\ \A l \in Locations : last[l] >= 1 /\ last[l] = Len(mem[l])
  BY Numbers
<1>5. ASSUME NEW b \in Block
      PROVE  /\ Put[b] \in Nat /\ Put[b] = last[TailOf(b)] - 1
             /\ Got[b] \in Int /\ Got[b] = last[FrontOf(b)] - Origin(b)
             /\ last[TailOf(b)] = Put[b] + 1 /\ last[FrontOf(b)] = Got[b] + Origin(b)
  <2>1. PICK h \in Nat, k \in Nat, o \in Nat : h = last[TailOf(b)] /\ k = last[FrontOf(b)] /\ o = Origin(b)
    BY <1>3, <1>4, Kinds
  <2>2. h >= 1
    BY <1>4, <2>1, Kinds
  <2>3. Put[b] = h - 1 /\ Got[b] = k - o
    BY <2>1 DEF Put, Got
  <2> QED
    BY <2>1, <2>2, <2>3
<1>6. /\ Entered \in Nat /\ Entered >= 1 /\ Left \in Nat /\ Left >= 1
      /\ Entered = Len(mem[TailBlock])
  BY <1>4, Kinds DEF Entered, Left
<1>7. DOMAIN At = 1..Entered /\ \A j \in 1..Entered : At[j] = mem[TailBlock][j].val
  <2>1. PICK e \in Nat : e = Entered /\ e = Len(mem[TailBlock])
    BY <1>6
  <2>2. At = [j \in 1..e |-> mem[TailBlock][j].val]
    BY <2>1 DEF At
  <2>3. DOMAIN At = 1..e
    BY <2>2
  <2>4. ASSUME NEW j \in 1..e PROVE At[j] = mem[TailBlock][j].val
    BY <2>2
  <2> QED
    BY <2>1, <2>3, <2>4
<1> QED
  BY <1>2, <1>3, <1>5, <1>6, <1>7 DEF Entered, Left

\* Where the threads are in the circle, and the values they store next.
LEMMA Ends ==
  ASSUME Memory, Control, Histories
  PROVE  /\ Entered \in Nat /\ Left \in Nat /\ 1 <= Left /\ Left <= Entered
         /\ Pc[FrontBlock] \in 1..Left /\ Cc[FrontBlock] \in 1..Left
         /\ \A j \in 1..Entered : At[j] \in Made
         /\ \A j \in 1..Entered : mem[TailBlock][j].val = At[j]
         /\ \A j \in 1..Left : mem[FrontBlock][j].val = At[j]
         /\ tb = At[Entered] /\ fb = At[Left] /\ nb = now[NextOf(tb)]
         /\ tb \in Made /\ fb \in Made /\ nb \in Made
         /\ \A l \in Locations : Latest(l) = now[l]
         /\ \A b \in Made : now[TailOf(b)] = Wrap(Put[b]) /\ now[FrontOf(b)] = Wrap(Got[b])
         /\ \A b \in Made : Got[b] \in Nat /\ Put[b] \in Nat /\ b \in Block
<1>1. /\ Entered \in Nat /\ Left \in Nat /\ 1 <= Left /\ Left <= Entered
      /\ Entered = last[TailBlock] /\ Left = last[FrontBlock]
  BY Shapes DEF Histories
<1>2. Pc[FrontBlock] \in 1..Left /\ Cc[FrontBlock] \in 1..Left
  <2>1. /\ Pc[FrontBlock] \in Nat /\ 1 <= Pc[FrontBlock] /\ Pc[FrontBlock] <= last[FrontBlock]
        /\ Cc[FrontBlock] \in Nat /\ 1 <= Cc[FrontBlock] /\ Cc[FrontBlock] <= last[FrontBlock]
    BY Numbers, Kinds
  <2> QED
    BY <1>1, <2>1
<1>3. /\ \A j \in 1..Entered : At[j] \in Made
      /\ \A j \in 1..Entered : mem[TailBlock][j].val = At[j]
      /\ \A j \in 1..Left : mem[FrontBlock][j].val = At[j]
  BY Shapes DEF Histories
<1>4. \A l \in Locations : Latest(l) = now[l]
  BY DEF Latest, now
<1>5. tb = At[Entered] /\ fb = At[Left]
  <2>1. now[TailBlock] = mem[TailBlock][Entered].val /\ now[FrontBlock] = mem[FrontBlock][Left].val
    BY <1>1, Messages, Kinds
  <2>2. Entered \in 1..Entered /\ Left \in 1..Left
    BY <1>1
  <2> QED
    BY <1>3, <1>4, <2>1, <2>2, Kinds DEF tb, fb
<1>6. tb \in Made /\ fb \in Made /\ Made \subseteq Block
  BY <1>1, <1>3, <1>5, Shapes
<1>7. nb = now[NextOf(tb)] /\ nb \in Made
  BY <1>4, <1>6, Kinds DEF nb, Histories
<1>8. ASSUME NEW b \in Made
      PROVE  /\ now[TailOf(b)] = Wrap(Put[b]) /\ now[FrontOf(b)] = Wrap(Got[b])
             /\ Got[b] \in Nat /\ Put[b] \in Nat /\ b \in Block
  <2>1. b \in Block
    BY Shapes
  <2>2. /\ Put[b] \in Nat /\ Got[b] \in Int /\ last[TailOf(b)] = Put[b] + 1
        /\ last[FrontOf(b)] = Got[b] + Origin(b) /\ Got[b] >= 0
    BY <2>1, Shapes DEF Histories
  <2>3. Put[b] \in 0..Put[b] /\ Got[b] \in 0..Got[b] /\ Got[b] \in Nat
    BY <2>2
  <2>4. mem[TailOf(b)][Put[b] + 1].val = Wrap(Put[b])
    BY <2>3 DEF Histories
  <2>5. mem[FrontOf(b)][Got[b] + Origin(b)].val = Wrap(Got[b])
    BY <2>3 DEF Histories
  <2>6. now[TailOf(b)] = mem[TailOf(b)][last[TailOf(b)]].val /\ now[FrontOf(b)] = mem[FrontOf(b)][last[FrontOf(b)]].val
    BY <2>1, Messages, Kinds
  <2> QED
    BY <2>1, <2>2, <2>3, <2>4, <2>5, <2>6
<1> QED
  BY <1>1, <1>2, <1>3, <1>4, <1>5, <1>6, <1>7, <1>8

\* What Numbers says, as one fact that also holds of the next state.
Ranges ==
  /\ last \in [Locations -> Nat]
  /\ \A l \in Locations : last[l] >= 1 /\ last[l] = Len(mem[l])
  /\ Pc \in [Locations -> Nat] /\ Cc \in [Locations -> Nat]
  /\ \A l \in Locations : /\ 1 <= Pc[l] /\ Pc[l] <= last[l]
                          /\ 1 <= Cc[l] /\ Cc[l] <= last[l]

\* Views stay within the histories.
LEMMA RangesHold == Memory => Ranges
BY Numbers DEF Ranges

\* The same of the next state.
LEMMA RangesHoldNext == Memory' => Ranges'
BY RangesHold, PTL

-----------------------------------------------------------------------------
(* Steps that store nothing *)

\* Nothing stored: the histories are what they were.
LEMMA SameMemory ==
  ASSUME mem' = mem
  PROVE  /\ last' = last /\ now' = now /\ Put' = Put /\ Got' = Got /\ At' = At
         /\ Entered' = Entered /\ Left' = Left
<1>1. last' = last /\ now' = now
  BY DEF last, now
<1> QED
  BY <1>1 DEF Put, Got, At, Entered, Left

\* Fewer blocks are in use for a thread that has seen frontBlock move on.
LEMMA CircleShrinks ==
  ASSUME Memory, Control, Histories, Circle, mem' = mem, blocks' = blocks,
         Pc'[FrontBlock] \in Pc[FrontBlock]..Left
  PROVE  Circle'
<1>1. PICK n \in Nat, m \in Nat, e \in Nat : n = Pc[FrontBlock] /\ m = Pc'[FrontBlock] /\ e = Entered
  BY Ends
<1>2. 1 <= n /\ n <= m /\ m <= e
  BY <1>1, Ends
<1>3. now' = now /\ At' = At /\ Entered' = Entered /\ Made' = Made
  BY SameMemory DEF Made
<1>4. \A b \in Made : now[NextOf(b)] \in Made
  BY DEF Histories
<1>5. /\ \A i, j \in n..e : At[i] = At[j] => i = j
      /\ \A j \in n..(e - 1) : now[NextOf(At[j])] = At[j + 1]
      /\ \A b \in Made : Outside(At, n, e, b) \/ b = At[e]
           => Outside(At, n, e, now[NextOf(b)]) \/ now[NextOf(b)] = At[n]
      /\ \A b, c \in Made : now[NextOf(b)] = now[NextOf(c)] => b = c
  BY <1>1 DEF Circle
<1>6. ASSUME NEW b \in Made, Outside(At, m, e, b) \/ b = At[e]
      PROVE  Outside(At, m, e, now[NextOf(b)]) \/ now[NextOf(b)] = At[m]
  <2>1. PICK c : c = now[NextOf(b)]
    OBVIOUS
  <2>2. CASE Outside(At, n, e, b) \/ b = At[e]
    <3>1. Outside(At, n, e, c) \/ c = At[n]
      BY <1>5, <2>1, <2>2
    <3>2. CASE Outside(At, n, e, c)
      BY <1>2, <2>1, <3>2 DEF Outside
    <3>3. CASE c = At[n] /\ n < m
      <4>1. \A j \in m..e : At[j] # c
        BY <1>2, <1>5, <3>3
      <4> QED
        BY <2>1, <4>1 DEF Outside
    <3>4. CASE c = At[n] /\ n = m
      BY <2>1, <3>4
    <3> QED
      BY <1>2, <3>1, <3>2, <3>3, <3>4
  <2>3. CASE ~(Outside(At, n, e, b) \/ b = At[e])
    <3>1. PICK j \in n..e : At[j] = b
      BY <2>3 DEF Outside
    <3>2. j < m
      BY <1>2, <1>6, <2>3, <3>1 DEF Outside
    <3>3. j \in n..(e - 1) /\ j + 1 \in n..e
      BY <1>2, <3>1, <3>2
    <3>4. c = At[j + 1]
      BY <1>5, <2>1, <3>1, <3>3
    <3>5. CASE j + 1 = m
      BY <2>1, <3>4, <3>5
    <3>6. CASE j + 1 < m
      <4>1. \A k \in m..e : At[k] # c
        BY <1>2, <1>5, <3>3, <3>4, <3>6
      <4> QED
        BY <2>1, <4>1 DEF Outside
    <3> QED
      BY <3>2, <3>5, <3>6
  <2> QED
    BY <2>2, <2>3
<1>7. /\ \A i, j \in m..e : At[i] = At[j] => i = j
      /\ \A j \in m..(e - 1) : now[NextOf(At[j])] = At[j + 1]
  BY <1>2, <1>5
<1> QED
  BY <1>1, <1>3, <1>5, <1>6, <1>7 DEF Circle

\* The parts of the invariant that say nothing of what a thread is doing.
Shared == /\ Memory /\ Control /\ Histories /\ Circle /\ Counts /\ Cells
          /\ FrontViews /\ FrontBlockViews /\ TailBlockViews /\ TailViews

\* The producer learns: the consumer's part stands, and what it knew it still knows.
LEMMA ProducerLooks ==
  ASSUME Shared, ProducerKnows, ConsumerStock, ConsumerKnows, ConsumerAt,
         Memory', Control', mem' = mem, Cc' = Cc,
         \A l \in Locations : Pc[l] <= Pc'[l],
         UNCHANGED <<blocks, enqueued, dequeued, localTail, cpc, cblock>>,
         \A b \in Block \ Made : localFront'[b] = localFront[b]
  PROVE  Shared' /\ ProducerKnows' /\ ConsumerStock' /\ ConsumerKnows' /\ ConsumerAt'
<1> USE DEF Shared
<1>1. /\ last' = last /\ now' = now /\ Put' = Put /\ Got' = Got /\ At' = At
      /\ Entered' = Entered /\ Left' = Left /\ Made' = Made
  BY SameMemory DEF Made
<1>2. Ranges /\ Ranges'
  BY RangesHold, RangesHoldNext
<1>3. Histories'
  BY <1>1 DEF Histories
<1>4. Circle'
  <2>1. /\ Pc[FrontBlock] <= Pc'[FrontBlock] /\ Pc'[FrontBlock] \in Nat
        /\ Pc'[FrontBlock] <= last[FrontBlock] /\ Left = last[FrontBlock]
        /\ Pc[FrontBlock] \in Nat /\ Left \in Nat
    BY <1>1, <1>2, Kinds, Ends, Shapes DEF Ranges
  <2> QED
    BY <2>1, CircleShrinks
<1>5. Counts' /\ Cells'
  BY <1>1 DEF Counts, Cells, First
<1>6. FrontViews' /\ FrontBlockViews'
  BY <1>1 DEF FrontViews, FrontBlockViews
<1>7. TailBlockViews'
  BY <1>1 DEF TailBlockViews, Ready, Complete
<1>8. TailViews'
  BY <1>1 DEF TailViews
<1>9. ConsumerStock' /\ ConsumerKnows' /\ ConsumerAt'
  BY <1>1 DEF ConsumerStock, Stock, ConsumerKnows, ConsumerAt, Ready, Complete
<1>10. ProducerKnows'
  <2>1. ASSUME NEW l \in Locations, Pc[l] = last[l] PROVE Pc'[l] = last[l]
    <3>1. /\ Pc'[l] <= last[l] /\ Pc[l] <= Pc'[l]
          /\ Pc[l] \in Nat /\ Pc'[l] \in Nat /\ last[l] \in Nat
      BY <1>1, <1>2 DEF Ranges
    <3> QED
      BY <2>1, <3>1
  <2>2. Pc'[TailBlock] = Entered
    BY <2>1, Kinds, Shapes DEF ProducerKnows
  <2>3. ASSUME NEW b \in Block
        PROVE  /\ Pc'[TailOf(b)] = last[TailOf(b)] /\ Pc'[NextOf(b)] = last[NextOf(b)]
               /\ Pc'[Built(b)] = last[Built(b)]
    BY <2>1, Kinds DEF ProducerKnows
  <2>4. ASSUME NEW b \in Made PROVE Pc'[FrontOf(b)] >= Origin(b)
    <3>1. b \in Block /\ Origin(b) \in 1..2
      BY Shapes
    <3>2. /\ Pc[FrontOf(b)] >= Origin(b) /\ Pc[FrontOf(b)] <= Pc'[FrontOf(b)]
          /\ Pc[FrontOf(b)] \in Nat /\ Pc'[FrontOf(b)] \in Nat
      BY <1>2, <3>1, Kinds DEF ProducerKnows, Ranges
    <3> QED
      BY <3>1, <3>2
  <2>5. ASSUME NEW j \in (Left + 1)..Entered PROVE Pc'[FrontOf(At[j])] = last[FrontOf(At[j])]
    <3>1. j \in 1..Entered
      BY Ends
    <3>2. At[j] \in Block
      BY <3>1, Ends
    <3> QED
      BY <2>1, <3>2, Kinds DEF ProducerKnows
  <2>6. ASSUME NEW b \in Made, NEW p \in Got[b]..(Put[b] - 1)
        PROVE  Pc'[Slot(b, Wrap(p))] = last[Slot(b, Wrap(p))]
    <3>1. b \in Block /\ p \in Nat
      BY Ends
    <3>2. Slot(b, Wrap(p)) \in Locations
      BY <3>1, WrapFacts, Kinds
    <3> QED
      BY <2>1, <3>2 DEF ProducerKnows
  <2> QED
    BY <1>1, <2>2, <2>3, <2>4, <2>5, <2>6 DEF ProducerKnows
<1> QED
  BY <1>3, <1>4, <1>5, <1>6, <1>7, <1>8, <1>9, <1>10

\* The consumer learns.
LEMMA ConsumerLooks ==
  ASSUME Shared, ProducerRoom, ProducerKnows, ProducerAt, ConsumerKnows,
         Memory', Control', mem' = mem, Pc' = Pc,
         \A l \in Locations : Cc[l] <= Cc'[l],
         UNCHANGED <<blocks, enqueued, dequeued, localFront, ppc>>
  PROVE  Shared' /\ ProducerRoom' /\ ProducerKnows' /\ ProducerAt' /\ ConsumerKnows'
<1> USE DEF Shared
<1>1. /\ last' = last /\ now' = now /\ Put' = Put /\ Got' = Got /\ At' = At
      /\ Entered' = Entered /\ Left' = Left /\ Made' = Made
  BY SameMemory DEF Made
<1>2. Ranges /\ Ranges'
  BY RangesHold, RangesHoldNext
<1>3. Histories' /\ Circle'
  BY <1>1 DEF Histories, Circle
<1>4. Counts' /\ Cells'
  BY <1>1 DEF Counts, Cells, First
<1>5. FrontViews' /\ FrontBlockViews'
  BY <1>1 DEF FrontViews, FrontBlockViews
<1>6. TailBlockViews'
  BY <1>1 DEF TailBlockViews, Ready, Complete
<1>7. ProducerRoom' /\ ProducerKnows' /\ ProducerAt'
  BY <1>1 DEF ProducerRoom, Room, ProducerKnows, ProducerAt
<1>8. ASSUME NEW l \in Locations, Cc[l] = last[l] PROVE Cc'[l] = last[l]
  <2>1. /\ Cc'[l] <= last[l] /\ Cc[l] <= Cc'[l]
        /\ Cc[l] \in Nat /\ Cc'[l] \in Nat /\ last[l] \in Nat
    BY <1>1, <1>2 DEF Ranges
  <2> QED
    BY <1>8, <2>1
<1>9. TailViews'
  <2>1. ASSUME NEW b \in Made, NEW q \in 0..Put[b], NEW p \in Got[b]..(q - 1)
        PROVE  \/ mem[TailOf(b)][q + 1].view[Slot(b, Wrap(p))] = last[Slot(b, Wrap(p))]
               \/ Cc'[Slot(b, Wrap(p))] = last[Slot(b, Wrap(p))]
               \/ b # At[Left] /\ p = Got[b]
    <3>1. b \in Block /\ p \in Nat
      BY Ends
    <3>2. Slot(b, Wrap(p)) \in Locations
      BY <3>1, WrapFacts, Kinds
    <3> QED
      BY <1>8, <3>2 DEF TailViews
  <2> QED
    BY <1>1, <2>1 DEF TailViews
<1>10. ConsumerKnows'
  <2>1. Cc'[FrontBlock] = Left
    BY <1>8, Kinds, Shapes DEF ConsumerKnows
  <2>2. Cc'[TailBlock] >= Left
    <3>1. /\ Cc[TailBlock] <= Cc'[TailBlock] /\ Cc[TailBlock] >= Left
          /\ Cc[TailBlock] \in Nat /\ Cc'[TailBlock] \in Nat /\ Left \in Nat
      BY <1>2, Kinds, Shapes DEF ConsumerKnows, Ranges
    <3> QED
      BY <3>1
  <2>3. ASSUME NEW b \in Made, Outside(At, Left + 1, Entered, b)
        PROVE  Cc'[FrontOf(b)] = last[FrontOf(b)]
    <3>1. b \in Block
      BY Shapes
    <3> QED
      BY <1>8, <2>3, <3>1, Kinds DEF ConsumerKnows
  <2>4. ASSUME NEW b \in Made, NEW i \in Slots, Spare(Got[b], Put[b], i)
        PROVE  Cc'[Slot(b, i)] = last[Slot(b, i)]
    <3>1. b \in Block
      BY Shapes
    <3> QED
      BY <1>8, <2>4, <3>1, Kinds DEF ConsumerKnows
  <2> QED
    BY <1>1, <2>1, <2>2, <2>3, <2>4 DEF ConsumerKnows
<1> QED
  BY <1>3, <1>4, <1>5, <1>6, <1>7, <1>9, <1>10

\* What a load, with or without the acquire fence, shows a thread.
LEMMA ProducerLoads ==
  ASSUME Memory, NEW l \in Locations, NEW n, n \in Visible(P, l)
  PROVE  /\ n \in Nat /\ n \in Pc[l]..last[l] /\ n \in 1..last[l]
         /\ ValueAt(P, l, n) = mem[l][n].val
         /\ Becomes("producer", Load(P, l, n)) =>
              /\ Memory' /\ mem' = mem /\ Cc' = Cc /\ Pc'[l] = n
              /\ \A x \in Locations : Pc[x] <= Pc'[x]
         /\ Becomes("producer", AcquireFence(Load(P, l, n))) =>
              /\ Memory' /\ mem' = mem /\ Cc' = Cc /\ Pc'[l] = n
              /\ \A x \in Locations : Pc[x] <= Pc'[x]
              /\ \A x \in Locations \ {l} : mem[l][n].view[x] <= Pc'[x]
<1>1. P = Sees("producer") /\ "producer" \in Threads /\ "consumer" \in Threads \ {"producer"}
  BY DEF P, Threads
<1>2. /\ Pc[l] \in Nat /\ last[l] \in Nat /\ 1 <= Pc[l] /\ Pc[l] <= last[l] /\ last[l] = Len(mem[l])
  BY Numbers
<1>3. P.cur = Pc /\ P.mem = mem
  BY <1>1, SeesParts DEF Pc
<1>4. n \in Pc[l]..last[l]
  BY <1>2, <1>3 DEF Visible
<1>5. ValueAt(P, l, n) = mem[l][n].val
  BY <1>3 DEF ValueAt
<1>6. ASSUME Becomes("producer", Load(P, l, n))
      PROVE  /\ Memory' /\ mem' = mem /\ Cc' = Cc /\ Pc'[l] = n
             /\ \A x \in Locations : Pc[x] <= Pc'[x]
  BY <1>1, <1>6, LoadStep DEF Pc, Cc
<1>7. ASSUME Becomes("producer", AcquireFence(Load(P, l, n)))
      PROVE  /\ Memory' /\ mem' = mem /\ Cc' = Cc /\ Pc'[l] = n
             /\ \A x \in Locations : Pc[x] <= Pc'[x]
             /\ \A x \in Locations \ {l} : mem[l][n].view[x] <= Pc'[x]
  BY <1>1, <1>7, LoadAcquireStep DEF Pc, Cc
<1> QED
  BY <1>2, <1>4, <1>5, <1>6, <1>7

\* What a load tells the consumer, with and without the fence.
LEMMA ConsumerLoads ==
  ASSUME Memory, NEW l \in Locations, NEW n, n \in Visible(C, l)
  PROVE  /\ n \in Nat /\ n \in Cc[l]..last[l] /\ n \in 1..last[l]
         /\ ValueAt(C, l, n) = mem[l][n].val
         /\ Becomes("consumer", Load(C, l, n)) =>
              /\ Memory' /\ mem' = mem /\ Pc' = Pc /\ Cc'[l] = n
              /\ \A x \in Locations : Cc[x] <= Cc'[x]
         /\ Becomes("consumer", AcquireFence(Load(C, l, n))) =>
              /\ Memory' /\ mem' = mem /\ Pc' = Pc /\ Cc'[l] = n
              /\ \A x \in Locations : Cc[x] <= Cc'[x]
              /\ \A x \in Locations \ {l} : mem[l][n].view[x] <= Cc'[x]
<1>1. C = Sees("consumer") /\ "consumer" \in Threads /\ "producer" \in Threads \ {"consumer"}
  BY DEF C, Threads
<1>2. /\ Cc[l] \in Nat /\ last[l] \in Nat /\ 1 <= Cc[l] /\ Cc[l] <= last[l] /\ last[l] = Len(mem[l])
  BY Numbers
<1>3. C.cur = Cc /\ C.mem = mem
  BY <1>1, SeesParts DEF Cc
<1>4. n \in Cc[l]..last[l]
  BY <1>2, <1>3 DEF Visible
<1>5. ValueAt(C, l, n) = mem[l][n].val
  BY <1>3 DEF ValueAt
<1>6. ASSUME Becomes("consumer", Load(C, l, n))
      PROVE  /\ Memory' /\ mem' = mem /\ Pc' = Pc /\ Cc'[l] = n
             /\ \A x \in Locations : Cc[x] <= Cc'[x]
  BY <1>1, <1>6, LoadStep DEF Pc, Cc
<1>7. ASSUME Becomes("consumer", AcquireFence(Load(C, l, n)))
      PROVE  /\ Memory' /\ mem' = mem /\ Pc' = Pc /\ Cc'[l] = n
             /\ \A x \in Locations : Cc[x] <= Cc'[x]
             /\ \A x \in Locations \ {l} : mem[l][n].view[x] <= Cc'[x]
  BY <1>1, <1>7, LoadAcquireStep DEF Pc, Cc
<1> QED
  BY <1>2, <1>4, <1>5, <1>6, <1>7

\* What a fence without a load tells each thread.
LEMMA FenceLooks ==
  ASSUME Memory
  PROVE  /\ Becomes("producer", AcquireFence(P)) =>
              /\ Memory' /\ mem' = mem /\ Cc' = Cc
              /\ \A x \in Locations : Pc[x] <= Pc'[x]
         /\ Becomes("consumer", AcquireFence(C)) =>
              /\ Memory' /\ mem' = mem /\ Pc' = Pc
              /\ \A x \in Locations : Cc[x] <= Cc'[x]
BY AcquireStep DEF P, C, Pc, Cc, Threads

\* Whoever has the view of a value that knows the latest of a location knows it too.
LEMMA KnowsToo ==
  ASSUME Memory, Memory', mem' = mem, NEW l \in Locations, NEW n \in 1..last[l],
         NEW x \in Locations, mem[l][n].view[x] = last[x]
  PROVE  /\ mem[l][n].view[x] <= Pc'[x] => Pc'[x] = last[x]
         /\ mem[l][n].view[x] <= Cc'[x] => Cc'[x] = last[x]
<1>1. last' = last
  BY SameMemory
<1>2. Ranges /\ Ranges'
  BY RangesHold, RangesHoldNext
<1> QED
  BY <1>1, <1>2 DEF Ranges

\* What is known stays known.
LEMMA StillKnown ==
  ASSUME Memory, Memory', mem' = mem, NEW x \in Locations
  PROVE  /\ Pc[x] <= Pc'[x] /\ Pc[x] = last[x] => Pc'[x] = last[x]
         /\ Cc[x] <= Cc'[x] /\ Cc[x] = last[x] => Cc'[x] = last[x]
<1>1. last' = last
  BY SameMemory
<1>2. Ranges /\ Ranges'
  BY RangesHold, RangesHoldNext
<1> QED
  BY <1>1, <1>2 DEF Ranges

\* The room in the tail block stays as long as its localFront does.
LEMMA RoomStays ==
  ASSUME Shared, ProducerRoom, Memory', mem' = mem, \A l \in Locations : Pc[l] <= Pc'[l],
         localFront'[At[Entered]] = localFront[At[Entered]]
  PROVE  ProducerRoom'
<1> USE DEF Shared
<1>1. /\ last' = last /\ Put' = Put /\ At' = At /\ Entered' = Entered
  BY SameMemory
<1>2. PICK t \in Block : t = At[Entered]
  BY Ends
<1>3. PICK g \in 0..(Pc[FrontOf(t)] - Origin(t)) :
        /\ localFront[t] = Wrap(g) /\ Put[t] - g < BlockSize
        /\ \A i \in Slots : Spare(g, Put[t], i) => Pc[Slot(t, i)] = last[Slot(t, i)]
  BY <1>2 DEF ProducerRoom, Room
<1>4. g \in 0..(Pc'[FrontOf(t)] - Origin(t))
  <2>1. Pc[FrontOf(t)] <= Pc'[FrontOf(t)] /\ Pc[FrontOf(t)] \in Nat /\ Pc'[FrontOf(t)] \in Nat
    BY RangesHold, RangesHoldNext, Kinds DEF Ranges
  <2>2. Origin(t) \in 1..2
    BY Shapes
  <2> QED
    BY <1>3, <2>1, <2>2
<1>5. ASSUME NEW i \in Slots, Spare(g, Put[t], i) PROVE Pc'[Slot(t, i)] = last[Slot(t, i)]
  BY <1>3, <1>5, StillKnown, Kinds
<1> QED
  BY <1>1, <1>2, <1>3, <1>4, <1>5 DEF ProducerRoom, Room

\* And the stock of the front block.
LEMMA StockStays ==
  ASSUME Shared, NEW b \in Made, Stock(b), Memory', mem' = mem,
         \A l \in Locations : Cc[l] <= Cc'[l], localTail'[b] = localTail[b]
  PROVE  Stock(b)'
<1> USE DEF Shared
<1>1. /\ last' = last /\ Got' = Got
  BY SameMemory
<1>2. PICK q \in Got[b]..(Cc[TailOf(b)] - 1) :
        /\ localTail[b] = Wrap(q)
        /\ \A p \in Got[b]..(q - 1) : Cc[Slot(b, Wrap(p))] = last[Slot(b, Wrap(p))]
  BY DEF Stock
<1>3. b \in Block /\ Got[b] \in Nat
  BY Ends
<1>4. q \in Got[b]..(Cc'[TailOf(b)] - 1)
  <2>1. Cc[TailOf(b)] <= Cc'[TailOf(b)] /\ Cc[TailOf(b)] \in Nat /\ Cc'[TailOf(b)] \in Nat
    BY <1>3, RangesHold, RangesHoldNext, Kinds DEF Ranges
  <2> QED
    BY <1>2, <1>3, <2>1
<1>5. ASSUME NEW p \in Got[b]..(q - 1) PROVE Cc'[Slot(b, Wrap(p))] = last[Slot(b, Wrap(p))]
  <2>1. p \in Nat
    BY <1>3
  <2>2. Slot(b, Wrap(p)) \in Locations
    BY <1>3, <2>1, WrapFacts, Kinds
  <2> QED
    BY <1>2, <2>2, StillKnown
<1> QED
  BY <1>1, <1>2, <1>4, <1>5 DEF Stock

-----------------------------------------------------------------------------
(* The producer's loads *)

\* A step in which the producer only learns keeps the invariant, if it keeps its own part.
LEMMA ProducerLearns ==
  ASSUME WInv, Memory', Control', mem' = mem, Cc' = Cc, \A l \in Locations : Pc[l] <= Pc'[l],
         UNCHANGED <<blocks, enqueued, dequeued, localTail, cpc, cblock>>,
         \A b \in Block \ Made : localFront'[b] = localFront[b],
         ProducerRoom', ProducerAt'
  PROVE  WInv'
<1>1. Shared /\ ProducerKnows /\ ConsumerStock /\ ConsumerKnows /\ ConsumerAt
  BY DEF WInv, Shared
<1>2. Shared' /\ ProducerKnows' /\ ConsumerStock' /\ ConsumerKnows' /\ ConsumerAt'
  BY <1>1, ProducerLooks
<1> QED
  BY <1>2 DEF WInv, Shared

\* What the producer has found out stands as long as it has not gone on.
LEMMA ProducerAtStays ==
  ASSUME Shared, ProducerAt, Memory', mem' = mem, \A l \in Locations : Pc[l] <= Pc'[l],
         UNCHANGED <<ppc, localFront>>
  PROVE  ProducerAt'
<1> USE DEF Shared
<1>1. /\ last' = last /\ Put' = Put /\ Got' = Got /\ At' = At /\ Entered' = Entered /\ now' = now
  BY SameMemory
<1>2. PICK n : n = now[NextOf(At[Entered])]
  OBVIOUS
<1>3. n \in Made /\ n \in Block
  BY <1>2, Ends
<1>4. Outside(At, Pc[FrontBlock], Entered, n) => Outside(At, Pc'[FrontBlock], Entered, n)
  <2>1. /\ Pc[FrontBlock] <= Pc'[FrontBlock] /\ Pc[FrontBlock] \in Nat /\ Pc'[FrontBlock] \in Nat
        /\ Entered \in Nat
    BY RangesHold, RangesHoldNext, Kinds, Ends DEF Ranges
  <2> QED
    BY <2>1 DEF Outside
<1>5. Pc[FrontOf(n)] = last[FrontOf(n)] => Pc'[FrontOf(n)] = last[FrontOf(n)]
  BY <1>3, StillKnown, Kinds
<1>6. ASSUME NEW i \in Slots, Pc[Slot(n, i)] = last[Slot(n, i)]
      PROVE  Pc'[Slot(n, i)] = last[Slot(n, i)]
  BY <1>3, <1>6, StillKnown, Kinds
<1> QED
  BY <1>1, <1>2, <1>4, <1>5, <1>6 DEF ProducerAt

\* A call of enqueue begins.
LEMMA BeginEnqueueStep ==
  ASSUME WInv, BeginEnqueue
  PROVE  WInv'
<1>1. Shared /\ ProducerRoom
  BY DEF WInv, Shared
<1>2. Memory /\ Control /\ Histories
  BY DEF WInv
<1>3. /\ UNCHANGED <<localFront, blocks, enqueued, dequeued, cpc, cblock, localTail, spc, walk>>
      /\ enqueued < MaxElements
      /\ \/ /\ Succ(Latest(TailOf(tb))) # localFront[tb]
            /\ ppc' = "construct" /\ Becomes("producer", AcquireFence(P))
         \/ ppc' = "loadFront" /\ UNCHANGED <<mem, views>>
  BY DEF BeginEnqueue, consVars, sizeVars
<1>4. Memory' /\ mem' = mem /\ Cc' = Cc /\ \A l \in Locations : Pc[l] <= Pc'[l]
  <2>1. CASE Becomes("producer", AcquireFence(P))
    BY <1>2, <2>1, FenceLooks
  <2>2. CASE UNCHANGED <<mem, views>>
    <3>1. Pc' = Pc /\ Cc' = Cc /\ \A l \in Locations : Pc[l] \in Nat
      BY <1>2, <2>2, RangesHold DEF Pc, Cc, Ranges
    <3>2. Memory'
      BY <1>2, <2>2 DEF Memory, Sees
    <3> QED
      BY <2>2, <3>1, <3>2
  <2> QED
    BY <1>3, <2>1, <2>2
<1>5. Control'
  BY <1>2, <1>3 DEF Control, Made
<1>6. ProducerRoom'
  BY <1>1, <1>3, <1>4, RoomStays
<1>7. ProducerAt'
  <2>1. Put' = Put /\ At' = At /\ Entered' = Entered
    BY <1>4, SameMemory
  <2>2. tb = At[Entered] /\ tb \in Made /\ tb \in Block /\ Latest(TailOf(tb)) = Wrap(Put[tb])
    BY <1>2, Ends, Kinds
  <2> QED
    BY <1>3, <2>1, <2>2 DEF ProducerAt
<1> QED
  BY <1>3, <1>4, <1>5, <1>6, <1>7, ProducerLearns

\* The producer refreshes localFront.
LEMMA LoadFrontStep ==
  ASSUME WInv, LoadFront
  PROVE  WInv'
<1>1. Shared /\ ProducerRoom
  BY DEF WInv, Shared
<1>2. Memory /\ Control /\ Histories /\ ProducerKnows /\ FrontViews
  BY DEF WInv
<1>3. PICK t \in Made : t = tb /\ t = At[Entered] /\ t \in Block /\ Latest(TailOf(t)) = Wrap(Put[t])
  BY <1>2, Ends, Kinds
<1>4. PICK n \in Visible(P, FrontOf(t)) :
        /\ Becomes("producer", AcquireFence(Load(P, FrontOf(t), n)))
        /\ localFront' = [localFront EXCEPT ![t] = ValueAt(P, FrontOf(t), n)]
        /\ ppc' = IF Succ(Latest(TailOf(t))) # ValueAt(P, FrontOf(t), n) THEN "construct"
                                                                      ELSE "checkNext"
  BY <1>3 DEF LoadFront
<1>5. /\ UNCHANGED <<blocks, enqueued, dequeued, cpc, cblock, localTail, spc, walk>>
      /\ ppc = "loadFront"
  BY DEF LoadFront, consVars, sizeVars
<1>6. FrontOf(t) \in Locations
  BY <1>3, Kinds
<1>7. /\ Memory' /\ mem' = mem /\ Cc' = Cc /\ \A l \in Locations : Pc[l] <= Pc'[l]
      /\ Pc'[FrontOf(t)] = n /\ n \in Nat /\ n \in Pc[FrontOf(t)]..last[FrontOf(t)]
      /\ n \in 1..last[FrontOf(t)] /\ ValueAt(P, FrontOf(t), n) = mem[FrontOf(t)][n].val
      /\ \A x \in Locations \ {FrontOf(t)} : mem[FrontOf(t)][n].view[x] <= Pc'[x]
  BY <1>2, <1>4, <1>6, ProducerLoads
<1>8. PICK g \in Int : g = n - Origin(t)
  BY <1>2, <1>3, <1>7, Shapes
<1>9. PICK h \in 0..(Pc[FrontOf(t)] - Origin(t)) : Put[t] - h < BlockSize
  BY <1>1, <1>3 DEF ProducerRoom, Room
<1>10. g \in 0..Got[t] /\ n = g + Origin(t) /\ h <= g /\ g \in 0..(Pc'[FrontOf(t)] - Origin(t))
  <2>1. /\ Origin(t) \in 1..2 /\ Got[t] = last[FrontOf(t)] - Origin(t) /\ last[FrontOf(t)] \in Nat
        /\ Pc[FrontOf(t)] \in Nat /\ Pc[FrontOf(t)] >= Origin(t)
    BY <1>2, <1>3, <1>6, Shapes, Numbers DEF ProducerKnows
  <2>2. n >= Pc[FrontOf(t)] /\ n <= last[FrontOf(t)]
    BY <1>7, <2>1
  <2> QED
    BY <1>7, <1>8, <1>9, <2>1, <2>2
<1>11. ValueAt(P, FrontOf(t), n) = Wrap(g) /\ Wrap(g) \in Slots
  BY <1>2, <1>7, <1>10, WrapFacts DEF Histories
<1>12. /\ Put[t] \in Nat /\ BlockSize \in Nat /\ Put[t] - g < BlockSize
  <2>1. Put[t] \in Nat /\ BlockSize \in Nat
    BY <1>2, <1>3, Ends, WeakAssumption
  <2> QED
    BY <1>9, <1>10, <2>1
<1>13. ASSUME NEW i \in Slots, Spare(g, Put[t], i) PROVE Pc'[Slot(t, i)] = last[Slot(t, i)]
  <2>1. Slot(t, i) \in Locations \ {FrontOf(t)}
    BY <1>3, Kinds
  <2>2. mem[FrontOf(t)][n].view[Slot(t, i)] = last[Slot(t, i)]
    BY <1>2, <1>10, <1>13 DEF FrontViews
  <2> QED
    BY <1>2, <1>6, <1>7, <2>1, <2>2, KnowsToo
<1>14. /\ localFront' \in [Block -> Slots] /\ localFront'[t] = Wrap(g)
       /\ \A b \in Block \ {t} : localFront'[b] = localFront[b]
  BY <1>2, <1>3, <1>4, <1>11 DEF Control
<1>15. Control'
  BY <1>2, <1>4, <1>5, <1>14 DEF Control, Made
<1>16. last' = last /\ Put' = Put /\ At' = At /\ Entered' = Entered
  BY <1>7, SameMemory
<1>17. ProducerRoom'
  BY <1>3, <1>10, <1>12, <1>13, <1>14, <1>16 DEF ProducerRoom, Room
<1>18. ProducerAt'
  BY <1>3, <1>4, <1>11, <1>14, <1>16 DEF ProducerAt
<1> QED
  BY <1>5, <1>7, <1>14, <1>15, <1>17, <1>18, ProducerLearns

\* The block is full: the producer looks at frontBlock.
LEMMA CheckNextStep ==
  ASSUME WInv, CheckNext
  PROVE  WInv'
<1>1. Shared /\ ProducerRoom
  BY DEF WInv, Shared
<1>2. Memory /\ Control /\ Histories /\ Circle /\ FrontBlockViews
  BY DEF WInv
<1>3. PICK b \in Made : b = nb /\ b \in Block /\ b = now[NextOf(At[Entered])] /\ Latest(NextOf(tb)) = b
  BY <1>2, Ends DEF nb
<1>4. PICK n \in Visible(P, FrontBlock) :
        \/ /\ b # ValueAt(P, FrontBlock, n)
           /\ Becomes("producer", AcquireFence(Load(P, FrontBlock, n)))
           /\ ppc' = "loadNext"
        \/ /\ Becomes("producer", Load(P, FrontBlock, n))
           /\ ppc' \in {"alloc", "idle"}
  BY <1>3 DEF CheckNext
<1>5. /\ UNCHANGED <<localFront, blocks, enqueued, dequeued, cpc, cblock, localTail, spc, walk>>
      /\ ppc = "checkNext"
  BY DEF CheckNext, consVars, sizeVars
<1>6. /\ Memory' /\ mem' = mem /\ Cc' = Cc /\ \A l \in Locations : Pc[l] <= Pc'[l]
      /\ Pc'[FrontBlock] = n /\ n \in Nat /\ n \in Pc[FrontBlock]..Left /\ n \in 1..Left
      /\ ValueAt(P, FrontBlock, n) = mem[FrontBlock][n].val
  BY <1>2, <1>4, Kinds, ProducerLoads DEF Left
<1>7. Control'
  BY <1>2, <1>4, <1>5 DEF Control, Made
<1>8. ProducerRoom'
  BY <1>1, <1>5, <1>6, RoomStays
<1>9. last' = last /\ now' = now /\ At' = At /\ Entered' = Entered
  BY <1>6, SameMemory
<1>10. ProducerAt'
  <2>1. CASE ppc' \in {"alloc", "idle"}
    BY <2>1 DEF ProducerAt
  <2>2. CASE /\ b # ValueAt(P, FrontBlock, n)
             /\ Becomes("producer", AcquireFence(Load(P, FrontBlock, n)))
             /\ ppc' = "loadNext"
    <3>1. b # At[n]
      BY <1>2, <1>6, <2>2, Ends
    <3>2. Circle'
      BY <1>2, <1>5, <1>6, CircleShrinks
    <3>3. Outside(At, n, Entered, b)
      <4>1. Made' = Made /\ At[Entered] \in Made
        BY <1>2, <1>5, Ends DEF Made
      <4>2. \A c \in Made : Outside(At, n, Entered, c) \/ c = At[Entered]
              => Outside(At, n, Entered, now[NextOf(c)]) \/ now[NextOf(c)] = At[n]
        BY <1>6, <1>9, <3>2, <4>1 DEF Circle
      <4> QED
        BY <1>3, <3>1, <4>1, <4>2
    <3>4. /\ mem[FrontBlock][n].view[FrontOf(b)] = last[FrontOf(b)]
          /\ \A i \in Slots : mem[FrontBlock][n].view[Slot(b, i)] = last[Slot(b, i)]
      BY <1>2, <1>6, <3>3 DEF FrontBlockViews
    <3>5. \A x \in Locations \ {FrontBlock} : mem[FrontBlock][n].view[x] <= Pc'[x]
      BY <1>2, <2>2, Kinds, ProducerLoads
    <3>6. n \in 1..last[FrontBlock]
      BY <1>6 DEF Left
    <3>7. Pc'[FrontOf(b)] = last[FrontOf(b)]
      <4>1. FrontOf(b) \in Locations \ {FrontBlock}
        BY <1>3, Kinds
      <4> QED
        BY <1>2, <1>6, <3>4, <3>5, <3>6, <4>1, Kinds, KnowsToo
    <3>8. ASSUME NEW i \in Slots PROVE Pc'[Slot(b, i)] = last[Slot(b, i)]
      <4>1. Slot(b, i) \in Locations \ {FrontBlock}
        BY <1>3, Kinds
      <4> QED
        BY <1>2, <1>6, <3>4, <3>5, <3>6, <4>1, Kinds, KnowsToo
    <3> QED
      BY <1>3, <1>6, <1>9, <2>2, <3>3, <3>7, <3>8 DEF ProducerAt
  <2> QED
    BY <1>4, <2>1, <2>2
<1> QED
  BY <1>5, <1>6, <1>7, <1>8, <1>10, ProducerLearns

\* The producer refreshes the next block's localFront.
LEMMA LoadNextStep ==
  ASSUME WInv, LoadNext
  PROVE  WInv'
<1>1. Shared /\ ProducerRoom
  BY DEF WInv, Shared
<1>2. Memory /\ Control /\ Histories /\ ProducerAt
  BY DEF WInv
<1>3. PICK b \in Made : b = nb /\ b \in Block /\ b = now[NextOf(At[Entered])]
  BY <1>2, Ends DEF nb
<1>4. PICK n \in Visible(P, FrontOf(b)) :
        /\ Becomes("producer", AcquireFence(Load(P, FrontOf(b), n)))
        /\ localFront' = [localFront EXCEPT ![b] = ValueAt(P, FrontOf(b), n)]
  BY <1>3 DEF LoadNext
<1>5. /\ UNCHANGED <<blocks, enqueued, dequeued, cpc, cblock, localTail, spc, walk>>
      /\ ppc = "loadNext" /\ ppc' = "constructNext"
  BY DEF LoadNext, consVars, sizeVars
<1>6. FrontOf(b) \in Locations
  BY <1>3, Kinds
<1>7. /\ Memory' /\ mem' = mem /\ Cc' = Cc /\ \A l \in Locations : Pc[l] <= Pc'[l]
      /\ n \in Nat /\ n \in Pc[FrontOf(b)]..last[FrontOf(b)]
      /\ ValueAt(P, FrontOf(b), n) = mem[FrontOf(b)][n].val
  BY <1>2, <1>4, <1>6, ProducerLoads
<1>8. /\ Outside(At, Pc[FrontBlock], Entered, b)
      /\ Pc[FrontOf(b)] = last[FrontOf(b)]
      /\ \A i \in Slots : Pc[Slot(b, i)] = last[Slot(b, i)]
  BY <1>2, <1>3, <1>5 DEF ProducerAt
<1>9. n = last[FrontOf(b)]
  <2>1. last[FrontOf(b)] \in Nat
    BY <1>2, <1>6, Numbers
  <2> QED
    BY <1>7, <1>8, <2>1
<1>10. ValueAt(P, FrontOf(b), n) = Wrap(Got[b]) /\ Wrap(Got[b]) \in Slots
  BY <1>2, <1>3, <1>6, <1>7, <1>9, Ends, Messages, WrapFacts
<1>11. /\ localFront' \in [Block -> Slots] /\ localFront'[b] = Wrap(Got[b])
       /\ \A c \in Block \ {b} : localFront'[c] = localFront[c]
  BY <1>2, <1>3, <1>4, <1>10 DEF Control
<1>12. At[Entered] \in Block \ {b} /\ Entered \in Nat /\ Pc[FrontBlock] \in Nat /\ Pc[FrontBlock] <= Entered
  <2>1. Entered \in Nat /\ Pc[FrontBlock] \in 1..Left /\ Left \in Nat /\ Left <= Entered
    BY <1>2, Ends
  <2>2. At[Entered] # b
    BY <1>8, <2>1 DEF Outside
  <2> QED
    BY <1>2, <2>1, <2>2, Ends
<1>13. Control'
  BY <1>2, <1>5, <1>11 DEF Control, Made
<1>14. ProducerRoom'
  BY <1>1, <1>7, <1>11, <1>12, RoomStays
<1>15. last' = last /\ now' = now /\ At' = At /\ Entered' = Entered /\ Got' = Got
  BY <1>7, SameMemory
<1>16. ProducerAt'
  <2>1. Pc'[FrontBlock] \in Nat /\ Pc[FrontBlock] <= Pc'[FrontBlock]
    BY <1>7, Kinds, RangesHoldNext DEF Ranges
  <2>2. Outside(At, Pc'[FrontBlock], Entered, b)
    BY <1>8, <1>12, <2>1 DEF Outside
  <2>3. Pc'[FrontOf(b)] = last[FrontOf(b)]
    BY <1>2, <1>6, <1>7, <1>8, StillKnown
  <2>4. ASSUME NEW i \in Slots PROVE Pc'[Slot(b, i)] = last[Slot(b, i)]
    BY <1>2, <1>3, <1>7, <1>8, Kinds, StillKnown
  <2> QED
    BY <1>3, <1>5, <1>11, <1>15, <2>2, <2>3, <2>4 DEF ProducerAt
<1> QED
  BY <1>3, <1>5, <1>7, <1>11, <1>13, <1>14, <1>16, ProducerLearns

\* There is no memory.
LEMMA MallocFailsStep ==
  ASSUME WInv, MallocFails
  PROVE  WInv'
<1>1. Shared /\ ProducerRoom
  BY DEF WInv, Shared
<1>2. Memory /\ Control
  BY DEF WInv
<1>3. /\ UNCHANGED <<mem, views, localFront, blocks, enqueued, dequeued, cpc, cblock, localTail, spc, walk>>
      /\ ppc' = "idle"
  BY DEF MallocFails, consVars, sizeVars
<1>4. Memory' /\ Cc' = Cc /\ \A l \in Locations : Pc[l] <= Pc'[l]
  <2>1. Pc' = Pc /\ Cc' = Cc /\ \A l \in Locations : Pc[l] \in Nat
    BY <1>2, <1>3, RangesHold DEF Pc, Cc, Ranges
  <2>2. Memory'
    BY <1>2, <1>3 DEF Memory, Sees
  <2> QED
    BY <2>1, <2>2
<1>5. Control'
  BY <1>2, <1>3 DEF Control, Made
<1>6. ProducerRoom'
  BY <1>1, <1>3, <1>4, RoomStays
<1>7. ProducerAt'
  BY <1>3 DEF ProducerAt
<1> QED
  BY <1>3, <1>4, <1>5, <1>6, <1>7, ProducerLearns

-----------------------------------------------------------------------------
(* size_approx, called by the producer *)

\* A step of size_approx keeps the invariant, if its walk stays within the blocks.
LEMMA CountingStep ==
  ASSUME WInv, Memory', mem' = mem, Cc' = Cc, \A l \in Locations : Pc[l] <= Pc'[l],
         UNCHANGED <<prodVars, consVars, localTail>>,
         spc' \in [Threads -> {"off", "count", "step"}], spc'["consumer"] = "off",
         walk' \in [Threads -> [from : Block \cup {Null}, at : Block \cup {Null}]],
         spc'["producer"] # "off" => walk'["producer"].at \in Made
  PROVE  WInv'
<1>1. Shared /\ ProducerRoom /\ ProducerAt /\ Control
  BY DEF WInv, Shared
<1>2. UNCHANGED <<ppc, localFront, blocks, enqueued, dequeued, cpc, cblock, localTail>>
  BY DEF prodVars, consVars
<1>3. Control'
  BY <1>1, <1>2 DEF Control, Made
<1>4. ProducerRoom' /\ ProducerAt'
  BY <1>1, <1>2, RoomStays, ProducerAtStays
<1> QED
  BY <1>2, <1>3, <1>4, ProducerLearns

\* The producer counts.
LEMMA SizingStep ==
  ASSUME WInv, Sizing, "size_approx" \notin ConsumerOps
  PROVE  WInv'
<1>1. Memory /\ Control /\ Histories /\ ProducerKnows
  BY DEF WInv
<1>2. PICK t \in Threads : SizeApprox(t) \/ CountBlock(t) \/ StepBlock(t)
  BY DEF Sizing
<1>3. t = "producer" /\ UNCHANGED <<prodVars, consVars, localTail>>
  BY <1>1, <1>2 DEF SizeApprox, CountBlock, StepBlock, MayCount, Threads, Control
<1>4. /\ spc \in [Threads -> {"off", "count", "step"}] /\ spc["consumer"] = "off"
      /\ walk \in [Threads -> [from : Block \cup {Null}, at : Block \cup {Null}]]
      /\ spc["producer"] # "off" => walk["producer"].at \in Made
      /\ "producer" \in Threads /\ Made \subseteq Block
  BY <1>1, Shapes DEF Control, Threads
<1>5. CASE SizeApprox("producer")
  <2>1. PICK n \in Visible(P, FrontBlock) :
          /\ Becomes("producer", AcquireFence(Load(P, FrontBlock, n)))
          /\ walk' = [walk EXCEPT !["producer"] = [from |-> ValueAt(Load(P, FrontBlock, n), FrontBlock, n),
                                                   at |-> ValueAt(Load(P, FrontBlock, n), FrontBlock, n)]]
          /\ spc' = [spc EXCEPT !["producer"] = "count"]
    BY <1>5 DEF SizeApprox, P
  <2>2. /\ Memory' /\ mem' = mem /\ Cc' = Cc /\ \A l \in Locations : Pc[l] <= Pc'[l]
        /\ n \in 1..Left /\ ValueAt(P, FrontBlock, n) = mem[FrontBlock][n].val
    BY <1>1, <2>1, Kinds, ProducerLoads DEF Left
  <2>3. PICK p, r, b : p = P /\ r = Load(p, FrontBlock, n) /\ b = ValueAt(r, FrontBlock, n)
    OBVIOUS
  <2>4. b = ValueAt(P, FrontBlock, n)
    <3>1. Sound(p)
      BY <1>1, <1>4, <2>3 DEF Memory, P
    <3>2. r.mem = p.mem
      BY <2>1, <2>3, <3>1, Kinds, LoadIs
    <3> QED
      BY <2>3, <3>2 DEF ValueAt
  <2>5. b = At[n] /\ b \in Made
    <3>1. n \in 1..Entered
      BY <1>1, <2>2, Ends
    <3> QED
      BY <1>1, <2>2, <2>4, <3>1, Ends
  <2>6. /\ spc' \in [Threads -> {"off", "count", "step"}] /\ spc'["consumer"] = "off"
    BY <1>4, <2>1
  <2>7. /\ walk' \in [Threads -> [from : Block \cup {Null}, at : Block \cup {Null}]]
        /\ walk'["producer"].at = b
    BY <1>4, <2>1, <2>3, <2>5
  <2> QED
    BY <1>3, <2>2, <2>5, <2>6, <2>7, CountingStep
<1>6. CASE CountBlock("producer")
  <2>1. PICK b : b = walk["producer"].at
    OBVIOUS
  <2>2. PICK n \in Visible(P, FrontOf(b)), m \in Visible(P, TailOf(b)) :
          Becomes("producer", Load(Load(P, FrontOf(b), n), TailOf(b), m))
    BY <1>6, <2>1 DEF CountBlock, P
  <2>3. spc["producer"] = "count" /\ spc' = [spc EXCEPT !["producer"] = "step"] /\ walk' = walk
    BY <1>6 DEF CountBlock
  <2>4. b \in Made /\ b \in Block
    BY <1>4, <2>1, <2>3
  <2>5. FrontOf(b) \in Locations /\ TailOf(b) \in Locations /\ TailOf(b) # FrontOf(b)
    BY <2>4, Kinds
  <2>6. PICK s, q, r : s = P /\ q = Load(s, FrontOf(b), n) /\ r = Load(q, TailOf(b), m)
    OBVIOUS
  <2>7. Sound(s) /\ s.mem = mem /\ s.cur = Pc
    BY <1>1, <1>4, <2>6, SeesParts DEF Memory, P, Pc
  <2>8. /\ Sound(q) /\ q.mem = mem /\ q.cur[TailOf(b)] = s.cur[TailOf(b)]
        /\ \A x \in Locations : s.cur[x] <= q.cur[x]
    BY <2>2, <2>5, <2>6, <2>7, LoadIs
  <2>9. m \in Visible(q, TailOf(b))
    BY <2>2, <2>6, <2>7, <2>8 DEF Visible
  <2>10. Sound(r) /\ r.mem = mem /\ \A x \in Locations : q.cur[x] <= r.cur[x]
    BY <2>5, <2>6, <2>8, <2>9, LoadIs
  <2>11. \A x \in Locations : Len(mem[x]) \in Nat /\ Len(mem[x]) <= Len(r.mem[x])
    BY <2>7, <2>10, SoundFacts
  <2>12. /\ Memory' /\ mem' = r.mem /\ views'["producer"].cur = r.cur
         /\ \A u \in Threads \ {"producer"} : views'[u] = views[u]
    BY <1>1, <1>4, <2>2, <2>6, <2>10, <2>11, BecomesIs
  <2>13. \A x \in Locations : Pc[x] <= Pc'[x]
    <3>1. ASSUME NEW x \in Locations PROVE Pc[x] <= Pc'[x]
      <4>1. s.cur[x] \in Nat /\ q.cur[x] \in Nat /\ r.cur[x] \in Nat
        BY <2>7, <2>8, <2>10, SoundFacts
      <4>2. s.cur[x] <= q.cur[x] /\ q.cur[x] <= r.cur[x]
        BY <2>8, <2>10
      <4> QED
        BY <2>7, <2>12, <4>1, <4>2 DEF Pc
    <3> QED
      BY <3>1
  <2>14. Cc' = Cc
    BY <2>12 DEF Cc, Threads
  <2>15. spc' \in [Threads -> {"off", "count", "step"}] /\ spc'["consumer"] = "off"
    BY <1>4, <2>3
  <2> QED
    BY <1>3, <1>4, <2>1, <2>3, <2>4, <2>10, <2>12, <2>13, <2>14, <2>15, CountingStep
<1>7. CASE StepBlock("producer")
  <2>1. PICK c : c = walk["producer"].at
    OBVIOUS
  <2>2. PICK n \in Visible(P, NextOf(c)) :
          \/ /\ Becomes("producer", Load(P, NextOf(c), n))
             /\ spc' = [spc EXCEPT !["producer"] = "off"]
             /\ walk' = [walk EXCEPT !["producer"] = [from |-> Null, at |-> Null]]
          \/ /\ Becomes("producer", AcquireFence(Load(P, NextOf(c), n)))
             /\ spc' = [spc EXCEPT !["producer"] = "count"]
             /\ walk' = [walk EXCEPT !["producer"].at = ValueAt(Load(P, NextOf(c), n), NextOf(c), n)]
    BY <1>7, <2>1 DEF StepBlock, P
  <2>3. spc["producer"] = "step"
    BY <1>7 DEF StepBlock
  <2>4. c \in Made /\ c \in Block
    BY <1>4, <2>1, <2>3
  <2>5. NextOf(c) \in Locations
    BY <2>4, Kinds
  <2>6. /\ Memory' /\ mem' = mem /\ Cc' = Cc /\ \A l \in Locations : Pc[l] <= Pc'[l]
        /\ n \in Nat /\ n \in Pc[NextOf(c)]..last[NextOf(c)]
        /\ ValueAt(P, NextOf(c), n) = mem[NextOf(c)][n].val
    BY <1>1, <2>2, <2>5, ProducerLoads
  <2>7. n = last[NextOf(c)]
    <3>1. Pc[NextOf(c)] = last[NextOf(c)] /\ last[NextOf(c)] \in Nat
      BY <1>1, <2>4, <2>5, Numbers DEF ProducerKnows
    <3> QED
      BY <2>6, <3>1
  <2>8. PICK p, r, b : p = P /\ r = Load(p, NextOf(c), n) /\ b = ValueAt(r, NextOf(c), n)
    OBVIOUS
  <2>9. b = now[NextOf(c)] /\ b \in Made
    <3>1. Sound(p)
      BY <1>1, <1>4, <2>8 DEF Memory, P
    <3>2. r.mem = p.mem
      BY <2>2, <2>5, <2>8, <3>1, LoadIs
    <3>3. b = ValueAt(P, NextOf(c), n)
      BY <2>8, <3>2 DEF ValueAt
    <3> QED
      BY <1>1, <2>4, <2>5, <2>6, <2>7, <3>3, Messages DEF Histories
  <2>10. spc' \in [Threads -> {"off", "count", "step"}] /\ spc'["consumer"] = "off"
    <3>1. PICK x \in {"off", "count"} : spc' = [spc EXCEPT !["producer"] = x]
      BY <2>2
    <3> QED
      BY <1>4, <3>1
  <2>11. /\ walk' \in [Threads -> [from : Block \cup {Null}, at : Block \cup {Null}]]
         /\ spc'["producer"] # "off" => walk'["producer"].at = b
    <3>1. CASE walk' = [walk EXCEPT !["producer"].at = ValueAt(Load(P, NextOf(c), n), NextOf(c), n)]
      BY <1>4, <2>8, <2>9, <3>1
    <3>2. CASE /\ spc' = [spc EXCEPT !["producer"] = "off"]
               /\ walk' = [walk EXCEPT !["producer"] = [from |-> Null, at |-> Null]]
      BY <1>4, <3>2
    <3> QED
      BY <2>2, <3>1, <3>2
  <2> QED
    BY <1>3, <2>6, <2>9, <2>10, <2>11, CountingStep
<1> QED
  BY <1>2, <1>3, <1>5, <1>6, <1>7

-----------------------------------------------------------------------------
(* The consumer's loads *)

\* A step in which the consumer only learns keeps the invariant, if it keeps its own part.
LEMMA ConsumerLearns ==
  ASSUME WInv, Memory', Control', mem' = mem, Pc' = Pc, \A l \in Locations : Cc[l] <= Cc'[l],
         UNCHANGED <<blocks, enqueued, dequeued, localFront, ppc>>,
         ConsumerStock', ConsumerAt'
  PROVE  WInv'
<1>1. Shared /\ ProducerRoom /\ ProducerKnows /\ ProducerAt /\ ConsumerKnows
  BY DEF WInv, Shared
<1>2. Shared' /\ ProducerRoom' /\ ProducerKnows' /\ ProducerAt' /\ ConsumerKnows'
  BY <1>1, ConsumerLooks
<1> QED
  BY <1>2 DEF WInv, Shared

\* A consumer who knows no less than one for whom a block is ready or complete finds it so.
LEMMA ReadyGrows ==
  ASSUME Shared, Memory', mem' = mem, NEW b \in Made, NEW v,
         \A l \in Locations \ {TailBlock} : v[l] \in Nat /\ v[l] <= Cc'[l]
  PROVE  /\ Ready(v, b) => Ready(Cc, b)'
         /\ Complete(v, b) => Complete(Cc, b)'
<1> USE DEF Shared
<1>1. /\ last' = last /\ Put' = Put /\ Got' = Got
  BY SameMemory
<1>2. b \in Block /\ Got[b] \in Nat /\ Put[b] \in Nat
  BY Ends
<1>3. ASSUME NEW l \in Locations \ {TailBlock}, v[l] = last[l] PROVE Cc'[l] = last[l]
  <2>1. v[l] \in Nat /\ v[l] <= Cc'[l] /\ Cc'[l] \in Nat /\ Cc'[l] <= last[l]
    BY <1>1, RangesHoldNext DEF Ranges
  <2> QED
    BY <1>3, <2>1
<1>4. /\ FrontOf(b) \in Locations \ {TailBlock} /\ TailOf(b) \in Locations \ {TailBlock}
      /\ NextOf(b) \in Locations \ {TailBlock} /\ Built(b) \in Locations \ {TailBlock}
      /\ \A i \in Slots : Slot(b, i) \in Locations \ {TailBlock}
  BY <1>2, Kinds
<1>5. \A p \in Nat : Slot(b, Wrap(p)) \in Locations \ {TailBlock}
  BY <1>4, WrapFacts
<1>6. ASSUME Ready(v, b) PROVE Ready(Cc, b)'
  <2>1. v[TailOf(b)] >= Got[b] + 2 /\ v[TailOf(b)] \in Nat /\ v[TailOf(b)] <= Cc'[TailOf(b)]
    BY <1>4, <1>6 DEF Ready
  <2>2. Cc'[TailOf(b)] \in Nat
    BY <1>4, RangesHoldNext DEF Ranges
  <2>3. Cc'[TailOf(b)] >= Got[b] + 2
    BY <1>2, <2>1, <2>2
  <2>4. /\ Cc'[FrontOf(b)] = last[FrontOf(b)] /\ Cc'[Built(b)] = last[Built(b)]
        /\ Cc'[Slot(b, Wrap(Got[b]))] = last[Slot(b, Wrap(Got[b]))]
    BY <1>2, <1>3, <1>4, <1>5, <1>6 DEF Ready
  <2> QED
    BY <1>1, <2>3, <2>4 DEF Ready
<1>7. ASSUME Complete(v, b) PROVE Complete(Cc, b)'
  <2>1. Cc'[TailOf(b)] = last[TailOf(b)] /\ Cc'[NextOf(b)] = last[NextOf(b)]
    BY <1>3, <1>4, <1>7 DEF Complete
  <2>2. ASSUME NEW p \in Got[b]..(Put[b] - 1) PROVE Cc'[Slot(b, Wrap(p))] = last[Slot(b, Wrap(p))]
    <3>1. p \in Nat
      BY <1>2
    <3> QED
      BY <1>3, <1>5, <1>7, <3>1 DEF Complete
  <2> QED
    BY <1>1, <2>1, <2>2 DEF Complete
<1> QED
  BY <1>6, <1>7

\* A thread that reads an old tail finds the elements before it there.
LEMMA TailIs ==
  ASSUME Shared, NEW b \in Made, NEW n \in Nat, Got[b] + 1 <= n, n <= last[TailOf(b)]
  PROVE  /\ n - 1 \in Got[b]..Put[b] /\ n - 1 \in 0..Put[b] /\ n = (n - 1) + 1
         /\ mem[TailOf(b)][n].val = Wrap(n - 1) /\ Wrap(n - 1) \in Slots
         /\ Wrap(Got[b]) = Wrap(n - 1) => n = Got[b] + 1
<1> USE DEF Shared
<1>1. /\ b \in Block /\ Got[b] \in Nat /\ Put[b] \in Nat /\ last[TailOf(b)] = Put[b] + 1
      /\ BlockSize \in Nat /\ Put[b] - Got[b] < BlockSize
  BY Ends, Shapes, WeakAssumption DEF Counts
<1>2. PICK q \in Nat : q = n - 1
  BY <1>1
<1>3. q \in Got[b]..Put[b] /\ q \in 0..Put[b] /\ n = q + 1
  BY <1>1, <1>2
<1>4. mem[TailOf(b)][n].val = Wrap(q)
  BY <1>3 DEF Histories
<1>5. Wrap(q) \in Slots
  BY WrapFacts
<1>6. ASSUME Wrap(Got[b]) = Wrap(q) PROVE n = Got[b] + 1
  <2>1. ~(Got[b] < q /\ q < Got[b] + BlockSize)
    BY <1>1, <1>6, WrapFacts
  <2> QED
    BY <1>1, <1>3, <2>1
<1> QED
  BY <1>2, <1>3, <1>4, <1>5, <1>6

\* A call that dequeues or peeks begins.
LEMMA BeginDequeueStep ==
  ASSUME WInv, BeginDequeue
  PROVE  WInv'
<1>1. Shared /\ ConsumerStock
  BY DEF WInv, Shared
<1>2. Memory /\ Control /\ Histories
  BY DEF WInv
<1>3. /\ UNCHANGED <<ppc, localFront, blocks, enqueued, dequeued, cblock, localTail, spc, walk>>
      /\ \/ /\ Latest(FrontOf(fb)) # localTail[fb]
            /\ cpc' = "read" /\ Becomes("consumer", AcquireFence(C))
         \/ cpc' = "loadTail" /\ UNCHANGED <<mem, views>>
  BY DEF BeginDequeue, prodVars, sizeVars
<1>4. Memory' /\ mem' = mem /\ Pc' = Pc /\ \A l \in Locations : Cc[l] <= Cc'[l]
  <2>1. CASE Becomes("consumer", AcquireFence(C))
    BY <1>2, <2>1, FenceLooks
  <2>2. CASE UNCHANGED <<mem, views>>
    <3>1. Pc' = Pc /\ Cc' = Cc /\ \A l \in Locations : Cc[l] \in Nat
      BY <1>2, <2>2, RangesHold DEF Pc, Cc, Ranges
    <3>2. Memory'
      BY <1>2, <2>2 DEF Memory, Sees
    <3> QED
      BY <2>2, <3>1, <3>2
  <2> QED
    BY <1>3, <2>1, <2>2
<1>5. Control'
  BY <1>2, <1>3 DEF Control, Made
<1>6. Got' = Got /\ At' = At /\ Left' = Left
  BY <1>4, SameMemory
<1>7. fb = At[Left] /\ fb \in Made /\ fb \in Block /\ Latest(FrontOf(fb)) = Wrap(Got[fb])
  BY <1>2, Ends, Kinds
<1>8. ConsumerStock'
  BY <1>1, <1>3, <1>4, <1>6, <1>7, StockStays DEF ConsumerStock, Stock
<1>9. ConsumerAt'
  BY <1>3, <1>6, <1>7 DEF ConsumerAt
<1> QED
  BY <1>3, <1>4, <1>5, <1>8, <1>9, ConsumerLearns

\* The consumer refreshes localTail.
LEMMA LoadTailStep ==
  ASSUME WInv, LoadTail
  PROVE  WInv'
<1>1. Shared /\ ConsumerStock
  BY DEF WInv, Shared
<1>2. Memory /\ Control /\ Histories /\ TailViews
  BY DEF WInv
<1>3. PICK f \in Made : f = fb /\ f = At[Left] /\ f \in Block /\ Latest(FrontOf(f)) = Wrap(Got[f])
  BY <1>2, Ends, Kinds
<1>4. PICK n \in Visible(C, TailOf(f)) :
        /\ localTail' = [localTail EXCEPT ![f] = ValueAt(C, TailOf(f), n)]
        /\ \/ /\ Wrap(Got[f]) # ValueAt(C, TailOf(f), n) /\ cpc' = "read"
              /\ Becomes("consumer", AcquireFence(Load(C, TailOf(f), n)))
           \/ /\ Wrap(Got[f]) = ValueAt(C, TailOf(f), n) /\ cpc' = "checkTailBlock"
              /\ Becomes("consumer", Load(C, TailOf(f), n))
  BY <1>3 DEF LoadTail
<1>5. UNCHANGED <<ppc, localFront, blocks, enqueued, dequeued, cblock, spc, walk>>
  BY DEF LoadTail, prodVars, sizeVars
<1>6. TailOf(f) \in Locations
  BY <1>3, Kinds
<1>7. /\ Memory' /\ mem' = mem /\ Pc' = Pc /\ \A l \in Locations : Cc[l] <= Cc'[l]
      /\ Cc'[TailOf(f)] = n /\ n \in Nat /\ n \in Cc[TailOf(f)]..last[TailOf(f)]
      /\ n \in 1..last[TailOf(f)] /\ ValueAt(C, TailOf(f), n) = mem[TailOf(f)][n].val
  BY <1>2, <1>4, <1>6, ConsumerLoads
<1>8. Got[f] + 1 <= n /\ n <= last[TailOf(f)] /\ Got[f] \in Nat
  <2>1. PICK q0 \in Got[f]..(Cc[TailOf(f)] - 1) : TRUE
    BY <1>1, <1>3 DEF ConsumerStock, Stock
  <2>2. Got[f] \in Nat /\ Cc[TailOf(f)] \in Nat /\ last[TailOf(f)] \in Nat
    BY <1>2, <1>3, <1>6, Ends, Numbers
  <2>3. n >= Cc[TailOf(f)] /\ n <= last[TailOf(f)]
    BY <1>7, <2>2
  <2> QED
    BY <1>7, <2>1, <2>2, <2>3
<1>9. PICK q \in Nat : /\ q = n - 1 /\ n = q + 1 /\ q \in Got[f]..Put[f] /\ q \in 0..Put[f]
                       /\ mem[TailOf(f)][n].val = Wrap(q) /\ Wrap(q) \in Slots
                       /\ Wrap(Got[f]) = Wrap(q) => n = Got[f] + 1
  BY <1>1, <1>7, <1>8, TailIs
<1>10. q \in Got[f]..(Cc'[TailOf(f)] - 1)
  BY <1>7, <1>8, <1>9
<1>11. /\ localTail' \in [Block -> Slots] /\ localTail'[f] = Wrap(q)
  BY <1>2, <1>3, <1>4, <1>7, <1>9 DEF Control
<1>12. last' = last /\ Got' = Got /\ At' = At /\ Left' = Left
  BY <1>7, SameMemory
<1>13. ASSUME NEW p \in Got[f]..(q - 1) PROVE Cc'[Slot(f, Wrap(p))] = last[Slot(f, Wrap(p))]
  <2>1. p \in Nat
    BY <1>8
  <2>2. Slot(f, Wrap(p)) \in Locations \ {TailOf(f)}
    BY <1>3, <2>1, WrapFacts, Kinds
  <2>3. Wrap(Got[f]) # Wrap(q)
    BY <1>8, <1>9
  <2>4. Becomes("consumer", AcquireFence(Load(C, TailOf(f), n)))
    BY <1>4, <1>7, <1>9, <2>3
  <2>5. mem[TailOf(f)][n].view[Slot(f, Wrap(p))] <= Cc'[Slot(f, Wrap(p))]
    BY <1>2, <1>6, <2>2, <2>4, ConsumerLoads
  <2>6. \/ mem[TailOf(f)][n].view[Slot(f, Wrap(p))] = last[Slot(f, Wrap(p))]
        \/ Cc[Slot(f, Wrap(p))] = last[Slot(f, Wrap(p))]
    BY <1>2, <1>3, <1>9 DEF TailViews
  <2> QED
    BY <1>2, <1>6, <1>7, <2>2, <2>5, <2>6, KnowsToo, StillKnown
<1>14. Control'
  BY <1>2, <1>4, <1>5, <1>11 DEF Control, Made
<1>15. ConsumerStock'
  BY <1>3, <1>10, <1>11, <1>12, <1>13 DEF ConsumerStock, Stock
<1>16. ConsumerAt'
  BY <1>3, <1>4, <1>7, <1>9, <1>11, <1>12 DEF ConsumerAt
<1> QED
  BY <1>5, <1>7, <1>14, <1>15, <1>16, ConsumerLearns

\* The block is empty: the consumer looks at tailBlock.
LEMMA CheckTailBlockStep ==
  ASSUME WInv, CheckTailBlock
  PROVE  WInv'
<1>1. Shared /\ ConsumerStock
  BY DEF WInv, Shared
<1>2. Memory /\ Control /\ Histories /\ TailBlockViews /\ ConsumerKnows
  BY DEF WInv
<1>3. fb = At[Left] /\ At[Left] \in Made /\ Left \in Nat /\ Entered \in Nat /\ 1 <= Left /\ Left <= Entered
  BY <1>2, Ends
<1>4. PICK n \in Visible(C, TailBlock) :
        \/ /\ At[Left] # ValueAt(C, TailBlock, n) /\ cpc' = "reloadTail"
           /\ Becomes("consumer", AcquireFence(Load(C, TailBlock, n)))
        \/ /\ cpc' = "idle" /\ Becomes("consumer", Load(C, TailBlock, n))
  BY <1>3 DEF CheckTailBlock
<1>5. UNCHANGED <<ppc, localFront, blocks, enqueued, dequeued, cblock, localTail, spc, walk>>
  BY DEF CheckTailBlock, prodVars, sizeVars
<1>6. /\ Memory' /\ mem' = mem /\ Pc' = Pc /\ \A l \in Locations : Cc[l] <= Cc'[l]
      /\ Cc'[TailBlock] = n /\ n \in Nat /\ n \in Cc[TailBlock]..Entered
      /\ n \in 1..Entered /\ ValueAt(C, TailBlock, n) = mem[TailBlock][n].val
  BY <1>2, <1>4, Kinds, ConsumerLoads DEF Entered
<1>7. Control'
  BY <1>2, <1>4, <1>5 DEF Control, Made
<1>8. last' = last /\ Got' = Got /\ At' = At /\ Left' = Left /\ Entered' = Entered
  BY <1>6, SameMemory
<1>9. ConsumerStock'
  BY <1>1, <1>3, <1>5, <1>6, <1>8, StockStays DEF ConsumerStock, Stock
<1>10. ConsumerAt'
  <2>1. CASE cpc' = "idle"
    BY <2>1 DEF ConsumerAt
  <2>2. CASE /\ At[Left] # ValueAt(C, TailBlock, n) /\ cpc' = "reloadTail"
             /\ Becomes("consumer", AcquireFence(Load(C, TailBlock, n)))
    <3>1. At[n] # At[Left]
      BY <1>2, <1>6, <2>2, Ends
    <3>2. n > Left /\ Left < Entered
      <4>1. Cc[TailBlock] >= Left /\ Cc[TailBlock] \in Nat
        BY <1>2, Kinds, Numbers DEF ConsumerKnows
      <4> QED
        BY <1>3, <1>6, <3>1, <4>1
    <3>3. Left \in Left..n /\ Left + 1 \in Left..n /\ Left + 1 \in 1..Entered
      BY <1>3, <1>6, <3>2
    <3>4. Complete(mem[TailBlock][n].view, At[Left]) /\ Ready(mem[TailBlock][n].view, At[Left + 1])
      <4>1. \A j \in Left..n : /\ j > Left => Ready(mem[TailBlock][n].view, At[j])
                               /\ j < n => Complete(mem[TailBlock][n].view, At[j])
        BY <1>2, <1>6 DEF TailBlockViews
      <4>2. Left + 1 > Left
        BY <1>3
      <4> QED
        BY <3>2, <3>3, <4>1, <4>2
    <3>5. \A x \in Locations \ {TailBlock} :
            mem[TailBlock][n].view[x] \in Nat /\ mem[TailBlock][n].view[x] <= Cc'[x]
      <4>1. n \in 1..last[TailBlock]
        BY <1>6 DEF Entered
      <4> QED
        BY <1>2, <2>2, <4>1, Kinds, ConsumerLoads, Messages
    <3>6. PICK f \in Made, a \in Made : f = At[Left] /\ a = At[Left + 1]
      BY <1>2, <1>3, <3>3, Ends
    <3>7. Complete(Cc, f)' /\ Ready(Cc, a)'
      BY <1>1, <1>6, <3>4, <3>5, <3>6, ReadyGrows
    <3> QED
      BY <1>6, <1>8, <2>2, <3>2, <3>6, <3>7 DEF ConsumerAt, Complete, Ready
  <2> QED
    BY <1>4, <2>1, <2>2
<1> QED
  BY <1>5, <1>6, <1>7, <1>9, <1>10, ConsumerLearns

\* The consumer looks at tail again.
LEMMA ReloadTailStep ==
  ASSUME WInv, ReloadTail
  PROVE  WInv'
<1>1. Shared /\ ConsumerAt
  BY DEF WInv, Shared
<1>2. Memory /\ Control /\ Histories
  BY DEF WInv
<1>3. PICK f \in Made : f = fb /\ f = At[Left] /\ f \in Block /\ Latest(FrontOf(f)) = Wrap(Got[f])
  BY <1>2, Ends, Kinds
<1>4. PICK n \in Visible(C, TailOf(f)) :
        /\ localTail' = [localTail EXCEPT ![f] = ValueAt(C, TailOf(f), n)]
        /\ Becomes("consumer", AcquireFence(Load(C, TailOf(f), n)))
        /\ cpc' = IF Wrap(Got[f]) # ValueAt(C, TailOf(f), n) THEN "read" ELSE "loadNext"
  BY <1>3 DEF ReloadTail
<1>5. cpc = "reloadTail" /\ UNCHANGED <<ppc, localFront, blocks, enqueued, dequeued, cblock, spc, walk>>
  BY DEF ReloadTail, prodVars, sizeVars
<1>6. TailOf(f) \in Locations
  BY <1>3, Kinds
<1>7. /\ Memory' /\ mem' = mem /\ Pc' = Pc /\ \A l \in Locations : Cc[l] <= Cc'[l]
      /\ Cc'[TailOf(f)] = n /\ n \in Nat /\ n \in Cc[TailOf(f)]..last[TailOf(f)]
      /\ ValueAt(C, TailOf(f), n) = mem[TailOf(f)][n].val
  BY <1>2, <1>4, <1>6, ConsumerLoads
<1>8. PICK a : a = At[Left + 1]
  OBVIOUS
<1>9. Left < Entered /\ Cc[TailBlock] > Left /\ Complete(Cc, f) /\ Ready(Cc, a)
  BY <1>1, <1>3, <1>5, <1>8 DEF ConsumerAt
<1>10. /\ Got[f] \in Nat /\ Put[f] \in Nat /\ Got[f] <= Put[f] /\ last[TailOf(f)] = Put[f] + 1
       /\ n = last[TailOf(f)] /\ n = Put[f] + 1
  <2>1. Got[f] \in Nat /\ Put[f] \in Nat /\ Got[f] <= Put[f] /\ last[TailOf(f)] = Put[f] + 1
    BY <1>1, <1>2, <1>3, Ends, Shapes DEF Shared, Counts
  <2> QED
    BY <1>7, <1>9, <2>1 DEF Complete
<1>11. /\ mem[TailOf(f)][n].val = Wrap(Put[f]) /\ Wrap(Put[f]) \in Slots
       /\ Wrap(Got[f]) = Wrap(Put[f]) => Got[f] = Put[f]
  <2>1. n - 1 = Put[f] /\ Got[f] + 1 <= n /\ n <= last[TailOf(f)]
    BY <1>10
  <2>2. /\ mem[TailOf(f)][n].val = Wrap(n - 1) /\ Wrap(n - 1) \in Slots
        /\ Wrap(Got[f]) = Wrap(n - 1) => n = Got[f] + 1
    BY <1>1, <1>7, <2>1, TailIs
  <2> QED
    BY <1>10, <2>1, <2>2
<1>12. /\ localTail' \in [Block -> Slots] /\ localTail'[f] = Wrap(Put[f])
  BY <1>2, <1>3, <1>4, <1>7, <1>11 DEF Control
<1>13. last' = last /\ Got' = Got /\ Put' = Put /\ At' = At /\ Left' = Left /\ Entered' = Entered
  BY <1>7, SameMemory
<1>14. a \in Made
  <2>1. Left + 1 \in 1..Entered
    BY <1>2, <1>9, Ends
  <2> QED
    BY <1>2, <1>8, <2>1, Ends
<1>15. Complete(Cc, f)' /\ Ready(Cc, a)'
  <2>1. \A x \in Locations \ {TailBlock} : Cc[x] \in Nat /\ Cc[x] <= Cc'[x]
    BY <1>2, <1>7, Numbers
  <2> QED
    BY <1>1, <1>7, <1>9, <1>14, <2>1, ReadyGrows
<1>16. ConsumerStock'
  <2>1. PICK q \in Nat : q = Put[f]
    BY <1>10
  <2>2. q \in Got[f]..(Cc'[TailOf(f)] - 1)
    BY <1>7, <1>10, <2>1
  <2>3. \A p \in Got[f]..(q - 1) : Cc'[Slot(f, Wrap(p))] = last[Slot(f, Wrap(p))]
    BY <1>13, <1>15, <2>1 DEF Complete
  <2> QED
    BY <1>3, <1>12, <1>13, <2>1, <2>2, <2>3 DEF ConsumerStock, Stock
<1>17. Control'
  BY <1>2, <1>4, <1>5, <1>12 DEF Control, Made
<1>18. ConsumerAt'
  <2>1. Cc'[TailBlock] > Left
    <3>1. Cc[TailBlock] <= Cc'[TailBlock] /\ Cc[TailBlock] \in Nat /\ Cc'[TailBlock] \in Nat /\ Left \in Nat
      BY <1>2, <1>7, Kinds, RangesHold, RangesHoldNext, Ends DEF Ranges
    <3> QED
      BY <1>9, <3>1
  <2>2. CASE Wrap(Got[f]) # Wrap(Put[f])
    BY <1>3, <1>4, <1>7, <1>11, <1>12, <1>13, <2>2 DEF ConsumerAt
  <2>3. CASE Wrap(Got[f]) = Wrap(Put[f])
    <3>1. cpc' = "loadNext" /\ Got[f] = Put[f]
      BY <1>4, <1>7, <1>11, <2>3
    <3> QED
      BY <1>3, <1>8, <1>9, <1>13, <1>15, <2>1, <3>1 DEF ConsumerAt, Complete, Ready
  <2> QED
    BY <2>2, <2>3
<1> QED
  BY <1>5, <1>7, <1>16, <1>17, <1>18, ConsumerLearns

\* The consumer follows next.
LEMMA FollowNextStep ==
  ASSUME WInv, FollowNext
  PROVE  WInv'
<1>1. Shared /\ ConsumerAt /\ ConsumerStock
  BY DEF WInv, Shared
<1>2. Memory /\ Control /\ Histories /\ Circle
  BY DEF WInv
<1>3. PICK f \in Made : f = fb /\ f = At[Left] /\ f \in Block
  BY <1>2, Ends
<1>4. PICK n \in Visible(C, NextOf(f)) :
        /\ Becomes("consumer", Load(C, NextOf(f), n))
        /\ cblock' = ValueAt(C, NextOf(f), n)
  BY <1>3 DEF FollowNext
<1>5. /\ cpc = "loadNext" /\ cpc' = "loadNextTail"
      /\ UNCHANGED <<ppc, localFront, blocks, enqueued, dequeued, localTail, spc, walk>>
  BY DEF FollowNext, prodVars, sizeVars
<1>6. NextOf(f) \in Locations
  BY <1>3, Kinds
<1>7. /\ Memory' /\ mem' = mem /\ Pc' = Pc /\ \A l \in Locations : Cc[l] <= Cc'[l]
      /\ n \in Nat /\ n \in Cc[NextOf(f)]..last[NextOf(f)]
      /\ ValueAt(C, NextOf(f), n) = mem[NextOf(f)][n].val
  BY <1>2, <1>4, <1>6, ConsumerLoads
<1>8. PICK a : a = At[Left + 1]
  OBVIOUS
<1>9. Left < Entered /\ Cc[TailBlock] > Left /\ Complete(Cc, f) /\ Ready(Cc, a) /\ Got[f] = Put[f]
  BY <1>1, <1>3, <1>5, <1>8 DEF ConsumerAt
<1>10. a \in Made /\ a \in Block
  <2>1. Left + 1 \in 1..Entered
    BY <1>2, <1>9, Ends
  <2> QED
    BY <1>2, <1>8, <2>1, Ends
<1>11. cblock' = a
  <2>1. n = last[NextOf(f)]
    <3>1. Cc[NextOf(f)] = last[NextOf(f)] /\ last[NextOf(f)] \in Nat
      BY <1>2, <1>6, <1>9, Numbers DEF Complete
    <3> QED
      BY <1>7, <3>1
  <2>2. Left \in Pc[FrontBlock]..(Entered - 1)
    BY <1>2, <1>9, Ends
  <2>3. now[NextOf(f)] = a
    BY <1>2, <1>3, <1>8, <2>2 DEF Circle
  <2> QED
    BY <1>2, <1>4, <1>6, <1>7, <2>1, <2>3, Messages
<1>12. last' = last /\ Got' = Got /\ Put' = Put /\ At' = At /\ Left' = Left /\ Entered' = Entered
  BY <1>7, SameMemory
<1>13. Complete(Cc, f)' /\ Ready(Cc, a)'
  <2>1. \A x \in Locations \ {TailBlock} : Cc[x] \in Nat /\ Cc[x] <= Cc'[x]
    BY <1>2, <1>7, Numbers
  <2> QED
    BY <1>1, <1>7, <1>9, <1>10, <2>1, ReadyGrows
<1>14. Control'
  BY <1>2, <1>5, <1>10, <1>11 DEF Control, Made
<1>15. ConsumerStock'
  <2>1. Stock(f)'
    BY <1>1, <1>3, <1>5, <1>7, StockStays DEF ConsumerStock
  <2> QED
    BY <1>3, <1>12, <2>1 DEF ConsumerStock, Stock
<1>16. ConsumerAt'
  <2>1. Cc'[TailBlock] > Left
    <3>1. Cc[TailBlock] <= Cc'[TailBlock] /\ Cc[TailBlock] \in Nat /\ Cc'[TailBlock] \in Nat /\ Left \in Nat
      BY <1>2, <1>7, Kinds, RangesHold, RangesHoldNext, Ends DEF Ranges
    <3> QED
      BY <1>9, <3>1
  <2> QED
    BY <1>3, <1>5, <1>8, <1>9, <1>11, <1>12, <1>13, <2>1 DEF ConsumerAt, Complete, Ready
<1> QED
  BY <1>5, <1>7, <1>14, <1>15, <1>16, ConsumerLearns

\* What the consumer finds of the block ahead: an element in it.
LEMMA AheadIs ==
  ASSUME WInv, cpc \in {"loadNextTail", "advanceFrontBlock", "readNext"}
  PROVE  /\ Left < Entered /\ Cc[TailBlock] > Left
         /\ cblock = At[Left + 1] /\ cblock \in Made /\ cblock \in Block /\ At[Left] # cblock
         /\ At[Left] \in Made /\ Complete(Cc, At[Left]) /\ Ready(Cc, cblock)
         /\ Got[At[Left]] = Put[At[Left]]
         /\ Latest(FrontOf(cblock)) = Wrap(Got[cblock])
<1>1. Memory /\ Control /\ Histories /\ Circle /\ ConsumerAt
  BY DEF WInv
<1>2. /\ Left < Entered /\ Cc[TailBlock] > Left /\ Complete(Cc, At[Left]) /\ Ready(Cc, At[Left + 1])
      /\ Got[At[Left]] = Put[At[Left]] /\ cblock = At[Left + 1]
  BY <1>1 DEF ConsumerAt
<1>3. Left + 1 \in 1..Entered /\ Left \in 1..Entered
  BY <1>1, <1>2, Ends
<1>4. cblock \in Made /\ cblock \in Block /\ At[Left] \in Made
  BY <1>1, <1>2, <1>3, Ends
<1>5. At[Left] # cblock
  <2>1. Left \in Pc[FrontBlock]..Entered /\ Left + 1 \in Pc[FrontBlock]..Entered /\ Left # Left + 1
    BY <1>1, <1>2, Ends
  <2> QED
    BY <1>1, <1>2, <2>1 DEF Circle
<1>6. Latest(FrontOf(cblock)) = Wrap(Got[cblock])
  BY <1>1, <1>4, Ends, Kinds
<1> QED
  BY <1>2, <1>4, <1>5, <1>6

\* The consumer refreshes localTail of the block it will enter.
LEMMA LoadNextTailStep ==
  ASSUME WInv, LoadNextTail
  PROVE  WInv'
<1>1. Shared /\ ConsumerStock
  BY DEF WInv, Shared
<1>2. Memory /\ Control /\ Histories /\ TailViews
  BY DEF WInv
<1>3. cpc = "loadNextTail"
  BY DEF LoadNextTail
<1>4. PICK a \in Made, f \in Made :
        /\ a = cblock /\ a = At[Left + 1] /\ a \in Block /\ Latest(FrontOf(a)) = Wrap(Got[a])
        /\ f = At[Left] /\ f # a /\ Got[f] = Put[f] /\ Complete(Cc, f) /\ Ready(Cc, a)
        /\ Left < Entered /\ Cc[TailBlock] > Left
  BY <1>3, AheadIs
<1>5. PICK n \in Visible(C, TailOf(a)) :
        /\ localTail' = [localTail EXCEPT ![a] = ValueAt(C, TailOf(a), n)]
        /\ Becomes("consumer", AcquireFence(Load(C, TailOf(a), n)))
        /\ cpc' = IF Wrap(Got[a]) # ValueAt(C, TailOf(a), n) THEN "advanceFrontBlock" ELSE "failed"
  BY <1>4 DEF LoadNextTail
<1>6. UNCHANGED <<ppc, localFront, blocks, enqueued, dequeued, cblock, spc, walk>>
  BY DEF LoadNextTail, prodVars, sizeVars
<1>7. TailOf(a) \in Locations
  BY <1>4, Kinds
<1>8. /\ Memory' /\ mem' = mem /\ Pc' = Pc /\ \A l \in Locations : Cc[l] <= Cc'[l]
      /\ Cc'[TailOf(a)] = n /\ n \in Nat /\ n \in Cc[TailOf(a)]..last[TailOf(a)]
      /\ n \in 1..last[TailOf(a)] /\ ValueAt(C, TailOf(a), n) = mem[TailOf(a)][n].val
      /\ \A x \in Locations \ {TailOf(a)} : mem[TailOf(a)][n].view[x] <= Cc'[x]
  BY <1>2, <1>5, <1>7, ConsumerLoads
<1>9. Got[a] + 2 <= n /\ Got[a] + 1 <= n /\ n <= last[TailOf(a)] /\ Got[a] \in Nat
  <2>1. Got[a] \in Nat /\ Cc[TailOf(a)] \in Nat /\ last[TailOf(a)] \in Nat /\ Cc[TailOf(a)] >= Got[a] + 2
    BY <1>2, <1>4, <1>7, Ends, Numbers DEF Ready
  <2> QED
    BY <1>8, <2>1
<1>10. PICK q \in Nat : /\ q = n - 1 /\ n = q + 1 /\ q \in Got[a]..Put[a] /\ q \in 0..Put[a]
                        /\ mem[TailOf(a)][n].val = Wrap(q) /\ Wrap(q) \in Slots
                        /\ Wrap(Got[a]) = Wrap(q) => n = Got[a] + 1
  BY <1>1, <1>8, <1>9, TailIs
<1>11. Wrap(Got[a]) # Wrap(q) /\ cpc' = "advanceFrontBlock"
  BY <1>5, <1>8, <1>9, <1>10
<1>12. /\ localTail' \in [Block -> Slots] /\ localTail'[a] = Wrap(q) /\ localTail'[f] = localTail[f]
  BY <1>2, <1>4, <1>5, <1>8, <1>10, Shapes DEF Control
<1>13. last' = last /\ Got' = Got /\ Put' = Put /\ At' = At /\ Left' = Left /\ Entered' = Entered
  BY <1>8, SameMemory
<1>14. Complete(Cc, f)' /\ Ready(Cc, a)'
  <2>1. \A x \in Locations \ {TailBlock} : Cc[x] \in Nat /\ Cc[x] <= Cc'[x]
    BY <1>2, <1>8, Numbers
  <2> QED
    BY <1>1, <1>4, <1>8, <2>1, ReadyGrows
<1>15. Stock(a)'
  <2>1. q \in Got[a]..(Cc'[TailOf(a)] - 1)
    BY <1>8, <1>9, <1>10
  <2>2. ASSUME NEW p \in Got[a]..(q - 1) PROVE Cc'[Slot(a, Wrap(p))] = last[Slot(a, Wrap(p))]
    <3>1. CASE p = Got[a]
      BY <1>13, <1>14, <3>1 DEF Ready
    <3>2. CASE p # Got[a]
      <4>1. p \in Nat
        BY <1>9
      <4>2. Slot(a, Wrap(p)) \in Locations \ {TailOf(a)}
        BY <1>4, <4>1, WrapFacts, Kinds
      <4>3. \/ mem[TailOf(a)][n].view[Slot(a, Wrap(p))] = last[Slot(a, Wrap(p))]
            \/ Cc[Slot(a, Wrap(p))] = last[Slot(a, Wrap(p))]
        BY <1>2, <1>10, <3>2 DEF TailViews
      <4> QED
        BY <1>2, <1>7, <1>8, <4>2, <4>3, KnowsToo, StillKnown
    <3> QED
      BY <3>1, <3>2
  <2> QED
    BY <1>12, <1>13, <2>1, <2>2 DEF Stock
<1>16. ConsumerStock'
  <2>1. Stock(f)'
    BY <1>1, <1>4, <1>8, <1>12, StockStays DEF ConsumerStock
  <2> QED
    BY <1>4, <1>13, <2>1 DEF ConsumerStock, Stock
<1>17. Control'
  BY <1>2, <1>6, <1>11, <1>12 DEF Control, Made
<1>18. ConsumerAt'
  <2>1. Cc'[TailBlock] > Left
    <3>1. Cc[TailBlock] <= Cc'[TailBlock] /\ Cc[TailBlock] \in Nat /\ Cc'[TailBlock] \in Nat /\ Left \in Nat
      BY <1>2, <1>8, Kinds, RangesHold, RangesHoldNext, Ends DEF Ranges
    <3> QED
      BY <1>4, <3>1
  <2>2. Wrap(Got[a]) # localTail'[a]
    BY <1>11, <1>12
  <2>4. At'[Left' + 1] = a /\ At'[Left'] = f
    BY <1>4, <1>13
  <2>5. Stock(At[Left + 1])'
    BY <1>15, <2>4 DEF Stock
  <2>6. Complete(Cc, At[Left])' /\ Ready(Cc, At[Left + 1])'
    BY <1>14, <2>4 DEF Complete, Ready
  <2>7. cblock' = a /\ Wrap(Got'[a]) # localTail'[a] /\ Got'[f] = Put'[f] /\ Left' < Entered' /\ Cc'[TailBlock] > Left'
    BY <1>4, <1>6, <1>13, <2>1, <2>2
  <2> QED
    BY <1>11, <2>4, <2>5, <2>6, <2>7 DEF ConsumerAt
<1> QED
  BY <1>6, <1>8, <1>16, <1>17, <1>18, ConsumerLearns

\* peek's assertion on that block's tail.
LEMMA AssertNextTailStep ==
  ASSUME WInv, AssertNextTail
  PROVE  WInv'
<1>1. Shared /\ ConsumerStock
  BY DEF WInv, Shared
<1>2. Memory /\ Control /\ Histories
  BY DEF WInv
<1>3. cpc = "loadNextTail"
  BY DEF AssertNextTail
<1>4. PICK a \in Made, f \in Made :
        /\ a = cblock /\ a = At[Left + 1] /\ a \in Block /\ Latest(FrontOf(a)) = Wrap(Got[a])
        /\ f = At[Left] /\ f # a /\ Got[f] = Put[f] /\ Complete(Cc, f) /\ Ready(Cc, a)
        /\ Left < Entered /\ Cc[TailBlock] > Left
  BY <1>3, AheadIs
<1>5. PICK n \in Visible(AcquireFence(C), TailOf(a)) :
        /\ Becomes("consumer", Load(AcquireFence(C), TailOf(a), n))
        /\ cpc' = IF Wrap(Got[a]) # ValueAt(AcquireFence(C), TailOf(a), n) THEN "readNext" ELSE "failed"
  BY <1>4 DEF AssertNextTail
<1>6. UNCHANGED <<ppc, localFront, blocks, enqueued, dequeued, cblock, localTail, spc, walk>>
  BY DEF AssertNextTail, prodVars, sizeVars
<1>7. TailOf(a) \in Locations
  BY <1>4, Kinds
<1>8. PICK s, u, r : s = C /\ u = AcquireFence(s) /\ r = Load(u, TailOf(a), n)
  OBVIOUS
<1>9. Sound(s) /\ s.mem = mem /\ s.cur = Cc
  BY <1>2, <1>8, SeesParts DEF Memory, C, Cc, Threads
<1>10. Sound(u) /\ u.mem = mem /\ \A x \in Locations : Cc[x] <= u.cur[x]
  BY <1>8, <1>9, AcquireIs
<1>11. Sound(r) /\ r.mem = mem /\ \A x \in Locations : u.cur[x] <= r.cur[x]
  BY <1>5, <1>7, <1>8, <1>10, LoadIs
<1>12. \A x \in Locations : Len(mem[x]) \in Nat /\ Len(mem[x]) <= Len(r.mem[x])
  BY <1>9, <1>11, SoundFacts
<1>13. /\ Memory' /\ mem' = r.mem /\ views'["consumer"].cur = r.cur
       /\ views'["producer"] = views["producer"]
  BY <1>2, <1>5, <1>8, <1>11, <1>12, BecomesIs DEF Threads
<1>14. mem' = mem /\ Pc' = Pc /\ \A x \in Locations : Cc[x] <= Cc'[x]
  <2>1. ASSUME NEW x \in Locations PROVE Cc[x] <= Cc'[x]
    <3>1. s.cur[x] \in Nat /\ u.cur[x] \in Nat /\ r.cur[x] \in Nat
      BY <1>9, <1>10, <1>11, SoundFacts
    <3>2. Cc[x] <= u.cur[x] /\ u.cur[x] <= r.cur[x]
      BY <1>10, <1>11
    <3> QED
      BY <1>9, <1>13, <3>1, <3>2 DEF Cc
  <2> QED
    BY <1>11, <1>13, <2>1 DEF Pc
<1>15. n \in Nat /\ Got[a] + 2 <= n /\ Got[a] + 1 <= n /\ n <= last[TailOf(a)] /\ Got[a] \in Nat
  <2>1. n \in u.cur[TailOf(a)]..Len(mem[TailOf(a)])
    BY <1>5, <1>8, <1>10 DEF Visible
  <2>2. u.cur[TailOf(a)] \in Nat /\ Cc[TailOf(a)] <= u.cur[TailOf(a)]
    BY <1>7, <1>10, SoundFacts
  <2>3. Cc[TailOf(a)] \in Nat /\ last[TailOf(a)] \in Nat /\ last[TailOf(a)] = Len(mem[TailOf(a)])
    BY <1>2, <1>7, Numbers
  <2>4. Got[a] \in Nat /\ Cc[TailOf(a)] >= Got[a] + 2
    BY <1>2, <1>4, Ends DEF Ready
  <2> QED
    BY <2>1, <2>2, <2>3, <2>4
<1>16. ValueAt(AcquireFence(C), TailOf(a), n) = mem[TailOf(a)][n].val
  BY <1>8, <1>10 DEF ValueAt
<1>17. cpc' = "readNext"
  <2>1. /\ mem[TailOf(a)][n].val = Wrap(n - 1)
        /\ Wrap(Got[a]) = Wrap(n - 1) => n = Got[a] + 1
    BY <1>1, <1>15, TailIs
  <2>2. n # Got[a] + 1
    BY <1>15
  <2> QED
    BY <1>5, <1>16, <2>1, <2>2
<1>18. last' = last /\ Got' = Got /\ Put' = Put /\ At' = At /\ Left' = Left /\ Entered' = Entered
  BY <1>14, SameMemory
<1>19. Complete(Cc, f)' /\ Ready(Cc, a)'
  <2>1. \A x \in Locations \ {TailBlock} : Cc[x] \in Nat /\ Cc[x] <= Cc'[x]
    BY <1>2, <1>14, Numbers
  <2> QED
    BY <1>1, <1>4, <1>13, <1>14, <2>1, ReadyGrows
<1>20. ConsumerStock'
  <2>1. Stock(f)'
    BY <1>1, <1>4, <1>6, <1>13, <1>14, StockStays DEF ConsumerStock
  <2> QED
    BY <1>4, <1>18, <2>1 DEF ConsumerStock, Stock
<1>21. Control'
  BY <1>2, <1>6, <1>17 DEF Control, Made
<1>22. ConsumerAt'
  <2>1. Cc'[TailBlock] > Left
    <3>1. Cc[TailBlock] <= Cc'[TailBlock] /\ Cc[TailBlock] \in Nat /\ Cc'[TailBlock] \in Nat /\ Left \in Nat
      BY <1>2, <1>13, <1>14, Kinds, RangesHold, RangesHoldNext, Ends DEF Ranges
    <3> QED
      BY <1>4, <3>1
  <2> QED
    BY <1>4, <1>6, <1>17, <1>18, <1>19, <2>1 DEF ConsumerAt, Complete, Ready
<1> QED
  BY <1>6, <1>13, <1>14, <1>20, <1>21, <1>22, ConsumerLearns

\* peek returns the element it found.
LEMMA PeekElementStep ==
  ASSUME WInv, PeekElement
  PROVE  WInv'
<1>1. Shared /\ ConsumerStock
  BY DEF WInv, Shared
<1>2. Memory /\ Control /\ Histories
  BY DEF WInv
<1>3. /\ UNCHANGED <<mem, views, ppc, localFront, blocks, enqueued, dequeued, localTail, spc, walk>>
      /\ cpc' = "idle" /\ cblock' = Null
  BY DEF PeekElement, prodVars, sizeVars
<1>4. Memory' /\ Pc' = Pc /\ \A l \in Locations : Cc[l] <= Cc'[l]
  <2>1. Pc' = Pc /\ Cc' = Cc /\ \A l \in Locations : Cc[l] \in Nat
    BY <1>2, <1>3, RangesHold DEF Pc, Cc, Ranges
  <2>2. Memory'
    BY <1>2, <1>3 DEF Memory, Sees
  <2> QED
    BY <2>1, <2>2
<1>5. Control'
  BY <1>2, <1>3 DEF Control, Made
<1>6. ConsumerStock'
  <2>1. PICK f \in Made : f = At[Left]
    BY <1>2, Ends
  <2>2. At' = At /\ Left' = Left
    BY <1>3, SameMemory
  <2>3. Stock(f)'
    BY <1>1, <1>3, <1>4, <2>1, StockStays DEF ConsumerStock
  <2> QED
    BY <2>1, <2>2, <2>3 DEF ConsumerStock, Stock
<1>7. ConsumerAt'
  BY <1>3 DEF ConsumerAt
<1> QED
  BY <1>3, <1>4, <1>5, <1>6, <1>7, ConsumerLearns

-----------------------------------------------------------------------------
(* Steps that store *)

\* Thread t stores into N, into l last and behind a release fence: that value carries all
\* it knows.
Publishes(t, N, l) ==
  /\ Memory'
  /\ \A u \in Threads \ {t} : views'[u] = views[u]
  /\ \A x \in Locations \ N :
       /\ mem'[x] = mem[x] /\ last'[x] = last[x] /\ now'[x] = now[x]
       /\ views'[t].cur[x] = views[t].cur[x]
  /\ \A x \in N : last'[x] = last[x] + 1 /\ views'[t].cur[x] = last'[x]
  /\ \A x \in Locations : \A k \in 1..last[x] : mem'[x][k] = mem[x][k]
  /\ \A x \in Locations : mem'[l][last'[l]].view[x] = views'[t].cur[x]

\* A release fence and a store: what it publishes.
LEMMA OneStore ==
  ASSUME Memory, NEW t \in Threads, NEW l \in Locations, NEW v \in Nat,
         Becomes(t, Store(ReleaseFence(Sees(t)), l, v))
  PROVE  Publishes(t, {l}, l) /\ now'[l] = v
<1>1. PICK s, r : s = Sees(t) /\ r = Store(ReleaseFence(s), l, v)
  OBVIOUS
<1>2. Sound(s) /\ s.mem = mem /\ s.cur = views[t].cur
  BY <1>1, SeesParts DEF Memory
<1>3. Releases(s, r, l, v)
  BY <1>1, <1>2, ReleaseStoreIs
<1>4. \A x \in Locations : Len(s.mem[x]) \in Nat /\ Len(s.mem[x]) = last[x]
  BY <1>2, Numbers
<1>5. Place(s, l) = last[l] + 1
  BY <1>4 DEF Place
<1>6. /\ Sound(r)
      /\ \A x \in Locations \ {l} : r.mem[x] = s.mem[x] /\ r.cur[x] = s.cur[x]
      /\ Len(r.mem[l]) = last[l] + 1 /\ r.cur[l] = last[l] + 1
      /\ \A k \in 1..last[l] : r.mem[l][k] = s.mem[l][k]
      /\ r.mem[l][last[l] + 1].val = v
      /\ \A x \in Locations : r.mem[l][last[l] + 1].view[x] = r.cur[x]
  BY <1>3, <1>4, <1>5 DEF Releases
<1>7. ASSUME NEW x \in Locations PROVE Len(mem[x]) <= Len(r.mem[x])
  <2>1. CASE x = l
    BY <1>2, <1>4, <1>6, <2>1
  <2>2. CASE x # l
    BY <1>2, <1>4, <1>6, <2>2
  <2> QED
    BY <2>1, <2>2
<1>8. /\ Memory' /\ mem' = r.mem /\ views'[t].cur = r.cur
      /\ \A u \in Threads \ {t} : views'[u] = views[u]
  BY <1>1, <1>6, <1>7, BecomesIs
<1>9. \A x \in Locations : last'[x] = Len(r.mem[x]) /\ now'[x] = r.mem[x][last'[x]].val
  BY <1>8 DEF last, now
<1>10. \A x \in Locations : now[x] = mem[x][last[x]].val
  BY Messages
<1>11. last'[l] = last[l] + 1
  BY <1>6, <1>9
<1>12. \A x \in Locations \ {l} :
         mem'[x] = mem[x] /\ last'[x] = last[x] /\ now'[x] = now[x] /\ views'[t].cur[x] = views[t].cur[x]
  BY <1>2, <1>4, <1>6, <1>8, <1>9, <1>10
<1>13. \A x \in Locations : \A k \in 1..last[x] : mem'[x][k] = mem[x][k]
  BY <1>2, <1>6, <1>8, <1>12
<1> QED
  BY <1>6, <1>8, <1>9, <1>11, <1>12, <1>13 DEF Publishes

\* Stores, a release fence and one more store: what it publishes.
LEMMA MoreStores ==
  ASSUME Memory, NEW t \in Threads, NEW new, DOMAIN new \subseteq Locations,
         \A x \in DOMAIN new : new[x] \in Nat,
         NEW l \in Locations, l \notin DOMAIN new, NEW v \in Nat,
         Becomes(t, Store(ReleaseFence(Stores(Sees(t), new)), l, v))
  PROVE  /\ Publishes(t, DOMAIN new \cup {l}, l) /\ now'[l] = v
         /\ \A x \in DOMAIN new : now'[x] = new[x]
<1>1. PICK s, q, r : s = Sees(t) /\ q = Stores(s, new) /\ r = Store(ReleaseFence(q), l, v)
  OBVIOUS
<1>2. Sound(s) /\ s.mem = mem /\ s.cur = views[t].cur
  BY <1>1, SeesParts DEF Memory
<1>3. Adds(s, q, new)
  BY <1>1, <1>2, StoresIs
<1>4. Sound(q)
  BY <1>3 DEF Adds
<1>5. Releases(q, r, l, v)
  BY <1>1, <1>4, ReleaseStoreIs
<1>6. \A x \in Locations : Len(s.mem[x]) \in Nat /\ Len(s.mem[x]) = last[x]
  BY <1>2, Numbers
<1>7. \A x \in Locations : Place(s, x) = last[x] + 1
  BY <1>6 DEF Place
<1>8. /\ \A x \in Locations \ DOMAIN new : q.mem[x] = s.mem[x] /\ q.cur[x] = s.cur[x]
      /\ \A x \in DOMAIN new : /\ Len(q.mem[x]) = last[x] + 1 /\ q.cur[x] = last[x] + 1
                               /\ q.mem[x][last[x] + 1].val = new[x]
      /\ \A x \in DOMAIN new : \A k \in 1..last[x] : q.mem[x][k] = s.mem[x][k]
  BY <1>3, <1>6, <1>7 DEF Adds
<1>9. Place(q, l) = last[l] + 1
  BY <1>6, <1>8 DEF Place
<1>10. /\ Sound(r)
       /\ \A x \in Locations \ {l} : r.mem[x] = q.mem[x] /\ r.cur[x] = q.cur[x]
       /\ Len(r.mem[l]) = last[l] + 1 /\ r.cur[l] = last[l] + 1
       /\ \A k \in 1..Len(q.mem[l]) : r.mem[l][k] = q.mem[l][k]
       /\ r.mem[l][last[l] + 1].val = v
       /\ \A x \in Locations : r.mem[l][last[l] + 1].view[x] = r.cur[x]
  BY <1>5, <1>9 DEF Releases
<1>11. \A k \in 1..last[l] : r.mem[l][k] = mem[l][k]
  BY <1>2, <1>6, <1>8, <1>10
<1>12. \A x \in DOMAIN new : /\ Len(r.mem[x]) = last[x] + 1 /\ r.cur[x] = last[x] + 1
                             /\ r.mem[x][last[x] + 1].val = new[x]
  BY <1>8, <1>10
<1>13. \A x \in Locations \ (DOMAIN new \cup {l}) : r.mem[x] = mem[x] /\ r.cur[x] = views[t].cur[x]
  BY <1>2, <1>8, <1>10
<1>14. ASSUME NEW x \in Locations PROVE Len(mem[x]) <= Len(r.mem[x])
  <2>1. Len(mem[x]) \in Nat /\ Len(mem[x]) = last[x]
    BY <1>2, <1>6
  <2>2. CASE x = l
    BY <1>10, <2>1, <2>2
  <2>3. CASE x \in DOMAIN new
    BY <1>12, <2>1, <2>3
  <2>4. CASE x \notin DOMAIN new \cup {l}
    BY <1>13, <2>1, <2>4
  <2> QED
    BY <2>2, <2>3, <2>4
<1>15. /\ Memory' /\ mem' = r.mem /\ views'[t].cur = r.cur
       /\ \A u \in Threads \ {t} : views'[u] = views[u]
  BY <1>1, <1>10, <1>14, BecomesIs
<1>16. \A x \in Locations : last'[x] = Len(r.mem[x]) /\ now'[x] = r.mem[x][last'[x]].val
  BY <1>15 DEF last, now
<1>17. \A x \in Locations : now[x] = mem[x][last[x]].val
  BY Messages
<1>18. \A x \in DOMAIN new \cup {l} : last'[x] = last[x] + 1 /\ views'[t].cur[x] = last'[x]
  BY <1>10, <1>12, <1>15, <1>16
<1>19. \A x \in Locations \ (DOMAIN new \cup {l}) :
         mem'[x] = mem[x] /\ last'[x] = last[x] /\ now'[x] = now[x] /\ views'[t].cur[x] = views[t].cur[x]
  BY <1>2, <1>6, <1>13, <1>15, <1>16, <1>17
<1>20. ASSUME NEW x \in Locations, NEW k \in 1..last[x] PROVE mem'[x][k] = mem[x][k]
  <2>1. CASE x = l
    BY <1>11, <1>15, <2>1
  <2>2. CASE x \in DOMAIN new
    BY <1>2, <1>8, <1>10, <1>15, <2>2
  <2>3. CASE x \notin DOMAIN new \cup {l}
    BY <1>13, <1>15, <2>3
  <2> QED
    BY <2>1, <2>2, <2>3
<1>21. now'[l] = v /\ \A x \in DOMAIN new : now'[x] = new[x]
  BY <1>10, <1>12, <1>16, <1>18
<1>22. \A x \in Locations : mem'[l][last'[l]].view[x] = views'[t].cur[x]
  BY <1>10, <1>15, <1>18
<1> QED
  BY <1>15, <1>18, <1>19, <1>20, <1>21, <1>22 DEF Publishes

\* A block is as ready as it was, and the consumer's stock in it is what it was, if its
\* elements are still those that were there, or one more.
LEMMA StockKept ==
  ASSUME Memory, Control, Histories, NEW b \in Made, Cc' = Cc, Got'[b] = Got[b],
         localTail'[b] = localTail[b],
         \A p \in Got[b]..(Put[b] - 1) : last'[Slot(b, Wrap(p))] = last[Slot(b, Wrap(p))]
  PROVE  Stock(b) => Stock(b)'
<1> SUFFICES ASSUME Stock(b) PROVE Stock(b)'
  OBVIOUS
<1>1. PICK q \in Got[b]..(Cc[TailOf(b)] - 1) :
        /\ localTail[b] = Wrap(q)
        /\ \A p \in Got[b]..(q - 1) : Cc[Slot(b, Wrap(p))] = last[Slot(b, Wrap(p))]
  BY DEF Stock
<1>2. Got[b] \in Nat /\ Put[b] \in Nat /\ b \in Block
  BY Ends
<1>3. Cc[TailOf(b)] \in Nat /\ Cc[TailOf(b)] <= last[TailOf(b)] /\ last[TailOf(b)] = Put[b] + 1
  BY <1>2, Kinds, Numbers, Shapes
<1>4. \A p \in Got[b]..(q - 1) : p \in Got[b]..(Put[b] - 1)
  BY <1>1, <1>2, <1>3
<1>5. \A p \in Got[b]..(q - 1) : Cc[Slot(b, Wrap(p))] = last'[Slot(b, Wrap(p))]
  BY <1>1, <1>4
<1> QED
  BY <1>1, <1>5 DEF Stock

\* The producer puts an element into its block.
LEMMA ConstructStep ==
  ASSUME WInv, Construct
  PROVE  WInv'
<1>1. /\ Memory /\ Control /\ Histories /\ Circle /\ Counts /\ Cells
      /\ FrontViews /\ FrontBlockViews /\ TailBlockViews /\ TailViews
      /\ ProducerRoom /\ ProducerKnows /\ ProducerAt
      /\ ConsumerStock /\ ConsumerKnows /\ ConsumerAt
  BY DEF WInv
<1>2. PICK t \in Made : t = tb /\ t = At[Entered] /\ t \in Block
  BY <1>1, Ends
<1>3. PICK p0 \in Nat : p0 = Put[t]
  BY <1>1, Ends
<1>4. PICK S, T : S = Slot(t, Wrap(p0)) /\ T = TailOf(t)
  OBVIOUS
<1>5. PICK e \in Nat, n \in Nat, h \in Nat : e = Entered /\ n = Left /\ h = Pc[FrontBlock]
  BY <1>1, Ends
<1>6. 1 <= h /\ h <= n /\ n <= e /\ \A j \in 1..e : At[j] \in Made /\ At[j] \in Block
  BY <1>1, <1>5, Ends
<1>7. \A j \in h..e : At[j] = t => j = e
  BY <1>1, <1>2, <1>5, <1>6 DEF Circle
<1>8. /\ \A b \in Made : b \in Block /\ Got[b] \in Nat /\ Put[b] \in Nat /\ Got[b] <= Put[b]
      /\ BlockSize \in Nat
  BY <1>1, Ends, WeakAssumption DEF Counts
<1>9. /\ Wrap(p0) \in Slots /\ Succ(Wrap(p0)) = Wrap(p0 + 1)
      /\ \A p \in Nat : Wrap(p) \in Slots
  BY WrapFacts
\* The step.
<1>10. /\ ppc = "construct" /\ ppc' = "idle" /\ enqueued' = enqueued + 1
       /\ UNCHANGED <<localFront, blocks, cpc, cblock, dequeued, localTail, spc, walk>>
  BY DEF Construct, consVars, sizeVars
<1>11. /\ S \in Locations /\ T \in Locations /\ S # T
       /\ FrontBlock \in Locations \ {S, T} /\ TailBlock \in Locations \ {S, T}
       /\ \A b \in Block : FrontOf(b) \in Locations \ {S, T} /\ NextOf(b) \in Locations \ {S, T}
                           /\ Built(b) \in Locations \ {S, T}
       /\ \A b \in Block \ {t} : TailOf(b) \in Locations \ {S, T}
       /\ \A b \in Block, i \in Slots : b # t \/ i # Wrap(p0) => Slot(b, i) \in Locations \ {S, T}
  BY <1>2, <1>4, <1>9, Kinds
<1>12. /\ Publishes("producer", {S, T}, T) /\ now'[S] = enqueued + 1 /\ now'[T] = Wrap(p0 + 1)
  <2>1. PICK v \in Nat : v = enqueued + 1
    BY <1>1 DEF Control
  <2>2. PICK new : new = [k \in {S} |-> v]
    OBVIOUS
  <2>3. DOMAIN new = {S} /\ new[S] = v
    BY <2>2
  <2>4. PICK w \in Nat : w = Wrap(p0 + 1)
    <3>1. Wrap(p0 + 1) \in Slots
      BY WrapFacts
    <3> QED
      BY <3>1 DEF Slots
  <2>5. Latest(TailOf(tb)) = Wrap(p0)
    BY <1>1, <1>2, <1>3, Ends, Kinds
  <2>6. Becomes("producer", Store(ReleaseFence(Stores(Sees("producer"), new)), T, w))
    BY <1>2, <1>4, <1>9, <2>1, <2>2, <2>4, <2>5 DEF Construct, Store, P
  <2>7. "producer" \in Threads
    BY DEF Threads
  <2>8. /\ Publishes("producer", DOMAIN new \cup {T}, T) /\ now'[T] = w
        /\ \A x \in DOMAIN new : now'[x] = new[x]
    <3>1. /\ DOMAIN new \subseteq Locations /\ T \notin DOMAIN new /\ T \in Locations
          /\ \A x \in DOMAIN new : new[x] \in Nat
      BY <1>11, <2>1, <2>3
    <3> QED
      BY <1>1, <2>4, <2>6, <2>7, <3>1, MoreStores
  <2>9. DOMAIN new \cup {T} = {S, T}
    BY <2>3
  <2> QED
    BY <2>1, <2>3, <2>4, <2>8, <2>9
<1>13. /\ Memory' /\ Cc' = Cc
       /\ \A x \in Locations \ {S, T} : mem'[x] = mem[x] /\ last'[x] = last[x] /\ now'[x] = now[x] /\ Pc'[x] = Pc[x]
       /\ last'[S] = last[S] + 1 /\ last'[T] = last[T] + 1 /\ Pc'[S] = last'[S] /\ Pc'[T] = last'[T]
       /\ \A x \in Locations : \A k \in 1..last[x] : mem'[x][k] = mem[x][k]
       /\ \A x \in Locations : mem'[T][last'[T]].view[x] = Pc'[x]
  BY <1>11, <1>12 DEF Publishes, Pc, Cc, Threads
<1>14. /\ Put'[t] = p0 + 1 /\ \A b \in Block \ {t} : Put'[b] = Put[b]
       /\ \A b \in Block : Got'[b] = Got[b]
       /\ At' = At /\ Entered' = e /\ Left' = n /\ Made' = Made /\ Pc'[FrontBlock] = h
  <2>1. \A b \in Block : Put'[b] = last'[TailOf(b)] - 1 /\ Got'[b] = last'[FrontOf(b)] - Origin(b)
    BY DEF Put, Got
  <2>2. \A b \in Block : Put[b] = last[TailOf(b)] - 1 /\ Got[b] = last[FrontOf(b)] - Origin(b)
    BY DEF Put, Got
  <2>3. last[T] = p0 + 1
    BY <1>1, <1>2, <1>3, <1>4, Shapes
  <2>4. Put'[t] = p0 + 1
    BY <1>2, <1>4, <1>13, <2>1, <2>3
  <2>5. mem'[TailBlock] = mem[TailBlock] /\ last'[TailBlock] = last[TailBlock] /\ last'[FrontBlock] = last[FrontBlock]
    BY <1>11, <1>13
  <2>6. At' = At
    BY <2>5 DEF At
  <2> QED
    BY <1>5, <1>10, <1>11, <1>13, <2>1, <2>2, <2>4, <2>5, <2>6 DEF Entered, Left, Made
\* The slot is free.
<1>15. PICK g0 \in Nat : /\ g0 \in 0..(Pc[FrontOf(t)] - Origin(t)) /\ localFront[t] = Wrap(g0)
                         /\ p0 - g0 < BlockSize
                         /\ \A i \in Slots : Spare(g0, p0, i) => Pc[Slot(t, i)] = last[Slot(t, i)]
  BY <1>1, <1>2, <1>3 DEF ProducerRoom, Room
<1>16. g0 <= Got[t] /\ Got[t] <= p0
  <2>1. /\ Pc[FrontOf(t)] \in Nat /\ last[FrontOf(t)] \in Nat /\ Pc[FrontOf(t)] <= last[FrontOf(t)]
        /\ Got[t] = last[FrontOf(t)] - Origin(t) /\ Origin(t) \in 1..2
    BY <1>1, <1>2, Kinds, Numbers, Shapes
  <2> QED
    BY <1>3, <1>8, <1>15, <2>1
<1>17. p0 + 1 - g0 < BlockSize
  <2>1. p0 + 1 # g0 + BlockSize
    <3>1. Wrap(p0 + 1) # Wrap(g0)
      BY <1>1, <1>2, <1>3, <1>9, <1>10, <1>15 DEF ProducerAt
    <3> QED
      BY <3>1, WrapPeriod
  <2> QED
    BY <1>8, <1>15, <2>1
<1>18. \A p \in g0..(p0 - 1) : p \in Nat /\ Wrap(p) # Wrap(p0)
  BY <1>8, <1>17, WrapFacts
<1>19. \A b \in Made : \A p \in Got[b]..(Put[b] - 1) : p \in Nat /\ Slot(b, Wrap(p)) \in Locations \ {S, T}
  <2>1. ASSUME NEW b \in Made, NEW p \in Got[b]..(Put[b] - 1)
        PROVE  p \in Nat /\ Slot(b, Wrap(p)) \in Locations \ {S, T}
    <3>1. p \in Nat /\ b \in Block
      BY <1>8
    <3>2. b = t => Wrap(p) # Wrap(p0)
      BY <1>3, <1>8, <1>16, <1>18
    <3> QED
      BY <1>9, <1>11, <3>1, <3>2
  <2> QED
    BY <2>1
\* The conjuncts.
<1>20. Control'
  <2>1. enqueued < MaxElements /\ enqueued \in 0..MaxElements /\ dequeued \in 0..enqueued /\ MaxElements \in Nat
    BY <1>1, <1>10, WeakAssumption DEF Control
  <2>2. enqueued + 1 \in 0..MaxElements /\ dequeued \in 0..(enqueued + 1)
    BY <2>1
  <2> QED
    BY <1>1, <1>10, <1>14, <2>2 DEF Control
<1>21. Histories'
  <2>1. ASSUME NEW b \in Made, NEW q \in 0..Put'[b] PROVE mem'[TailOf(b)][q + 1].val = Wrap(q)
    <3>1. CASE b # t
      BY <1>1, <1>8, <1>11, <1>13, <1>14, <3>1 DEF Histories
    <3>2. CASE b = t /\ q \in 0..p0
      <4>1. q + 1 \in 1..last[T]
        BY <1>1, <1>2, <1>3, <1>4, <3>2, Shapes
      <4>2. mem[T][q + 1].val = Wrap(q)
        BY <1>1, <1>3, <1>4, <3>2 DEF Histories
      <4> QED
        BY <1>4, <1>11, <1>13, <3>2, <4>1, <4>2
    <3>3. CASE b = t /\ q = p0 + 1
      <4>1. last'[T] = q + 1
        BY <1>1, <1>2, <1>3, <1>4, <1>13, <3>3, Shapes
      <4>2. now'[T] = mem'[T][last'[T]].val
        BY <1>11, <1>13, RangesHoldNext DEF Ranges, now
      <4> QED
        BY <1>4, <1>12, <3>3, <4>1, <4>2
    <3> QED
      BY <1>14, <3>1, <3>2, <3>3
  <2>2. ASSUME NEW b \in Made
        PROVE  /\ Got'[b] >= 0 /\ now'[NextOf(b)] \in Made
               /\ \A g \in 0..Got'[b] : mem'[FrontOf(b)][g + Origin(b)].val = Wrap(g)
    BY <1>1, <1>8, <1>11, <1>13, <1>14 DEF Histories
  <2>3. ASSUME NEW b \in Block \ Made
        PROVE  /\ Put'[b] = 0 /\ Got'[b] = -1 /\ localFront'[b] = 0
               /\ mem'[TailOf(b)][1].val = 0
               /\ \A i \in Slots : last'[Slot(b, i)] = 1
    <3>1. b # t
      BY <1>2
    <3>2. Put[b] = 0 /\ Got[b] = -1 /\ localFront[b] = 0 /\ mem[TailOf(b)][1].val = 0 /\ \A i \in Slots : last[Slot(b, i)] = 1
      BY <1>1 DEF Histories
    <3> QED
      BY <1>10, <1>11, <1>13, <1>14, <3>1, <3>2
  <2>4. \A j \in 1..n : mem'[FrontBlock][j].val = At[j]
    BY <1>1, <1>5, <1>11, <1>13 DEF Histories
  <2> QED
    BY <1>6, <1>14, <2>1, <2>2, <2>3, <2>4 DEF Histories
<1>22. Circle'
  <2>1. \A b \in Made : now'[NextOf(b)] = now[NextOf(b)]
    BY <1>8, <1>11, <1>13
  <2>2. \A j \in h..(e - 1) : now'[NextOf(At[j])] = At[j + 1]
    BY <1>1, <1>5, <1>6, <2>1 DEF Circle
  <2> QED
    BY <1>1, <1>5, <1>14, <2>1, <2>2 DEF Circle
<1>23. Counts'
  <2>1. ASSUME NEW b \in Made PROVE Got'[b] <= Put'[b] /\ Put'[b] - Got'[b] < BlockSize
    <3>1. CASE b = t
      BY <1>2, <1>8, <1>14, <1>16, <1>17, <3>1
    <3>2. CASE b # t
      BY <1>1, <1>8, <1>14, <3>2 DEF Counts
    <3> QED
      BY <3>1, <3>2
  <2>2. ASSUME NEW b \in Made, Outside(At, n, e, b) PROVE Got'[b] = Put'[b]
    <3>1. b # t
      BY <1>2, <1>5, <1>6, <2>2 DEF Outside
    <3> QED
      BY <1>1, <1>5, <1>8, <1>14, <2>2, <3>1 DEF Counts
  <2>3. ASSUME NEW j \in (n + 1)..e PROVE Got'[At[j]] < Put'[At[j]]
    <3>1. At[j] \in Made /\ Got[At[j]] < Put[At[j]]
      BY <1>1, <1>5, <1>6 DEF Counts
    <3>2. CASE At[j] = t
      BY <1>2, <1>3, <1>8, <1>14, <3>1, <3>2
    <3>3. CASE At[j] # t
      BY <1>8, <1>14, <3>1, <3>3
    <3> QED
      BY <3>2, <3>3
  <2> QED
    BY <1>14, <2>1, <2>2, <2>3 DEF Counts
<1>24. Cells'
  <2>1. PICK z \in Nat : z = enqueued
    BY <1>1 DEF Control
  <2>2. First(t) + (p0 - Got[t]) = z + 1 /\ First(At[n]) = dequeued + 1 /\ dequeued \in Nat
    BY <1>1, <1>2, <1>3, <1>5, <2>1 DEF Cells, Control
  <2>3. ASSUME NEW b \in Made PROVE /\ First(b)' = First(b)
                                    /\ Got[b] < Put'[b] => now'[Slot(b, Wrap(Got[b]))] = First(b)
    <3>1. CASE b # t \/ Got[b] < p0
      <4>1. Got[b] < Put[b] <=> Got[b] < Put'[b]
        BY <1>3, <1>8, <1>14, <3>1
      <4>2. Got[b] < Put[b] => now'[Slot(b, Wrap(Got[b]))] = now[Slot(b, Wrap(Got[b]))]
        <5>1. Got[b] < Put[b] => Got[b] \in Got[b]..(Put[b] - 1)
          BY <1>8
        <5> QED
          BY <1>13, <1>19, <5>1
      <4> QED
        BY <1>8, <1>10, <1>14, <4>1, <4>2 DEF First
    <3>2. CASE b = t /\ Got[b] = p0
      <4>1. Got[b] < Put'[b] /\ now'[Slot(b, Wrap(Got[b]))] = z + 1
        BY <1>4, <1>12, <1>14, <2>1, <3>2
      <4>2. First(b)' = z + 1
        BY <1>8, <1>14, <4>1 DEF First
      <4>3. First(b) = dequeued + 1
        BY <1>3, <3>2 DEF First
      <4>4. First(b) = z + 1
        BY <2>2, <3>2, <4>3
      <4> QED
        BY <4>1, <4>2, <4>4
    <3> QED
      BY <1>3, <1>8, <1>16, <3>1, <3>2
  <2>4. ASSUME NEW b \in Made, NEW p \in Got[b]..(Put'[b] - 1)
        PROVE  now'[Slot(b, Wrap(p))] = now'[Slot(b, Wrap(Got[b]))] + (p - Got[b])
    <3>1. CASE p \in Got[b]..(Put[b] - 1)
      <4>1. Got[b] \in Got[b]..(Put[b] - 1)
        BY <1>8, <3>1
      <4>2. now[Slot(b, Wrap(p))] = now[Slot(b, Wrap(Got[b]))] + (p - Got[b])
        BY <1>1, <3>1 DEF Cells
      <4> QED
        BY <1>13, <1>19, <3>1, <4>1, <4>2
    <3>2. CASE b = t /\ p = p0
      <4>1. Got[t] < Put'[t]
        BY <1>2, <1>8, <1>14, <1>16
      <4>2. now'[Slot(t, Wrap(Got[t]))] = First(t)
        BY <2>3, <4>1
      <4>3. now'[Slot(t, Wrap(p0))] = First(t) + (p0 - Got[t])
        BY <1>4, <1>12, <2>1, <2>2
      <4> QED
        BY <3>2, <4>2, <4>3
    <3> QED
      BY <1>3, <1>8, <1>14, <3>1, <3>2
  <2>5. First(At[n])' = dequeued + 1
    BY <1>6, <1>14, <2>2, <2>3 DEF First
  <2>6. ASSUME NEW j \in n..e
        PROVE  /\ First(At[j])' = First(At[j]) /\ Got'[At[j]] = Got[At[j]]
               /\ At[j] # t => Put'[At[j]] = Put[At[j]]
               /\ First(At[j]) + (Put[At[j]] - Got[At[j]]) <= z + 1
    <3>1. At[j] \in Made /\ At[j] \in Block
      BY <1>5, <1>6
    <3> QED
      BY <1>1, <1>5, <1>14, <2>1, <2>3, <3>1 DEF Cells, First
  <2>7. ASSUME NEW j \in n..(e - 1)
        PROVE  First(At[j])' + (Put'[At[j]] - Got'[At[j]]) = First(At[j + 1])'
    <3>1. j \in n..e /\ j + 1 \in n..e /\ j \in h..e /\ j # e
      BY <1>6
    <3>2. At[j] # t
      BY <1>7, <3>1
    <3>3. First(At[j]) + (Put[At[j]] - Got[At[j]]) = First(At[j + 1])
      BY <1>1, <1>5 DEF Cells
    <3> QED
      BY <2>6, <3>1, <3>2, <3>3
  <2>8. First(At[e])' + (Put'[At[e]] - Got'[At[e]]) = z + 2
    <3>1. PICK f \in Nat : f = First(t)
      <4>1. First(t) \in Nat
        <5>1. \A l \in Locations : now[l] \in Nat
          BY <1>1, Messages
        <5> QED
          BY <1>2, <1>8, <1>9, <2>2, <5>1, Kinds DEF First
      <4> QED
        BY <4>1
    <3>2. First(At[e])' = f /\ Put'[At[e]] = p0 + 1 /\ Got'[At[e]] = Got[t]
      BY <1>2, <1>5, <1>6, <1>14, <2>6, <3>1
    <3> QED
      BY <1>8, <2>2, <3>1, <3>2
  <2>9. ASSUME NEW j \in n..e
        PROVE  First(At[j])' + (Put'[At[j]] - Got'[At[j]]) <= z + 2
    <3>1. CASE j = e
      BY <2>8, <3>1
    <3>2. CASE j # e
      <4>1. j \in h..e
        BY <1>6
      <4>2. At[j] # t
        BY <1>7, <3>2, <4>1
      <4>3. At[j] \in Made
        BY <1>6
      <4>4. PICK f \in Nat : f = First(At[j])
        <5>1. \A l \in Locations : now[l] \in Nat
          BY <1>1, Messages
        <5> QED
          BY <1>8, <1>9, <2>2, <4>3, <5>1, Kinds DEF First
      <4> QED
        BY <1>8, <2>6, <4>2, <4>3, <4>4
    <3> QED
      BY <3>1, <3>2
  <2>10. enqueued' + 1 = z + 2 /\ dequeued' = dequeued
    BY <1>10, <2>1
  <2>11. \A b \in Made : \A p \in Got'[b]..(Put'[b] - 1) :
           now'[Slot(b, Wrap(p))] = now'[Slot(b, Wrap(Got'[b]))] + (p - Got'[b])
    BY <1>8, <1>14, <2>4
  <2> QED
    BY <1>14, <2>5, <2>7, <2>8, <2>9, <2>10, <2>11 DEF Cells, First
<1>25. FrontViews'
  <2>1. ASSUME NEW b \in Made, NEW g \in 0..Got[b], NEW i \in Slots, Spare(g, Put'[b], i)
        PROVE  mem[FrontOf(b)][g + Origin(b)].view[Slot(b, i)] = last'[Slot(b, i)]
    <3>1. Spare(g, Put[b], i) /\ (b = t => i # Wrap(p0))
      <4>1. CASE b # t
        BY <1>8, <1>14, <2>1, <4>1
      <4>2. CASE b = t
        <5>1. p0 \in g..(Put'[t] - 1) /\ \A p \in g..(p0 - 1) : p \in g..(Put'[t] - 1)
          BY <1>8, <1>14, <1>16, <4>2
        <5> QED
          BY <1>3, <2>1, <4>2, <5>1 DEF Spare
      <4> QED
        BY <4>1, <4>2
    <3>2. Slot(b, i) \in Locations \ {S, T}
      BY <1>8, <1>11, <3>1
    <3> QED
      BY <1>1, <1>13, <3>1, <3>2 DEF FrontViews
  <2> QED
    BY <1>8, <1>11, <1>13, <1>14, <2>1 DEF FrontViews
<1>26. FrontBlockViews'
  <2>1. ASSUME NEW m \in 1..n, NEW b \in Made, Outside(At, m, e, b)
        PROVE  /\ mem[FrontBlock][m].view[FrontOf(b)] = last'[FrontOf(b)]
               /\ \A i \in Slots : mem[FrontBlock][m].view[Slot(b, i)] = last'[Slot(b, i)]
    <3>1. b # t
      BY <1>2, <1>5, <1>6, <2>1 DEF Outside
    <3>2. FrontOf(b) \in Locations \ {S, T} /\ \A i \in Slots : Slot(b, i) \in Locations \ {S, T}
      BY <1>8, <1>11, <3>1
    <3>3. /\ mem[FrontBlock][m].view[FrontOf(b)] = last[FrontOf(b)]
          /\ \A i \in Slots : mem[FrontBlock][m].view[Slot(b, i)] = last[Slot(b, i)]
      BY <1>1, <1>5, <2>1 DEF FrontBlockViews
    <3> QED
      BY <1>13, <3>2, <3>3
  <2> QED
    BY <1>11, <1>13, <1>14, <2>1 DEF FrontBlockViews
\* What is ready or complete for a thread still is.
<1>27. ASSUME NEW v, NEW b \in Made, Got[b] < Put[b], Ready(v, b)
       PROVE  /\ v[FrontOf(b)] = last'[FrontOf(b)] /\ v[Built(b)] = last'[Built(b)]
              /\ v[TailOf(b)] >= Got'[b] + 2
              /\ v[Slot(b, Wrap(Got'[b]))] = last'[Slot(b, Wrap(Got'[b]))]
  <2>1. Got[b] \in Got[b]..(Put[b] - 1)
    BY <1>8, <1>27
  <2> QED
    BY <1>8, <1>11, <1>13, <1>14, <1>19, <1>27, <2>1 DEF Ready
<1>28. ASSUME NEW v, NEW b \in Made, b # t, Complete(v, b)
       PROVE  /\ v[TailOf(b)] = last'[TailOf(b)] /\ v[NextOf(b)] = last'[NextOf(b)]
              /\ \A p \in Got'[b]..(Put'[b] - 1) : v[Slot(b, Wrap(p))] = last'[Slot(b, Wrap(p))]
  <2>1. ASSUME NEW p \in Got[b]..(Put[b] - 1) PROVE v[Slot(b, Wrap(p))] = last'[Slot(b, Wrap(p))]
    BY <1>13, <1>19, <1>28 DEF Complete
  <2> QED
    BY <1>8, <1>11, <1>13, <1>14, <1>28, <2>1 DEF Complete
<1>29. TailBlockViews'
  <2>1. ASSUME NEW m \in 1..e, NEW j \in n..m, j > n PROVE Ready(mem[TailBlock][m].view, At[j])'
    <3>1. j \in (n + 1)..e /\ j \in 1..e
      BY <1>6, <2>1
    <3>2. PICK b \in Made : b = At[j]
      BY <1>6, <3>1
    <3>3. PICK v : v = mem[TailBlock][m].view
      OBVIOUS
    <3>4. Got[b] < Put[b] /\ Ready(v, b)
      BY <1>1, <1>5, <2>1, <3>1, <3>2, <3>3 DEF Counts, TailBlockViews
    <3>5. mem'[TailBlock][m].view = v /\ At'[j] = b
      BY <1>11, <1>13, <1>14, <3>2, <3>3
    <3> QED
      BY <1>27, <3>4, <3>5 DEF Ready
  <2>2. ASSUME NEW m \in 1..e, NEW j \in n..m, j < m PROVE Complete(mem[TailBlock][m].view, At[j])'
    <3>1. j \in h..e /\ j \in 1..e /\ j # e
      BY <1>6, <2>2
    <3>2. PICK b \in Made : b = At[j]
      BY <1>6, <3>1
    <3>3. PICK v : v = mem[TailBlock][m].view
      OBVIOUS
    <3>4. b # t /\ Complete(v, b)
      BY <1>1, <1>5, <1>7, <2>2, <3>1, <3>2, <3>3 DEF TailBlockViews
    <3>5. mem'[TailBlock][m].view = v /\ At'[j] = b
      BY <1>11, <1>13, <1>14, <3>2, <3>3
    <3> QED
      BY <1>28, <3>4, <3>5 DEF Complete
  <2> QED
    BY <1>14, <2>1, <2>2 DEF TailBlockViews
<1>30. TailViews'
  <2>1. ASSUME NEW b \in Made, NEW q \in 0..Put'[b], NEW p \in Got[b]..(q - 1)
        PROVE  \/ mem'[TailOf(b)][q + 1].view[Slot(b, Wrap(p))] = last'[Slot(b, Wrap(p))]
               \/ Cc[Slot(b, Wrap(p))] = last'[Slot(b, Wrap(p))]
               \/ b # At[n] /\ p = Got[b]
    <3>1. CASE q \in 0..Put[b]
      <4>1. p \in Got[b]..(Put[b] - 1)
        BY <1>8, <3>1
      <4>2. q + 1 \in 1..last[TailOf(b)] /\ TailOf(b) \in Locations
        BY <1>1, <1>8, <3>1, Shapes, Kinds, SMTT(30)
      <4>3. mem'[TailOf(b)][q + 1] = mem[TailOf(b)][q + 1]
        BY <1>13, <4>2
      <4>4. last'[Slot(b, Wrap(p))] = last[Slot(b, Wrap(p))]
        BY <1>13, <1>19, <4>1
      <4> QED
        BY <1>1, <1>5, <3>1, <4>3, <4>4 DEF TailViews
    <3>2. CASE b = t /\ q = p0 + 1
      <4>1. last'[T] = q + 1 /\ mem'[T][q + 1].view[Slot(t, Wrap(p))] = Pc'[Slot(t, Wrap(p))]
        <5>1. last'[T] = q + 1
          BY <1>1, <1>2, <1>3, <1>4, <1>13, <3>2, Shapes
        <5>2. Slot(t, Wrap(p)) \in Locations
          BY <1>2, <1>8, <1>9, <3>2, Kinds
        <5> QED
          BY <1>13, <5>1, <5>2
      <4>2. CASE p = p0
        BY <1>4, <1>13, <3>2, <4>1, <4>2
      <4>3. CASE p # p0
        <5>1. p \in Got[t]..(Put[t] - 1)
          BY <1>3, <1>8, <3>2, <4>3
        <5>2. Pc[Slot(t, Wrap(p))] = last[Slot(t, Wrap(p))]
          BY <1>1, <5>1 DEF ProducerKnows
        <5>3. Pc'[Slot(t, Wrap(p))] = last'[Slot(t, Wrap(p))]
          BY <1>13, <1>19, <5>1, <5>2
        <5> QED
          BY <1>4, <3>2, <4>1, <5>3
      <4> QED
        BY <4>2, <4>3
    <3> QED
      BY <1>3, <1>8, <1>14, <3>1, <3>2
  <2> QED
    BY <1>8, <1>13, <1>14, <2>1 DEF TailViews
<1>31. ProducerRoom'
  <2>1. g0 \in 0..(Pc'[FrontOf(t)] - Origin(t)) /\ localFront'[t] = Wrap(g0) /\ Put'[t] - g0 < BlockSize
    BY <1>2, <1>10, <1>11, <1>13, <1>14, <1>15, <1>17
  <2>2. ASSUME NEW i \in Slots, Spare(g0, Put'[t], i) PROVE Pc'[Slot(t, i)] = last'[Slot(t, i)]
    <3>1. p0 \in g0..(Put'[t] - 1) /\ \A p \in g0..(p0 - 1) : p \in g0..(Put'[t] - 1)
      BY <1>2, <1>8, <1>14, <1>16
    <3>2. Spare(g0, p0, i) /\ i # Wrap(p0)
      BY <2>2, <3>1 DEF Spare
    <3>3. Slot(t, i) \in Locations \ {S, T}
      BY <1>2, <1>11, <3>2
    <3> QED
      BY <1>13, <1>15, <3>2, <3>3
  <2> QED
    BY <1>2, <1>5, <1>14, <2>1, <2>2 DEF ProducerRoom, Room
<1>32. ProducerKnows'
  <2>1. Pc'[TailBlock] = e
    BY <1>1, <1>5, <1>11, <1>13 DEF ProducerKnows
  <2>2. ASSUME NEW b \in Block
        PROVE  /\ Pc'[TailOf(b)] = last'[TailOf(b)] /\ Pc'[NextOf(b)] = last'[NextOf(b)]
               /\ Pc'[Built(b)] = last'[Built(b)]
    <3>1. Pc[TailOf(b)] = last[TailOf(b)] /\ Pc[NextOf(b)] = last[NextOf(b)] /\ Pc[Built(b)] = last[Built(b)]
      BY <1>1 DEF ProducerKnows
    <3> QED
      BY <1>4, <1>11, <1>13, <3>1
  <2>3. \A b \in Made : Pc'[FrontOf(b)] >= Origin(b)
    BY <1>1, <1>8, <1>11, <1>13 DEF ProducerKnows
  <2>4. \A j \in (n + 1)..e : Pc'[FrontOf(At[j])] = last'[FrontOf(At[j])]
    BY <1>1, <1>5, <1>6, <1>11, <1>13 DEF ProducerKnows
  <2>5. ASSUME NEW b \in Made, NEW p \in Got[b]..(Put'[b] - 1)
        PROVE  Pc'[Slot(b, Wrap(p))] = last'[Slot(b, Wrap(p))]
    <3>1. CASE p \in Got[b]..(Put[b] - 1)
      <4>1. Pc[Slot(b, Wrap(p))] = last[Slot(b, Wrap(p))]
        BY <1>1, <3>1 DEF ProducerKnows
      <4> QED
        BY <1>13, <1>19, <3>1, <4>1
    <3>2. CASE b = t /\ p = p0
      BY <1>4, <1>13, <3>2
    <3> QED
      BY <1>3, <1>8, <1>14, <3>1, <3>2
  <2> QED
    BY <1>8, <1>14, <2>1, <2>2, <2>3, <2>4, <2>5 DEF ProducerKnows
<1>33. ProducerAt'
  BY <1>10 DEF ProducerAt
<1>34. ASSUME NEW b \in Made, Stock(b) PROVE Stock(b)'
  <2>1. \A p \in Got[b]..(Put[b] - 1) : last'[Slot(b, Wrap(p))] = last[Slot(b, Wrap(p))]
    BY <1>13, <1>19
  <2> QED
    BY <1>1, <1>8, <1>10, <1>13, <1>14, <1>34, <2>1, StockKept
<1>35. ConsumerStock'
  <2>1. PICK b \in Made : b = At[n]
    BY <1>6
  <2>2. Stock(b)'
    BY <1>1, <1>5, <1>34, <2>1 DEF ConsumerStock
  <2> QED
    BY <1>14, <2>1, <2>2 DEF ConsumerStock, Stock
<1>36. ConsumerKnows'
  <2>1. Cc'[FrontBlock] = n /\ Cc'[TailBlock] >= n
    BY <1>1, <1>5, <1>13 DEF ConsumerKnows
  <2>2. ASSUME NEW b \in Made, Outside(At, n + 1, e, b) PROVE Cc'[FrontOf(b)] = last'[FrontOf(b)]
    BY <1>1, <1>5, <1>8, <1>11, <1>13, <2>2 DEF ConsumerKnows
  <2>3. ASSUME NEW b \in Made, NEW i \in Slots, Spare(Got[b], Put'[b], i)
        PROVE  Cc'[Slot(b, i)] = last'[Slot(b, i)]
    <3>1. Spare(Got[b], Put[b], i) /\ (b = t => i # Wrap(p0))
      <4>1. CASE b # t
        BY <1>8, <1>14, <2>3, <4>1
      <4>2. CASE b = t
        <5>1. p0 \in Got[t]..(Put'[t] - 1) /\ \A p \in Got[t]..(p0 - 1) : p \in Got[t]..(Put'[t] - 1)
          BY <1>2, <1>8, <1>14, <1>16
        <5> QED
          BY <1>3, <2>3, <4>2, <5>1 DEF Spare
      <4> QED
        BY <4>1, <4>2
    <3>2. Slot(b, i) \in Locations \ {S, T}
      BY <1>8, <1>11, <3>1
    <3> QED
      BY <1>1, <1>13, <3>1, <3>2 DEF ConsumerKnows
  <2> QED
    BY <1>8, <1>14, <2>1, <2>2, <2>3 DEF ConsumerKnows
<1>37. ConsumerAt'
  <2>1. PICK f \in Made : f = At[n]
    BY <1>6
  <2>2. PICK a : a = At[n + 1]
    OBVIOUS
  <2>3. ASSUME cpc \in {"reloadTail", "loadNext", "loadNextTail", "advanceFrontBlock", "readNext"}
        PROVE  /\ n < e /\ Cc[TailBlock] > n /\ a \in Made /\ Got[a] < Put[a] /\ f # t
               /\ Complete(Cc, f)' /\ Ready(Cc, a)'
    <3>1. n < e /\ Cc[TailBlock] > n /\ Complete(Cc, f) /\ Ready(Cc, a)
      BY <1>1, <1>5, <2>1, <2>2, <2>3 DEF ConsumerAt
    <3>2. n + 1 \in (n + 1)..e /\ n + 1 \in 1..e /\ n \in h..e /\ n # e
      BY <1>6, <3>1
    <3>3. a \in Made /\ Got[a] < Put[a] /\ f # t
      BY <1>1, <1>5, <1>6, <1>7, <2>1, <2>2, <3>2 DEF Counts
    <3>4. Complete(Cc, f)'
      BY <1>13, <1>28, <3>1, <3>3 DEF Complete
    <3>5. Ready(Cc, a)'
      BY <1>13, <1>27, <3>1, <3>3 DEF Ready
    <3> QED
      BY <3>1, <3>3, <3>4, <3>5
  <2>4. At'[Left'] = f /\ At'[Left' + 1] = a /\ Got'[f] = Got[f] /\ (f # t => Put'[f] = Put[f])
    BY <1>8, <1>14, <2>1, <2>2
  <2>5. ASSUME cpc \in {"reloadTail", "loadNext", "loadNextTail", "advanceFrontBlock", "readNext"}
        PROVE  Complete(Cc, At[Left])' /\ Ready(Cc, At[Left + 1])' /\ Left' < Entered' /\ Cc'[TailBlock] > Left'
    BY <1>13, <1>14, <2>3, <2>4, <2>5 DEF Complete, Ready
  <2>6. ASSUME cpc = "advanceFrontBlock" PROVE Stock(At[Left + 1])' /\ Wrap(Got'[a]) # localTail'[a]
    <3>1. Stock(a) /\ Wrap(Got[a]) # localTail[a] /\ a \in Made
      BY <1>1, <1>5, <2>2, <2>3, <2>6 DEF ConsumerAt
    <3>2. Stock(a)'
      BY <1>34, <3>1
    <3>3. Stock(At[Left + 1])'
      BY <2>4, <3>2 DEF Stock
    <3> QED
      BY <1>8, <1>10, <1>14, <3>1, <3>3
  <2>7. cpc \in {"loadNext", "loadNextTail", "advanceFrontBlock", "readNext"} => Got'[f] = Put'[f]
    BY <1>1, <1>5, <2>1, <2>3, <2>4 DEF ConsumerAt
  <2>8. cpc \in {"loadNextTail", "advanceFrontBlock", "readNext"} => cblock' = a
    BY <1>1, <1>5, <1>10, <2>2 DEF ConsumerAt
  <2>9. cpc \in {"read", "move"} => Wrap(Got'[f]) # localTail'[f]
    BY <1>1, <1>5, <1>10, <2>1, <2>4 DEF ConsumerAt
  <2> QED
    BY <1>10, <2>4, <2>5, <2>6, <2>7, <2>8, <2>9 DEF ConsumerAt
<1> QED
  BY <1>13, <1>20, <1>21, <1>22, <1>23, <1>24, <1>25, <1>26, <1>29, <1>30, <1>31, <1>32,
     <1>33, <1>35, <1>36, <1>37 DEF WInv

\* The producer puts an element into the next block and enters it.
LEMMA ConstructNextStep ==
  ASSUME WInv, ConstructNext
  PROVE  WInv'
<1>1. /\ Memory /\ Control /\ Histories /\ Circle /\ Counts /\ Cells
      /\ FrontViews /\ FrontBlockViews /\ TailBlockViews /\ TailViews
      /\ ProducerRoom /\ ProducerKnows /\ ProducerAt
      /\ ConsumerStock /\ ConsumerKnows /\ ConsumerAt
  BY DEF WInv
<1>2. PICK t \in Made, b \in Made : t = At[Entered] /\ t \in Block /\ b = nb /\ b = now[NextOf(t)] /\ b \in Block
  BY <1>1, Ends
<1>3. PICK p0 \in Nat : p0 = Put[b]
  BY <1>1, Ends
<1>4. PICK S, T : S = Slot(b, Wrap(p0)) /\ T = TailOf(b)
  OBVIOUS
<1>5. PICK e \in Nat, n \in Nat, h \in Nat : e = Entered /\ n = Left /\ h = Pc[FrontBlock]
  BY <1>1, Ends
<1>6. 1 <= h /\ h <= n /\ n <= e /\ \A j \in 1..e : At[j] \in Made /\ At[j] \in Block
  BY <1>1, <1>5, Ends
\* The step.
<1>7. /\ ppc = "constructNext" /\ ppc' = "idle" /\ enqueued' = enqueued + 1
      /\ UNCHANGED <<localFront, blocks, cpc, cblock, dequeued, localTail, spc, walk>>
  BY DEF ConstructNext, consVars, sizeVars
<1>8. /\ \A c \in Made : c \in Block /\ Got[c] \in Nat /\ Put[c] \in Nat /\ Got[c] <= Put[c]
      /\ BlockSize \in Nat /\ BlockSize >= 2
  BY <1>1, Ends, WeakAssumption DEF Counts
<1>9. /\ Wrap(p0) \in Slots /\ Succ(Wrap(p0)) = Wrap(p0 + 1)
      /\ \A p \in Nat : Wrap(p) \in Slots
  BY WrapFacts
\* The block is free, and the producer knows all of it.
<1>10. /\ \A j \in h..e : At[j] # b
       /\ Pc[FrontOf(b)] = last[FrontOf(b)]
       /\ \A i \in Slots : Pc[Slot(b, i)] = last[Slot(b, i)]
       /\ localFront[b] = Wrap(Got[b])
  BY <1>1, <1>2, <1>5, <1>7 DEF ProducerAt, Outside
<1>11. Got[b] = p0
  <2>1. Outside(At, n, e, b)
    BY <1>6, <1>10 DEF Outside
  <2> QED
    BY <1>1, <1>3, <1>5, <2>1 DEF Counts
<1>12. /\ S \in Locations /\ T \in Locations /\ S # T /\ S # TailBlock /\ T # TailBlock /\ TailBlock \in Locations
       /\ FrontBlock \in Locations \ {S, T, TailBlock}
       /\ \A c \in Block : FrontOf(c) \in Locations \ {S, T, TailBlock} /\ NextOf(c) \in Locations \ {S, T, TailBlock}
                           /\ Built(c) \in Locations \ {S, T, TailBlock}
       /\ \A c \in Block \ {b} : TailOf(c) \in Locations \ {S, T, TailBlock}
       /\ \A c \in Block, i \in Slots : c # b \/ i # Wrap(p0) => Slot(c, i) \in Locations \ {S, T, TailBlock}
  BY <1>2, <1>4, <1>9, Kinds
<1>13. /\ Publishes("producer", {S, T, TailBlock}, TailBlock)
       /\ now'[S] = enqueued + 1 /\ now'[T] = Wrap(p0 + 1) /\ now'[TailBlock] = b
  <2>1. PICK v \in Nat : v = enqueued + 1
    BY <1>1 DEF Control
  <2>2. PICK w \in Nat : w = Wrap(p0 + 1)
    <3>1. Wrap(p0 + 1) \in Slots
      BY WrapFacts
    <3> QED
      BY <3>1 DEF Slots
  <2>3. PICK new : new = [l \in {S, T} |-> IF l = T THEN w ELSE v]
    OBVIOUS
  <2>4. DOMAIN new = {S, T} /\ new[S] = v /\ new[T] = w
    BY <1>12, <2>3
  <2>5. Latest(TailOf(nb)) = Wrap(p0)
    BY <1>1, <1>2, <1>3, Ends, Kinds
  <2>6. Becomes("producer", Store(ReleaseFence(Stores(Sees("producer"), new)), TailBlock, b))
    BY <1>2, <1>4, <1>9, <2>1, <2>2, <2>3, <2>5 DEF ConstructNext, P
  <2>7. "producer" \in Threads /\ b \in Nat
    BY <1>1, <1>2, Shapes DEF Threads
  <2>8. /\ Publishes("producer", DOMAIN new \cup {TailBlock}, TailBlock) /\ now'[TailBlock] = b
        /\ \A x \in DOMAIN new : now'[x] = new[x]
    <3>1. /\ DOMAIN new \subseteq Locations /\ TailBlock \notin DOMAIN new /\ TailBlock \in Locations
          /\ \A x \in DOMAIN new : new[x] \in Nat
      BY <1>12, <2>1, <2>2, <2>4
    <3> QED
      BY <1>1, <2>6, <2>7, <3>1, MoreStores
  <2>9. DOMAIN new \cup {TailBlock} = {S, T, TailBlock}
    BY <2>4
  <2> QED
    BY <2>1, <2>2, <2>4, <2>8, <2>9
<1>14. /\ Memory' /\ Cc' = Cc
       /\ \A x \in Locations \ {S, T, TailBlock} : mem'[x] = mem[x] /\ last'[x] = last[x] /\ now'[x] = now[x] /\ Pc'[x] = Pc[x]
       /\ last'[S] = last[S] + 1 /\ last'[T] = last[T] + 1 /\ last'[TailBlock] = e + 1
       /\ Pc'[S] = last'[S] /\ Pc'[T] = last'[T] /\ Pc'[TailBlock] = e + 1
       /\ \A x \in Locations : \A k \in 1..last[x] : mem'[x][k] = mem[x][k]
       /\ \A x \in Locations : mem'[TailBlock][e + 1].view[x] = Pc'[x]
  BY <1>5, <1>12, <1>13 DEF Publishes, Pc, Cc, Threads, Entered
<1>15. /\ Put'[b] = p0 + 1 /\ \A c \in Block \ {b} : Put'[c] = Put[c]
       /\ \A c \in Block : Got'[c] = Got[c]
       /\ Entered' = e + 1 /\ Left' = n /\ Made' = Made /\ Pc'[FrontBlock] = h
       /\ \A j \in 1..e : At'[j] = At[j]
       /\ At'[e + 1] = b
  <2>1. \A c \in Block : Put'[c] = last'[TailOf(c)] - 1 /\ Got'[c] = last'[FrontOf(c)] - Origin(c)
    BY DEF Put, Got
  <2>2. \A c \in Block : Put[c] = last[TailOf(c)] - 1 /\ Got[c] = last[FrontOf(c)] - Origin(c)
    BY DEF Put, Got
  <2>3. last[T] = p0 + 1
    BY <1>1, <1>2, <1>3, <1>4, Shapes
  <2>4. Put'[b] = p0 + 1
    BY <1>2, <1>4, <1>14, <2>1, <2>3
  <2>5. last'[FrontBlock] = last[FrontBlock]
    BY <1>12, <1>14
  <2>6. Len(mem'[TailBlock]) = e + 1
    BY <1>12, <1>14, RangesHoldNext DEF Ranges
  <2>7. At' = [j \in 1..(e + 1) |-> mem'[TailBlock][j].val]
    BY <2>6 DEF At
  <2>8. ASSUME NEW j \in 1..e PROVE At'[j] = At[j]
    <3>1. j \in 1..(e + 1) /\ mem'[TailBlock][j] = mem[TailBlock][j]
      BY <1>5, <1>12, <1>14 DEF Entered
    <3> QED
      BY <1>1, <1>5, <2>7, <3>1, Shapes
  <2>9. At'[e + 1] = b
    <3>1. now'[TailBlock] = mem'[TailBlock][e + 1].val
      BY <1>12, <2>6 DEF now
    <3>2. e + 1 \in 1..(e + 1)
      BY <1>5
    <3> QED
      BY <1>13, <2>7, <3>1, <3>2
  <2> QED
    BY <1>5, <1>7, <1>12, <1>14, <2>1, <2>2, <2>4, <2>5, <2>8, <2>9 DEF Entered, Left, Made
<1>16. ASSUME NEW m \in 1..(e + 1), NEW c, Outside(At', m, e + 1, c) PROVE c # b /\ Outside(At, m, e, c)
  <2>1. e + 1 \in m..(e + 1) /\ \A j \in m..e : j \in m..(e + 1) /\ j \in 1..e
    OBVIOUS
  <2> QED
    BY <1>15, <1>16, <2>1 DEF Outside
<1>17. \A c \in Made : \A p \in Got[c]..(Put[c] - 1) : p \in Nat /\ Slot(c, Wrap(p)) \in Locations \ {S, T, TailBlock}
  <2>1. ASSUME NEW c \in Made, NEW p \in Got[c]..(Put[c] - 1)
        PROVE  p \in Nat /\ Slot(c, Wrap(p)) \in Locations \ {S, T, TailBlock}
    <3>1. p \in Nat /\ c \in Block /\ c # b
      BY <1>3, <1>8, <1>11
    <3> QED
      BY <1>9, <1>12, <3>1
  <2> QED
    BY <2>1
\* The conjuncts.
<1>20. Control'
  <2>1. enqueued < MaxElements /\ enqueued \in 0..MaxElements /\ dequeued \in 0..enqueued /\ MaxElements \in Nat
    BY <1>1, <1>7, WeakAssumption DEF Control
  <2>2. enqueued + 1 \in 0..MaxElements /\ dequeued \in 0..(enqueued + 1)
    BY <2>1
  <2> QED
    BY <1>1, <1>7, <1>15, <2>2 DEF Control
<1>21. Histories'
  <2>1. ASSUME NEW c \in Made, NEW q \in 0..Put'[c] PROVE mem'[TailOf(c)][q + 1].val = Wrap(q)
    <3>1. CASE c # b
      BY <1>1, <1>8, <1>12, <1>14, <1>15, <3>1 DEF Histories
    <3>2. CASE c = b /\ q \in 0..p0
      <4>1. q + 1 \in 1..last[T]
        BY <1>1, <1>2, <1>3, <1>4, <3>2, Shapes
      <4>2. mem[T][q + 1].val = Wrap(q)
        BY <1>1, <1>3, <1>4, <3>2 DEF Histories
      <4> QED
        BY <1>4, <1>12, <1>14, <3>2, <4>1, <4>2
    <3>3. CASE c = b /\ q = p0 + 1
      <4>1. last'[T] = q + 1
        BY <1>1, <1>2, <1>3, <1>4, <1>14, <3>3, Shapes
      <4>2. now'[T] = mem'[T][last'[T]].val
        BY <1>12, <1>14, RangesHoldNext DEF Ranges, now
      <4> QED
        BY <1>4, <1>13, <3>3, <4>1, <4>2
    <3> QED
      BY <1>15, <3>1, <3>2, <3>3
  <2>2. ASSUME NEW c \in Made
        PROVE  /\ Got'[c] >= 0 /\ now'[NextOf(c)] \in Made
               /\ \A g \in 0..Got'[c] : mem'[FrontOf(c)][g + Origin(c)].val = Wrap(g)
    BY <1>1, <1>8, <1>12, <1>14, <1>15 DEF Histories
  <2>3. ASSUME NEW c \in Block \ Made
        PROVE  /\ Put'[c] = 0 /\ Got'[c] = -1 /\ localFront'[c] = 0
               /\ mem'[TailOf(c)][1].val = 0
               /\ \A i \in Slots : last'[Slot(c, i)] = 1
    <3>1. c # b
      BY <1>2
    <3>2. Put[c] = 0 /\ Got[c] = -1 /\ localFront[c] = 0 /\ mem[TailOf(c)][1].val = 0 /\ \A i \in Slots : last[Slot(c, i)] = 1
      BY <1>1 DEF Histories
    <3> QED
      BY <1>7, <1>12, <1>14, <1>15, <3>1, <3>2
  <2>4. ASSUME NEW j \in 1..n PROVE mem'[FrontBlock][j].val = At'[j]
    <3>1. j \in 1..e
      BY <1>6
    <3> QED
      BY <1>1, <1>5, <1>12, <1>14, <1>15, <3>1 DEF Histories
  <2>5. \A j \in 1..(e + 1) : At'[j] \in Made
    BY <1>6, <1>15
  <2>6. n <= e + 1
    BY <1>6
  <2> QED
    BY <1>15, <2>1, <2>2, <2>3, <2>4, <2>5, <2>6 DEF Histories
<1>22. Circle'
  <2>1. \A c \in Made : now'[NextOf(c)] = now[NextOf(c)]
    BY <1>8, <1>12, <1>14
  <2>2. ASSUME NEW j \in h..e PROVE now'[NextOf(At'[j])] = At'[j + 1]
    <3>1. CASE j = e
      BY <1>2, <1>5, <1>6, <1>15, <2>1, <3>1
    <3>2. CASE j # e
      <4>1. j \in h..(e - 1) /\ j \in 1..e /\ j + 1 \in 1..e
        BY <1>6, <3>2
      <4> QED
        BY <1>1, <1>5, <1>6, <1>15, <2>1, <4>1 DEF Circle
    <3> QED
      BY <3>1, <3>2
  <2>3. ASSUME NEW i \in h..(e + 1), NEW j \in h..(e + 1), At'[i] = At'[j] PROVE i = j
    <3>1. CASE i \in h..e /\ j \in h..e
      BY <1>1, <1>5, <1>6, <1>15, <2>3, <3>1 DEF Circle
    <3>2. CASE i = e + 1 /\ j \in h..e
      BY <1>6, <1>10, <1>15, <2>3, <3>2
    <3>3. CASE i \in h..e /\ j = e + 1
      BY <1>6, <1>10, <1>15, <2>3, <3>3
    <3> QED
      BY <3>1, <3>2, <3>3
  <2>4. ASSUME NEW c \in Made, Outside(At', h, e + 1, c) \/ c = b
        PROVE  Outside(At', h, e + 1, now'[NextOf(c)]) \/ now'[NextOf(c)] = At'[h]
    <3>1. PICK d : d = now[NextOf(c)]
      OBVIOUS
    <3>2. Outside(At, h, e, c)
      <4>1. CASE c = b
        BY <1>10, <4>1 DEF Outside
      <4>2. CASE Outside(At', h, e + 1, c)
        BY <1>6, <1>16, <4>2
      <4> QED
        BY <2>4, <4>1, <4>2
    <3>3. Outside(At, h, e, d) \/ d = At[h]
      BY <1>1, <1>5, <3>1, <3>2 DEF Circle
    <3>4. d # b
      <4>1. c # t
        BY <1>2, <1>5, <1>6, <3>2 DEF Outside
      <4> QED
        BY <1>1, <1>2, <3>1, <4>1 DEF Circle
    <3>5. Outside(At, h, e, d) => Outside(At', h, e + 1, d)
      <4>1. \A j \in h..(e + 1) : j = e + 1 \/ (j \in h..e /\ j \in 1..e)
        BY <1>6
      <4> QED
        BY <1>15, <3>4, <4>1 DEF Outside
    <3> QED
      BY <1>6, <1>15, <2>1, <3>1, <3>3, <3>5
  <2>5. \A c, d \in Made : now'[NextOf(c)] = now'[NextOf(d)] => c = d
    BY <1>1, <2>1 DEF Circle
  <2>6. Entered' - 1 = e
    BY <1>15
  <2> QED
    BY <1>15, <2>2, <2>3, <2>4, <2>5, <2>6 DEF Circle
<1>23. Counts'
  <2>1. ASSUME NEW c \in Made PROVE Got'[c] <= Put'[c] /\ Put'[c] - Got'[c] < BlockSize
    <3>1. CASE c = b
      BY <1>2, <1>8, <1>11, <1>15, <3>1
    <3>2. CASE c # b
      BY <1>1, <1>8, <1>15, <3>2 DEF Counts
    <3> QED
      BY <3>1, <3>2
  <2>2. ASSUME NEW c \in Made, Outside(At', n, e + 1, c) PROVE Got'[c] = Put'[c]
    <3>1. c # b /\ Outside(At, n, e, c)
      BY <1>6, <1>16, <2>2
    <3> QED
      BY <1>1, <1>5, <1>8, <1>15, <3>1 DEF Counts
  <2>3. ASSUME NEW j \in (n + 1)..(e + 1) PROVE Got'[At'[j]] < Put'[At'[j]]
    <3>1. CASE j = e + 1
      BY <1>2, <1>11, <1>15, <3>1
    <3>2. CASE j # e + 1
      <4>1. j \in (n + 1)..e /\ j \in 1..e /\ j \in h..e
        BY <1>6, <3>2
      <4>2. At[j] \in Block /\ Got[At[j]] < Put[At[j]] /\ At[j] # b
        BY <1>1, <1>5, <1>6, <1>10, <4>1 DEF Counts
      <4> QED
        BY <1>15, <4>1, <4>2
    <3> QED
      BY <3>1, <3>2
  <2> QED
    BY <1>15, <2>1, <2>2, <2>3 DEF Counts
<1>24. Cells'
  <2>1. PICK z \in Nat : z = enqueued
    BY <1>1 DEF Control
  <2>2. /\ First(At[e]) + (Put[At[e]] - Got[At[e]]) = z + 1 /\ First(At[n]) = dequeued + 1
    BY <1>1, <1>5, <2>1 DEF Cells
  <2>3. ASSUME NEW c \in Made, c # b PROVE First(c)' = First(c)
    <3>1. Got[c] < Put[c] => Got[c] \in Got[c]..(Put[c] - 1)
      BY <1>8
    <3>2. Got[c] < Put[c] => now'[Slot(c, Wrap(Got[c]))] = now[Slot(c, Wrap(Got[c]))]
      BY <1>14, <1>17, <3>1
    <3> QED
      BY <1>7, <1>8, <1>15, <2>3, <3>2 DEF First
  <2>4. First(b)' = z + 1
    <3>1. Got'[b] < Put'[b] /\ Got'[b] = p0
      BY <1>2, <1>11, <1>15
    <3> QED
      BY <1>4, <1>13, <2>1, <3>1 DEF First
  <2>5. ASSUME NEW c \in Made, NEW p \in Got'[c]..(Put'[c] - 1)
        PROVE  now'[Slot(c, Wrap(p))] = now'[Slot(c, Wrap(Got'[c]))] + (p - Got'[c])
    <3>1. CASE c # b
      <4>1. p \in Got[c]..(Put[c] - 1) /\ Got[c] \in Got[c]..(Put[c] - 1) /\ Got'[c] = Got[c]
        BY <1>8, <1>15, <3>1
      <4>2. now[Slot(c, Wrap(p))] = now[Slot(c, Wrap(Got[c]))] + (p - Got[c])
        BY <1>1, <4>1 DEF Cells
      <4> QED
        BY <1>14, <1>17, <4>1, <4>2
    <3>2. CASE c = b
      <4>1. p = p0 /\ Got'[c] = p0
        BY <1>2, <1>11, <1>15, <3>2
      <4> QED
        BY <1>4, <1>13, <2>1, <3>2, <4>1
    <3> QED
      BY <3>1, <3>2
  <2>6. ASSUME NEW j \in n..e
        PROVE  /\ First(At[j])' = First(At[j]) /\ Got'[At'[j]] = Got[At[j]] /\ Put'[At'[j]] = Put[At[j]]
               /\ At'[j] = At[j] /\ First(At[j]) + (Put[At[j]] - Got[At[j]]) <= z + 1
    <3>1. j \in 1..e /\ j \in h..e
      BY <1>6
    <3>2. At[j] \in Made /\ At[j] \in Block /\ At[j] # b /\ At'[j] = At[j]
      BY <1>6, <1>10, <1>15, <3>1
    <3>3. First(At[j])' = First(At[j])
      BY <2>3, <3>2 DEF First
    <3> QED
      BY <1>1, <1>5, <1>15, <2>1, <3>2, <3>3 DEF Cells
  <2>7. First(At[e + 1])' = z + 1 /\ Put'[At'[e + 1]] = p0 + 1 /\ Got'[At'[e + 1]] = p0
    BY <1>2, <1>11, <1>15, <2>4 DEF First
  <2>8. First(At[n])' = dequeued + 1
    BY <1>6, <2>2, <2>6
  <2>9. ASSUME NEW j \in n..e
        PROVE  First(At[j])' + (Put'[At'[j]] - Got'[At'[j]]) = First(At[j + 1])'
    <3>1. CASE j = e
      BY <2>2, <2>6, <2>7, <3>1
    <3>2. CASE j # e
      <4>1. j \in n..(e - 1) /\ j + 1 \in n..e
        BY <1>6, <3>2
      <4>2. First(At[j]) + (Put[At[j]] - Got[At[j]]) = First(At[j + 1])
        BY <1>1, <1>5, <4>1 DEF Cells
      <4> QED
        BY <2>6, <4>1, <4>2
    <3> QED
      BY <3>1, <3>2
  <2>10. ASSUME NEW j \in n..(e + 1)
         PROVE  First(At[j])' + (Put'[At'[j]] - Got'[At'[j]]) <= z + 2
    <3>1. CASE j = e + 1
      BY <2>7, <3>1
    <3>2. CASE j # e + 1
      <4>1. j \in n..e
        BY <1>6, <3>2
      <4>2. At[j] \in Made
        BY <1>6, <4>1
      <4>3. PICK f \in Nat : f = First(At[j])
        <5>1. \A l \in Locations : now[l] \in Nat
          BY <1>1, Messages
        <5>2. dequeued \in Nat
          BY <1>1 DEF Control
        <5>3. now[Slot(At[j], Wrap(Got[At[j]]))] \in Nat
          BY <1>8, <1>9, <4>2, <5>1, Kinds
        <5>4. First(At[j]) \in Nat
          BY <5>2, <5>3 DEF First
        <5> QED
          BY <5>4
      <4> QED
        BY <1>8, <2>6, <4>1, <4>2, <4>3
    <3> QED
      BY <3>1, <3>2
  <2>11. First(At[e + 1])' + (Put'[At'[e + 1]] - Got'[At'[e + 1]]) = z + 2
    BY <2>7
  <2>12. enqueued' + 1 = z + 2 /\ dequeued' = dequeued /\ (e + 1) - 1 = e
    BY <1>7, <2>1
  <2> QED
    BY <1>15, <2>5, <2>8, <2>9, <2>10, <2>11, <2>12 DEF Cells, First
<1>25. FrontViews'
  <2>1. ASSUME NEW c \in Made, NEW g \in 0..Got[c], NEW i \in Slots, Spare(g, Put'[c], i)
        PROVE  mem[FrontOf(c)][g + Origin(c)].view[Slot(c, i)] = last'[Slot(c, i)]
    <3>1. Spare(g, Put[c], i) /\ (c = b => i # Wrap(p0))
      <4>1. CASE c # b
        BY <1>8, <1>15, <2>1, <4>1
      <4>2. CASE c = b
        <5>1. p0 \in g..(Put'[b] - 1) /\ \A p \in g..(p0 - 1) : p \in g..(Put'[b] - 1)
          BY <1>8, <1>11, <1>15, <4>2
        <5> QED
          BY <1>3, <2>1, <4>2, <5>1 DEF Spare
      <4> QED
        BY <4>1, <4>2
    <3>2. Slot(c, i) \in Locations \ {S, T, TailBlock}
      BY <1>8, <1>12, <3>1
    <3> QED
      BY <1>1, <1>14, <3>1, <3>2 DEF FrontViews
  <2> QED
    BY <1>8, <1>12, <1>14, <1>15, <2>1 DEF FrontViews
<1>26. FrontBlockViews'
  <2>1. ASSUME NEW m \in 1..n, NEW c \in Made, Outside(At', m, e + 1, c)
        PROVE  /\ mem[FrontBlock][m].view[FrontOf(c)] = last'[FrontOf(c)]
               /\ \A i \in Slots : mem[FrontBlock][m].view[Slot(c, i)] = last'[Slot(c, i)]
    <3>1. c # b /\ Outside(At, m, e, c)
      BY <1>6, <1>16, <2>1
    <3>2. FrontOf(c) \in Locations \ {S, T, TailBlock} /\ \A i \in Slots : Slot(c, i) \in Locations \ {S, T, TailBlock}
      BY <1>8, <1>12, <3>1
    <3>3. /\ mem[FrontBlock][m].view[FrontOf(c)] = last[FrontOf(c)]
          /\ \A i \in Slots : mem[FrontBlock][m].view[Slot(c, i)] = last[Slot(c, i)]
      BY <1>1, <1>5, <3>1 DEF FrontBlockViews
    <3> QED
      BY <1>14, <3>2, <3>3
  <2> QED
    BY <1>12, <1>14, <1>15, <2>1 DEF FrontBlockViews
<1>27. ProducerKnows'
  <2>1. Pc'[TailBlock] = e + 1
    BY <1>14
  <2>2. ASSUME NEW c \in Block
        PROVE  /\ Pc'[TailOf(c)] = last'[TailOf(c)] /\ Pc'[NextOf(c)] = last'[NextOf(c)]
               /\ Pc'[Built(c)] = last'[Built(c)]
    <3>1. Pc[TailOf(c)] = last[TailOf(c)] /\ Pc[NextOf(c)] = last[NextOf(c)] /\ Pc[Built(c)] = last[Built(c)]
      BY <1>1 DEF ProducerKnows
    <3> QED
      BY <1>4, <1>12, <1>14, <3>1
  <2>3. \A c \in Made : Pc'[FrontOf(c)] >= Origin(c)
    BY <1>1, <1>8, <1>12, <1>14 DEF ProducerKnows
  <2>4. ASSUME NEW j \in (n + 1)..(e + 1) PROVE Pc'[FrontOf(At'[j])] = last'[FrontOf(At'[j])]
    <3>1. CASE j = e + 1
      BY <1>2, <1>10, <1>12, <1>14, <1>15, <3>1
    <3>2. CASE j # e + 1
      <4>1. j \in (n + 1)..e /\ j \in 1..e
        BY <1>6, <3>2
      <4> QED
        BY <1>1, <1>5, <1>6, <1>12, <1>14, <1>15, <4>1 DEF ProducerKnows
    <3> QED
      BY <3>1, <3>2
  <2>5. ASSUME NEW c \in Made, NEW p \in Got[c]..(Put'[c] - 1)
        PROVE  Pc'[Slot(c, Wrap(p))] = last'[Slot(c, Wrap(p))]
    <3>1. CASE p \in Got[c]..(Put[c] - 1)
      <4>1. Pc[Slot(c, Wrap(p))] = last[Slot(c, Wrap(p))]
        BY <1>1, <3>1 DEF ProducerKnows
      <4> QED
        BY <1>14, <1>17, <3>1, <4>1
    <3>2. CASE c = b /\ p = p0
      BY <1>4, <1>14, <3>2
    <3> QED
      BY <1>3, <1>8, <1>15, <3>1, <3>2
  <2> QED
    BY <1>8, <1>15, <2>1, <2>2, <2>3, <2>4, <2>5 DEF ProducerKnows
\* What is ready or complete for a thread still is.
<1>28. ASSUME NEW v, NEW c \in Made, c # b
       PROVE  /\ Got[c] < Put[c] /\ Ready(v, c) =>
                   /\ v[FrontOf(c)] = last'[FrontOf(c)] /\ v[Built(c)] = last'[Built(c)]
                   /\ v[TailOf(c)] >= Got'[c] + 2
                   /\ v[Slot(c, Wrap(Got'[c]))] = last'[Slot(c, Wrap(Got'[c]))]
              /\ Complete(v, c) =>
                   /\ v[TailOf(c)] = last'[TailOf(c)] /\ v[NextOf(c)] = last'[NextOf(c)]
                   /\ \A p \in Got'[c]..(Put'[c] - 1) : v[Slot(c, Wrap(p))] = last'[Slot(c, Wrap(p))]
  <2>1. Got[c] < Put[c] => Got[c] \in Got[c]..(Put[c] - 1)
    BY <1>8
  <2>2. ASSUME NEW p \in Got[c]..(Put[c] - 1), Complete(v, c) PROVE v[Slot(c, Wrap(p))] = last'[Slot(c, Wrap(p))]
    BY <1>14, <1>17, <2>2 DEF Complete
  <2>3. Got'[c] = Got[c] /\ Put'[c] = Put[c] /\ c \in Block
    BY <1>8, <1>15, <1>28
  <2>4. /\ last'[FrontOf(c)] = last[FrontOf(c)] /\ last'[Built(c)] = last[Built(c)]
        /\ last'[TailOf(c)] = last[TailOf(c)] /\ last'[NextOf(c)] = last[NextOf(c)]
    BY <1>12, <1>14, <1>28, <2>3
  <2>5. Got[c] < Put[c] => last'[Slot(c, Wrap(Got[c]))] = last[Slot(c, Wrap(Got[c]))]
    BY <1>14, <1>17, <2>1
  <2>6. Got[c] < Put[c] /\ Ready(v, c) =>
          /\ v[FrontOf(c)] = last'[FrontOf(c)] /\ v[Built(c)] = last'[Built(c)]
          /\ v[TailOf(c)] >= Got'[c] + 2
          /\ v[Slot(c, Wrap(Got'[c]))] = last'[Slot(c, Wrap(Got'[c]))]
    BY <2>3, <2>4, <2>5 DEF Ready
  <2>7. Complete(v, c) =>
          /\ v[TailOf(c)] = last'[TailOf(c)] /\ v[NextOf(c)] = last'[NextOf(c)]
          /\ \A p \in Got'[c]..(Put'[c] - 1) : v[Slot(c, Wrap(p))] = last'[Slot(c, Wrap(p))]
    BY <2>2, <2>3, <2>4 DEF Complete
  <2> QED
    BY <2>6, <2>7
<1>29. TailBlockViews'
  <2>1. ASSUME NEW m \in 1..(e + 1), NEW j \in n..m, j > n PROVE Ready(mem[TailBlock][m].view, At[j])'
    <3>1. PICK v : v = mem'[TailBlock][m].view
      OBVIOUS
    <3>2. CASE m = e + 1
      <4>1. \A x \in Locations : v[x] = Pc'[x]
        BY <1>14, <3>1, <3>2
      <4>2. j \in (n + 1)..(e + 1) /\ j \in 1..(e + 1)
        BY <1>6, <2>1, <3>2
      <4>3. PICK c \in Made : c = At'[j]
        BY <1>15, <1>21, <4>2 DEF Histories
      <4>4. c \in Block /\ Got'[c] < Put'[c] /\ Got'[c] \in Nat /\ Put'[c] \in Nat
        BY <1>3, <1>8, <1>15, <1>23, <4>2, <4>3 DEF Counts
      <4>5. Got'[c] \in Got'[c]..(Put'[c] - 1)
        BY <4>4
      <4>6. /\ Pc'[FrontOf(c)] = last'[FrontOf(c)] /\ Pc'[Built(c)] = last'[Built(c)]
            /\ Pc'[TailOf(c)] = last'[TailOf(c)]
            /\ Pc'[Slot(c, Wrap(Got'[c]))] = last'[Slot(c, Wrap(Got'[c]))]
        BY <1>15, <1>27, <4>2, <4>3, <4>4, <4>5 DEF ProducerKnows
      <4>7. last'[TailOf(c)] = Put'[c] + 1
        <5>1. Put'[c] = last'[TailOf(c)] - 1 /\ last'[TailOf(c)] \in Nat
          BY <1>14, <4>4, RangesHoldNext, Kinds DEF Put, Ranges
        <5> QED
          BY <5>1
      <4>8. /\ FrontOf(c) \in Locations /\ TailOf(c) \in Locations /\ Built(c) \in Locations
            /\ Slot(c, Wrap(Got'[c])) \in Locations
        BY <1>9, <4>4, Kinds
      <4>9. v[TailOf(c)] >= Got'[c] + 2
        BY <4>1, <4>4, <4>6, <4>7, <4>8
      <4> QED
        BY <3>1, <4>1, <4>3, <4>6, <4>8, <4>9 DEF Ready
    <3>3. CASE m # e + 1
      <4>1. m \in 1..e /\ j \in (n + 1)..e /\ j \in 1..e /\ j \in h..e
        BY <1>6, <2>1, <3>3
      <4>2. PICK c \in Made : c = At[j] /\ c # b /\ At'[j] = c
        BY <1>6, <1>10, <1>15, <4>1
      <4>3. mem'[TailBlock][m] = mem[TailBlock][m]
        BY <1>5, <1>12, <1>14, <4>1 DEF Entered
      <4>4. Got[c] < Put[c] /\ Ready(v, c)
        BY <1>1, <1>5, <2>1, <3>1, <4>1, <4>2, <4>3 DEF Counts, TailBlockViews
      <4> QED
        BY <1>28, <3>1, <4>2, <4>4 DEF Ready
    <3> QED
      BY <3>2, <3>3
  <2>2. ASSUME NEW m \in 1..(e + 1), NEW j \in n..m, j < m PROVE Complete(mem[TailBlock][m].view, At[j])'
    <3>1. PICK v : v = mem'[TailBlock][m].view
      OBVIOUS
    <3>2. j \in 1..e /\ j \in h..e
      BY <1>6, <2>2
    <3>3. PICK c \in Made : c = At[j] /\ c # b /\ At'[j] = c /\ c \in Block
      BY <1>6, <1>10, <1>15, <3>2
    <3>4. CASE m = e + 1
      <4>1. \A x \in Locations : v[x] = Pc'[x]
        BY <1>14, <3>1, <3>4
      <4>2. /\ Pc'[TailOf(c)] = last'[TailOf(c)] /\ Pc'[NextOf(c)] = last'[NextOf(c)]
            /\ \A p \in Got'[c]..(Put'[c] - 1) : Pc'[Slot(c, Wrap(p))] = last'[Slot(c, Wrap(p))]
        BY <1>15, <1>27, <3>3 DEF ProducerKnows
      <4>3. /\ TailOf(c) \in Locations /\ NextOf(c) \in Locations
            /\ \A p \in Got'[c]..(Put'[c] - 1) : Slot(c, Wrap(p)) \in Locations
        BY <1>15, <1>17, <3>3, Kinds
      <4> QED
        BY <3>1, <3>3, <4>1, <4>2, <4>3 DEF Complete
    <3>5. CASE m # e + 1
      <4>1. m \in 1..e
        BY <3>5
      <4>2. mem'[TailBlock][m] = mem[TailBlock][m]
        BY <1>5, <1>12, <1>14, <4>1 DEF Entered
      <4>3. Complete(v, c)
        BY <1>1, <1>5, <2>2, <3>1, <3>3, <4>1, <4>2 DEF TailBlockViews
      <4> QED
        BY <1>28, <3>1, <3>3, <4>3 DEF Complete
    <3> QED
      BY <3>4, <3>5
  <2> QED
    BY <1>15, <2>1, <2>2 DEF TailBlockViews
<1>30. TailViews'
  <2>1. ASSUME NEW c \in Made, NEW q \in 0..Put'[c], NEW p \in Got[c]..(q - 1)
        PROVE  \/ mem'[TailOf(c)][q + 1].view[Slot(c, Wrap(p))] = last'[Slot(c, Wrap(p))]
               \/ Cc[Slot(c, Wrap(p))] = last'[Slot(c, Wrap(p))]
               \/ c # At[n] /\ p = Got[c]
    <3>1. CASE c # b
      <4>1. q \in 0..Put[c] /\ p \in Got[c]..(Put[c] - 1)
        BY <1>8, <1>15, <3>1
      <4>2. mem'[TailOf(c)] = mem[TailOf(c)]
        BY <1>8, <1>12, <1>14, <3>1
      <4>3. last'[Slot(c, Wrap(p))] = last[Slot(c, Wrap(p))]
        BY <1>14, <1>17, <4>1
      <4> QED
        BY <1>1, <1>5, <4>1, <4>2, <4>3 DEF TailViews
    <3>2. CASE c = b
      <4>1. p = Got[c]
        BY <1>2, <1>11, <1>15, <3>2
      <4>2. c # At[n]
        BY <1>6, <1>10, <3>2
      <4> QED
        BY <4>1, <4>2
    <3> QED
      BY <3>1, <3>2
  <2>2. At'[n] = At[n]
    BY <1>6, <1>15
  <2> QED
    BY <1>8, <1>14, <1>15, <2>1, <2>2 DEF TailViews
<1>31. ProducerRoom'
  <2>1. p0 \in 0..(Pc'[FrontOf(b)] - Origin(b)) /\ localFront'[b] = Wrap(p0) /\ Put'[b] - p0 < BlockSize
    <3>1. last[FrontOf(b)] = p0 + Origin(b) /\ Origin(b) \in 1..2
      BY <1>1, <1>2, <1>11, Shapes
    <3>2. Pc'[FrontOf(b)] = p0 + Origin(b)
      BY <1>2, <1>10, <1>12, <1>14, <3>1
    <3> QED
      BY <1>2, <1>7, <1>8, <1>10, <1>11, <1>15, <3>1, <3>2
  <2>2. ASSUME NEW i \in Slots PROVE Pc'[Slot(b, i)] = last'[Slot(b, i)]
    <3>1. CASE i = Wrap(p0)
      BY <1>4, <1>14, <3>1
    <3>2. CASE i # Wrap(p0)
      BY <1>2, <1>10, <1>12, <1>14, <3>2
    <3> QED
      BY <3>1, <3>2
  <2> QED
    BY <1>2, <1>15, <2>1, <2>2 DEF ProducerRoom, Room
<1>32. ProducerAt'
  BY <1>7 DEF ProducerAt
<1>33. ASSUME NEW c \in Made, Stock(c) PROVE Stock(c)'
  <2>1. \A p \in Got[c]..(Put[c] - 1) : last'[Slot(c, Wrap(p))] = last[Slot(c, Wrap(p))]
    BY <1>14, <1>17
  <2> QED
    BY <1>1, <1>7, <1>8, <1>14, <1>15, <1>33, <2>1, StockKept
<1>34. PICK f \in Made : f = At[n] /\ At'[n] = f /\ f # b
  BY <1>6, <1>10, <1>15
<1>35. ConsumerStock'
  <2>1. Stock(f)'
    BY <1>1, <1>5, <1>33, <1>34 DEF ConsumerStock
  <2> QED
    BY <1>15, <1>34, <2>1 DEF ConsumerStock, Stock
<1>36. ConsumerKnows'
  <2>1. Cc'[FrontBlock] = n /\ Cc'[TailBlock] >= n
    BY <1>1, <1>5, <1>14 DEF ConsumerKnows
  <2>2. ASSUME NEW c \in Made, Outside(At', n + 1, e + 1, c) PROVE Cc'[FrontOf(c)] = last'[FrontOf(c)]
    <3>1. n + 1 \in 1..(e + 1)
      BY <1>6
    <3>2. Outside(At, n + 1, e, c)
      BY <1>16, <2>2, <3>1
    <3> QED
      BY <1>1, <1>5, <1>8, <1>12, <1>14, <3>2 DEF ConsumerKnows
  <2>3. ASSUME NEW c \in Made, NEW i \in Slots, Spare(Got[c], Put'[c], i)
        PROVE  Cc'[Slot(c, i)] = last'[Slot(c, i)]
    <3>1. Spare(Got[c], Put[c], i) /\ (c = b => i # Wrap(p0))
      <4>1. CASE c # b
        BY <1>8, <1>15, <2>3, <4>1
      <4>2. CASE c = b
        <5>1. p0 \in Got[b]..(Put'[b] - 1) /\ \A p \in Got[b]..(p0 - 1) : p \in Got[b]..(Put'[b] - 1)
          BY <1>2, <1>8, <1>11, <1>15
        <5> QED
          BY <1>3, <2>3, <4>2, <5>1 DEF Spare
      <4> QED
        BY <4>1, <4>2
    <3>2. Slot(c, i) \in Locations \ {S, T, TailBlock}
      BY <1>8, <1>12, <3>1
    <3> QED
      BY <1>1, <1>14, <3>1, <3>2 DEF ConsumerKnows
  <2> QED
    BY <1>8, <1>15, <2>1, <2>2, <2>3 DEF ConsumerKnows
<1>37. ConsumerAt'
  <2>1. PICK a : a = At[n + 1]
    OBVIOUS
  <2>2. ASSUME cpc \in {"reloadTail", "loadNext", "loadNextTail", "advanceFrontBlock", "readNext"}
        PROVE  /\ n < e + 1 /\ Cc[TailBlock] > n /\ a \in Made /\ At'[n + 1] = a /\ a # b
               /\ Complete(Cc, f)' /\ Ready(Cc, a)'
    <3>1. n < e /\ Cc[TailBlock] > n /\ Complete(Cc, f) /\ Ready(Cc, a)
      BY <1>1, <1>5, <1>34, <2>1, <2>2 DEF ConsumerAt
    <3>2. n + 1 \in (n + 1)..e /\ n + 1 \in 1..e /\ n + 1 \in h..e
      BY <1>6, <3>1
    <3>3. a \in Made /\ Got[a] < Put[a] /\ a # b /\ At'[n + 1] = a
      BY <1>1, <1>5, <1>6, <1>10, <1>15, <2>1, <3>2 DEF Counts
    <3>4. Complete(Cc, f)'
      BY <1>14, <1>28, <1>34, <3>1 DEF Complete
    <3>5. Ready(Cc, a)'
      BY <1>14, <1>28, <3>1, <3>3 DEF Ready
    <3> QED
      BY <1>6, <3>1, <3>3, <3>4, <3>5
  <2>3. At'[Left'] = f /\ Got'[f] = Got[f] /\ Put'[f] = Put[f]
    BY <1>8, <1>15, <1>34
  <2>4. ASSUME cpc \in {"reloadTail", "loadNext", "loadNextTail", "advanceFrontBlock", "readNext"}
        PROVE  /\ Complete(Cc, At[Left])' /\ Ready(Cc, At[Left + 1])' /\ Left' < Entered' /\ Cc'[TailBlock] > Left'
               /\ At'[Left' + 1] = a
    BY <1>14, <1>15, <2>2, <2>3, <2>4 DEF Complete, Ready
  <2>5. ASSUME cpc = "advanceFrontBlock" PROVE Stock(At[Left + 1])' /\ Wrap(Got'[a]) # localTail'[a]
    <3>1. Stock(a) /\ Wrap(Got[a]) # localTail[a] /\ a \in Made
      BY <1>1, <1>5, <2>1, <2>2, <2>5 DEF ConsumerAt
    <3>2. Stock(a)'
      BY <1>33, <3>1
    <3>3. Stock(At[Left + 1])'
      BY <2>4, <2>5, <3>2 DEF Stock
    <3> QED
      BY <1>7, <1>8, <1>15, <3>1, <3>3
  <2>6. cpc \in {"loadNext", "loadNextTail", "advanceFrontBlock", "readNext"} => Got'[f] = Put'[f]
    BY <1>1, <1>5, <1>34, <2>3 DEF ConsumerAt
  <2>7. cpc \in {"loadNextTail", "advanceFrontBlock", "readNext"} => cblock' = a
    BY <1>1, <1>5, <1>7, <2>1 DEF ConsumerAt
  <2>8. cpc \in {"read", "move"} => Wrap(Got'[f]) # localTail'[f]
    BY <1>1, <1>5, <1>7, <1>34, <2>3 DEF ConsumerAt
  <2> QED
    BY <1>7, <2>3, <2>4, <2>5, <2>6, <2>7, <2>8 DEF ConsumerAt
<1> QED
  BY <1>14, <1>20, <1>21, <1>22, <1>23, <1>24, <1>25, <1>26, <1>27, <1>29, <1>30, <1>31, <1>32,
     <1>35, <1>36, <1>37 DEF WInv

\* Values bring views of what was stored, in the next state as well.
Bounded ==
  \A l, x \in Locations : \A k \in 1..last[l] :
    /\ mem[l][k].view[x] \in Nat
    /\ 1 <= mem[l][k].view[x] /\ mem[l][k].view[x] <= last[x]

\* Memory says so.
LEMMA BoundedHolds == Memory => Bounded
BY Messages DEF Bounded

\* The same of the next state.
LEMMA BoundedHoldsNext == Memory' => Bounded'
BY BoundedHolds, PTL

\* The producer makes a block with its element, links it and enters it.
LEMMA MakeBlockStep ==
  ASSUME WInv, MakeBlock
  PROVE  WInv'
<1>1. /\ Memory /\ Control /\ Histories /\ Circle /\ Counts /\ Cells
      /\ FrontViews /\ FrontBlockViews /\ TailBlockViews /\ TailViews
      /\ ProducerRoom /\ ProducerKnows /\ ProducerAt
      /\ ConsumerStock /\ ConsumerKnows /\ ConsumerAt
  BY DEF WInv
<1>2. PICK t \in Made, o \in Made : t = tb /\ t = At[Entered] /\ t \in Block /\ o = nb /\ o = now[NextOf(t)]
  BY <1>1, Ends
<1>3. PICK b \in Nat : b = blocks + 1
  BY <1>1, Shapes
<1>4. PICK S, N : S = Slot(b, 0) /\ N = {Built(b), FrontOf(b), S, TailOf(b), NextOf(b), NextOf(t), TailBlock}
  OBVIOUS
<1>5. PICK e \in Nat, n \in Nat, h \in Nat : e = Entered /\ n = Left /\ h = Pc[FrontBlock]
  BY <1>1, Ends
<1>6. 1 <= h /\ h <= n /\ n <= e /\ \A j \in 1..e : At[j] \in Made /\ At[j] \in Block
  BY <1>1, <1>5, Ends
\* The step.
<1>7. /\ ppc = "alloc" /\ ppc' = "idle" /\ enqueued' = enqueued + 1 /\ blocks < MaxBlocks /\ blocks' = b
      /\ localTail' = [localTail EXCEPT ![b] = 1]
      /\ UNCHANGED <<localFront, cpc, cblock, dequeued, spc, walk>>
  BY <1>3 DEF MakeBlock, consVars, sizeVars
<1>8. /\ \A c \in Made : c \in Block /\ Got[c] \in Nat /\ Put[c] \in Nat /\ Got[c] <= Put[c]
      /\ BlockSize \in Nat /\ BlockSize >= 2
  BY <1>1, Ends, WeakAssumption DEF Counts
<1>9. /\ Wrap(0) = 0 /\ Wrap(1) = 1 /\ 0 \in Slots /\ 1 \in Slots
      /\ \A p \in Nat : Wrap(p) \in Slots
  BY <1>8, WrapFacts DEF Slots
<1>10. /\ b \in Block /\ b \notin Made /\ Origin(b) = 2 /\ Made' = Made \cup {b}
       /\ \A c \in Made : c # b
  <2>1. blocks \in Nat /\ blocks >= 1 /\ MaxBlocks \in Nat
    BY <1>1, Shapes, WeakAssumption
  <2>2. b \in 1..MaxBlocks /\ b \notin 1..blocks /\ b # 1 /\ 1..b = (1..blocks) \cup {b}
    BY <1>3, <1>7, <2>1
  <2> QED
    BY <1>7, <2>2 DEF Block, Made, Origin
<1>11. /\ Put[b] = 0 /\ Got[b] = -1 /\ localFront[b] = 0 /\ mem[TailOf(b)][1].val = 0
       /\ \A i \in Slots : last[Slot(b, i)] = 1
       /\ last[TailOf(b)] = 1 /\ last[FrontOf(b)] = 1
  <2>1. /\ Put[b] = 0 /\ Got[b] = -1 /\ localFront[b] = 0 /\ mem[TailOf(b)][1].val = 0
        /\ \A i \in Slots : last[Slot(b, i)] = 1
    BY <1>1, <1>10 DEF Histories
  <2> QED
    BY <1>1, <1>10, <2>1, Shapes
<1>12. /\ N \subseteq Locations /\ TailBlock \in N /\ S \in N /\ TailOf(b) \in N /\ FrontOf(b) \in N
       /\ NextOf(b) \in N /\ NextOf(t) \in N /\ Built(b) \in N
       /\ FrontBlock \in Locations \ N
       /\ \A c \in Block \ {b} : FrontOf(c) \in Locations \ N /\ Built(c) \in Locations \ N /\ TailOf(c) \in Locations \ N
       /\ \A c \in Block \ {b, t} : NextOf(c) \in Locations \ N
       /\ \A c \in Block, i \in Slots : c # b \/ i # 0 => Slot(c, i) \in Locations \ N
  <2>1. N \subseteq Locations
    BY <1>2, <1>4, <1>9, <1>10, Kinds
  <2>2. FrontBlock \notin N
    BY <1>4, Kinds
  <2>3. \A c \in Block \ {b} : FrontOf(c) \notin N /\ Built(c) \notin N /\ TailOf(c) \notin N
    BY <1>4, Kinds
  <2>4. \A c \in Block \ {b, t} : NextOf(c) \notin N
    BY <1>4, Kinds
  <2>5. \A c \in Block, i \in Slots : c # b \/ i # 0 => Slot(c, i) \notin N
    BY <1>4, Kinds
  <2> QED
    BY <1>4, <2>1, <2>2, <2>3, <2>4, <2>5, Kinds
<1>13. /\ Publishes("producer", N, TailBlock) /\ now'[TailBlock] = b /\ now'[S] = enqueued + 1
       /\ now'[FrontOf(b)] = 0 /\ now'[TailOf(b)] = 1 /\ now'[NextOf(b)] = o /\ now'[NextOf(t)] = b
  <2>1. PICK v \in Nat : v = enqueued + 1
    BY <1>1 DEF Control
  <2>2. PICK new : new = [l \in {Built(b), FrontOf(b), S, TailOf(b), NextOf(b), NextOf(t)} |->
                            CASE l = FrontOf(b)  -> 0
                              [] l = S           -> v
                              [] l = NextOf(b)   -> o
                              [] l = NextOf(t)   -> b
                              [] OTHER           -> 1]
    OBVIOUS
  <2>3. DOMAIN new = {Built(b), FrontOf(b), S, TailOf(b), NextOf(b), NextOf(t)}
    BY <2>2
  <2>4. o \in Nat
    BY <1>1, Shapes
  <2>5. /\ FrontOf(b) # S /\ FrontOf(b) # NextOf(b) /\ FrontOf(b) # NextOf(t) /\ S # NextOf(b) /\ S # NextOf(t)
        /\ NextOf(b) # NextOf(t) /\ \A l \in {TailOf(b), Built(b)} : l \notin {FrontOf(b), S, NextOf(b), NextOf(t)}
    BY <1>2, <1>4, <1>10, Kinds
  <2>6. /\ new[FrontOf(b)] = 0 /\ new[S] = v /\ new[NextOf(b)] = o /\ new[NextOf(t)] = b
        /\ new[TailOf(b)] = 1 /\ new[Built(b)] = 1
    BY <2>2, <2>5
  <2>7. NewBlockLinked(b) = Stores(Sees("producer"), new)
    BY <1>2, <1>4, <2>1, <2>2 DEF NewBlockLinked, P
  <2>8. Becomes("producer", Store(ReleaseFence(Stores(Sees("producer"), new)), TailBlock, b))
    BY <1>3, <2>7 DEF MakeBlock
  <2>9. "producer" \in Threads
    BY DEF Threads
  <2>10. /\ Publishes("producer", DOMAIN new \cup {TailBlock}, TailBlock) /\ now'[TailBlock] = b
         /\ \A x \in DOMAIN new : now'[x] = new[x]
    <3>1. TailBlock \notin DOMAIN new
      BY <1>4, <2>3, Kinds
    <3>2. DOMAIN new \subseteq Locations /\ TailBlock \in Locations
      BY <1>4, <1>12, <2>3
    <3>3. \A x \in DOMAIN new : new[x] \in Nat
      BY <1>3, <2>1, <2>3, <2>4, <2>6
    <3> QED
      BY <1>1, <2>8, <2>9, <3>1, <3>2, <3>3, MoreStores
  <2>11. DOMAIN new \cup {TailBlock} = N
    BY <1>4, <2>3
  <2> QED
    BY <2>1, <2>3, <2>6, <2>10, <2>11
<1>14. /\ Memory' /\ Cc' = Cc
       /\ \A x \in Locations \ N : mem'[x] = mem[x] /\ last'[x] = last[x] /\ now'[x] = now[x] /\ Pc'[x] = Pc[x]
       /\ \A x \in N : last'[x] = last[x] + 1 /\ Pc'[x] = last'[x]
       /\ last'[TailBlock] = e + 1 /\ Pc'[TailBlock] = e + 1
       /\ \A x \in Locations : \A k \in 1..last[x] : mem'[x][k] = mem[x][k]
       /\ \A x \in Locations : mem'[TailBlock][e + 1].view[x] = Pc'[x]
  BY <1>5, <1>12, <1>13 DEF Publishes, Pc, Cc, Threads, Entered
<1>15. /\ Put'[b] = 1 /\ Got'[b] = 0 /\ \A c \in Block \ {b} : Put'[c] = Put[c] /\ Got'[c] = Got[c]
       /\ Entered' = e + 1 /\ Left' = n /\ Pc'[FrontBlock] = h
       /\ \A j \in 1..e : At'[j] = At[j]
       /\ At'[e + 1] = b
  <2>1. \A c \in Block : Put'[c] = last'[TailOf(c)] - 1 /\ Got'[c] = last'[FrontOf(c)] - Origin(c)
    BY DEF Put, Got
  <2>2. \A c \in Block : Put[c] = last[TailOf(c)] - 1 /\ Got[c] = last[FrontOf(c)] - Origin(c)
    BY DEF Put, Got
  <2>3. last'[TailOf(b)] = 2 /\ last'[FrontOf(b)] = 2
    BY <1>11, <1>12, <1>14
  <2>4. Put'[b] = 1 /\ Got'[b] = 0
    BY <1>10, <2>1, <2>3
  <2>5. last'[FrontBlock] = last[FrontBlock]
    BY <1>12, <1>14
  <2>6. Len(mem'[TailBlock]) = e + 1
    BY <1>12, <1>14, RangesHoldNext DEF Ranges
  <2>7. At' = [j \in 1..(e + 1) |-> mem'[TailBlock][j].val]
    BY <2>6 DEF At
  <2>8. ASSUME NEW j \in 1..e PROVE At'[j] = At[j]
    <3>1. j \in 1..(e + 1) /\ mem'[TailBlock][j] = mem[TailBlock][j]
      BY <1>5, <1>12, <1>14 DEF Entered
    <3> QED
      BY <1>1, <1>5, <2>7, <3>1, Shapes
  <2>9. At'[e + 1] = b
    <3>1. now'[TailBlock] = mem'[TailBlock][e + 1].val
      BY <1>12, <2>6 DEF now
    <3>2. e + 1 \in 1..(e + 1)
      BY <1>5
    <3> QED
      BY <1>13, <2>7, <3>1, <3>2
  <2> QED
    BY <1>5, <1>12, <1>14, <2>1, <2>2, <2>4, <2>5, <2>8, <2>9 DEF Entered, Left
<1>16. ASSUME NEW m \in 1..(e + 1), NEW c, Outside(At', m, e + 1, c) PROVE c # b /\ Outside(At, m, e, c)
  <2>1. e + 1 \in m..(e + 1) /\ \A j \in m..e : j \in m..(e + 1) /\ j \in 1..e
    OBVIOUS
  <2> QED
    BY <1>15, <1>16, <2>1 DEF Outside
<1>17. \A c \in Made : \A p \in Got[c]..(Put[c] - 1) : p \in Nat /\ Slot(c, Wrap(p)) \in Locations \ N
  <2>1. ASSUME NEW c \in Made, NEW p \in Got[c]..(Put[c] - 1)
        PROVE  p \in Nat /\ Slot(c, Wrap(p)) \in Locations \ N
    <3>1. p \in Nat /\ c \in Block /\ c # b
      BY <1>8, <1>10
    <3> QED
      BY <1>9, <1>12, <3>1
  <2> QED
    BY <2>1
<1>18. \A j \in h..e : At[j] = t => j = e
  BY <1>1, <1>2, <1>5, <1>6 DEF Circle
<1>19. \A c \in Made : now[NextOf(c)] \in Made /\ now[NextOf(c)] # b
  BY <1>1, <1>10 DEF Histories
\* The conjuncts.
<1>20. Control'
  <2>1. enqueued < MaxElements /\ enqueued \in 0..MaxElements /\ dequeued \in 0..enqueued /\ MaxElements \in Nat
    BY <1>1, <1>7, WeakAssumption DEF Control
  <2>2. enqueued + 1 \in 0..MaxElements /\ dequeued \in 0..(enqueued + 1)
    BY <2>1
  <2>3. localTail' \in [Block -> Slots]
    BY <1>1, <1>7, <1>9 DEF Control
  <2> QED
    BY <1>1, <1>7, <1>10, <2>2, <2>3 DEF Control
<1>21. Histories'
  <2>1. ASSUME NEW c \in Made \cup {b}, NEW q \in 0..Put'[c] PROVE mem'[TailOf(c)][q + 1].val = Wrap(q)
    <3>1. CASE c # b
      BY <1>1, <1>8, <1>12, <1>14, <1>15, <3>1 DEF Histories
    <3>2. CASE c = b /\ q = 0
      <4>1. 1 \in 1..last[TailOf(b)] /\ TailOf(b) \in Locations
        BY <1>11, <1>12
      <4> QED
        BY <1>9, <1>11, <1>14, <3>2, <4>1
    <3>3. CASE c = b /\ q = 1
      <4>1. last'[TailOf(b)] = 2
        BY <1>11, <1>12, <1>14
      <4>2. now'[TailOf(b)] = mem'[TailOf(b)][last'[TailOf(b)]].val
        BY <1>12, <1>14, RangesHoldNext DEF Ranges, now
      <4> QED
        BY <1>9, <1>13, <3>3, <4>1, <4>2
    <3> QED
      BY <1>15, <3>1, <3>2, <3>3
  <2>2. ASSUME NEW c \in Made \cup {b}
        PROVE  /\ Got'[c] >= 0 /\ now'[NextOf(c)] \in Made \cup {b}
               /\ \A g \in 0..Got'[c] : mem'[FrontOf(c)][g + Origin(c)].val = Wrap(g)
    <3>1. CASE c = b
      <4>1. last'[FrontOf(b)] = 2
        BY <1>11, <1>12, <1>14
      <4>2. now'[FrontOf(b)] = mem'[FrontOf(b)][last'[FrontOf(b)]].val
        BY <1>12, <1>14, RangesHoldNext DEF Ranges, now
      <4>3. \A g \in 0..Got'[b] : g = 0 /\ g + Origin(b) = 2
        BY <1>10, <1>15
      <4> QED
        BY <1>9, <1>13, <1>15, <3>1, <4>1, <4>2, <4>3
    <3>2. CASE c # b
      <4>1. now'[NextOf(c)] \in Made \cup {b}
        BY <1>8, <1>12, <1>13, <1>14, <1>19, <3>2
      <4> QED
        BY <1>1, <1>8, <1>12, <1>14, <1>15, <3>2, <4>1 DEF Histories
    <3> QED
      BY <3>1, <3>2
  <2>3. ASSUME NEW c \in Block \ (Made \cup {b})
        PROVE  /\ Put'[c] = 0 /\ Got'[c] = -1 /\ localFront'[c] = 0
               /\ mem'[TailOf(c)][1].val = 0
               /\ \A i \in Slots : last'[Slot(c, i)] = 1
    <3>1. c # b
      OBVIOUS
    <3>2. Put[c] = 0 /\ Got[c] = -1 /\ localFront[c] = 0 /\ mem[TailOf(c)][1].val = 0 /\ \A i \in Slots : last[Slot(c, i)] = 1
      BY <1>1 DEF Histories
    <3> QED
      BY <1>7, <1>12, <1>14, <1>15, <3>1, <3>2
  <2>4. ASSUME NEW j \in 1..n PROVE mem'[FrontBlock][j].val = At'[j]
    <3>1. j \in 1..e
      BY <1>6
    <3> QED
      BY <1>1, <1>5, <1>12, <1>14, <1>15, <3>1 DEF Histories
  <2>5. \A j \in 1..(e + 1) : At'[j] \in Made \cup {b}
    BY <1>6, <1>15
  <2>6. n <= e + 1
    BY <1>6
  <2> QED
    BY <1>10, <1>15, <2>1, <2>2, <2>3, <2>4, <2>5, <2>6 DEF Histories
<1>22. Circle'
  <2>1. /\ \A c \in Made : c # t => now'[NextOf(c)] = now[NextOf(c)]
        /\ now'[NextOf(t)] = b /\ now'[NextOf(b)] = o
    BY <1>8, <1>10, <1>12, <1>13, <1>14
  <2>2. ASSUME NEW j \in h..e PROVE now'[NextOf(At'[j])] = At'[j + 1]
    <3>1. CASE j = e
      BY <1>2, <1>5, <1>6, <1>15, <2>1, <3>1
    <3>2. CASE j # e
      <4>1. j \in h..(e - 1) /\ j \in 1..e /\ j + 1 \in 1..e
        BY <1>6, <3>2
      <4> QED
        BY <1>1, <1>5, <1>6, <1>15, <1>18, <2>1, <3>2, <4>1 DEF Circle
    <3> QED
      BY <3>1, <3>2
  <2>3. ASSUME NEW i \in h..(e + 1), NEW j \in h..(e + 1), At'[i] = At'[j] PROVE i = j
    <3>1. CASE i \in h..e /\ j \in h..e
      BY <1>1, <1>5, <1>6, <1>15, <2>3, <3>1 DEF Circle
    <3>2. CASE i = e + 1 /\ j \in h..e
      BY <1>6, <1>10, <1>15, <2>3, <3>2
    <3>3. CASE i \in h..e /\ j = e + 1
      BY <1>6, <1>10, <1>15, <2>3, <3>3
    <3> QED
      BY <3>1, <3>2, <3>3
  <2>4. ASSUME NEW c \in Made \cup {b}, Outside(At', h, e + 1, c) \/ c = b
        PROVE  Outside(At', h, e + 1, now'[NextOf(c)]) \/ now'[NextOf(c)] = At'[h]
    <3>1. PICK c0 \in Made : /\ now'[NextOf(c)] = now[NextOf(c0)]
                              /\ (Outside(At, h, e, c0) \/ c0 = At[e])
      <4>1. CASE c = b
        BY <1>2, <1>5, <2>1, <4>1
      <4>2. CASE c # b
        <5>1. Outside(At, h, e, c)
          BY <1>6, <1>16, <2>4, <4>2
        <5>2. c # t
          BY <1>2, <1>5, <1>6, <5>1 DEF Outside
        <5> QED
          BY <2>1, <4>2, <5>1, <5>2
      <4> QED
        BY <4>1, <4>2
    <3>2. PICK d : d = now[NextOf(c0)]
      OBVIOUS
    <3>3. (Outside(At, h, e, d) \/ d = At[h]) /\ d # b
      BY <1>1, <1>5, <1>19, <3>1, <3>2 DEF Circle
    <3>4. Outside(At, h, e, d) => Outside(At', h, e + 1, d)
      <4>1. \A j \in h..(e + 1) : j = e + 1 \/ (j \in h..e /\ j \in 1..e)
        BY <1>6
      <4> QED
        BY <1>15, <3>3, <4>1 DEF Outside
    <3> QED
      BY <1>6, <1>15, <3>1, <3>2, <3>3, <3>4
  <2>5. ASSUME NEW c \in Made \cup {b}, NEW d \in Made \cup {b}, now'[NextOf(c)] = now'[NextOf(d)] PROVE c = d
    <3>1. \A x, y \in Made : now[NextOf(x)] = now[NextOf(y)] => x = y
      BY <1>1 DEF Circle
    \* Whose successor a block is now was the successor of another before.
    <3>2. PICK x, y : /\ x = (IF c = b THEN t ELSE c) /\ y = (IF d = b THEN t ELSE d)
      OBVIOUS
    <3>3. CASE c = t \/ d = t
      <4>1. ASSUME NEW z \in Made \cup {b}, now'[NextOf(z)] = b PROVE z = t
        <5>1. z # b
          BY <1>2, <1>10, <2>1, <4>1
        <5> QED
          BY <1>19, <2>1, <4>1, <5>1
      <4> QED
        BY <2>1, <2>5, <3>3, <4>1
    <3>4. CASE c # t /\ d # t
      <4>1. x \in Made /\ y \in Made /\ (x = y => c = d)
        BY <1>2, <3>2, <3>4
      <4>2. now'[NextOf(c)] = now[NextOf(x)] /\ now'[NextOf(d)] = now[NextOf(y)]
        BY <1>2, <2>1, <3>2, <3>4
      <4> QED
        BY <2>5, <3>1, <4>1, <4>2
    <3> QED
      BY <3>3, <3>4
  <2>6. Entered' - 1 = e
    BY <1>15
  <2> QED
    BY <1>10, <1>15, <2>2, <2>3, <2>4, <2>5, <2>6 DEF Circle
<1>23. Counts'
  <2>1. ASSUME NEW c \in Made \cup {b} PROVE Got'[c] <= Put'[c] /\ Put'[c] - Got'[c] < BlockSize
    <3>1. CASE c = b
      BY <1>8, <1>15, <3>1
    <3>2. CASE c # b
      BY <1>1, <1>8, <1>15, <3>2 DEF Counts
    <3> QED
      BY <3>1, <3>2
  <2>2. ASSUME NEW c \in Made \cup {b}, Outside(At', n, e + 1, c) PROVE Got'[c] = Put'[c]
    <3>1. c # b /\ Outside(At, n, e, c)
      BY <1>6, <1>16, <2>2
    <3> QED
      BY <1>1, <1>5, <1>8, <1>15, <3>1 DEF Counts
  <2>3. ASSUME NEW j \in (n + 1)..(e + 1) PROVE Got'[At'[j]] < Put'[At'[j]]
    <3>1. CASE j = e + 1
      BY <1>15, <3>1
    <3>2. CASE j # e + 1
      <4>1. j \in (n + 1)..e /\ j \in 1..e /\ j \in h..e
        BY <1>6, <3>2
      <4>2. At[j] \in Block /\ Got[At[j]] < Put[At[j]] /\ At[j] # b
        BY <1>1, <1>5, <1>6, <1>10, <4>1 DEF Counts
      <4> QED
        BY <1>15, <4>1, <4>2
    <3> QED
      BY <3>1, <3>2
  <2> QED
    BY <1>10, <1>15, <2>1, <2>2, <2>3 DEF Counts
<1>24. Cells'
  <2>1. PICK z \in Nat : z = enqueued
    BY <1>1 DEF Control
  <2>2. /\ First(At[e]) + (Put[At[e]] - Got[At[e]]) = z + 1 /\ First(At[n]) = dequeued + 1
    BY <1>1, <1>5, <2>1 DEF Cells
  <2>3. ASSUME NEW c \in Made, c # b PROVE First(c)' = First(c)
    <3>1. Got[c] < Put[c] => Got[c] \in Got[c]..(Put[c] - 1)
      BY <1>8
    <3>2. Got[c] < Put[c] => now'[Slot(c, Wrap(Got[c]))] = now[Slot(c, Wrap(Got[c]))]
      BY <1>14, <1>17, <3>1
    <3> QED
      BY <1>7, <1>8, <1>15, <2>3, <3>2 DEF First
  <2>4. First(b)' = z + 1
    <3>1. Got'[b] < Put'[b] /\ Got'[b] = 0
      BY <1>15
    <3> QED
      BY <1>4, <1>9, <1>13, <2>1, <3>1 DEF First
  <2>5. ASSUME NEW c \in Made \cup {b}, NEW p \in Got'[c]..(Put'[c] - 1)
        PROVE  now'[Slot(c, Wrap(p))] = now'[Slot(c, Wrap(Got'[c]))] + (p - Got'[c])
    <3>1. CASE c # b
      <4>1. c \in Made
        BY <3>1
      <4>2. p \in Got[c]..(Put[c] - 1) /\ Got[c] \in Got[c]..(Put[c] - 1) /\ Got'[c] = Got[c]
        BY <1>8, <1>15, <3>1, <4>1
      <4>3. now[Slot(c, Wrap(p))] = now[Slot(c, Wrap(Got[c]))] + (p - Got[c])
        BY <1>1, <4>1, <4>2 DEF Cells
      <4> QED
        BY <1>14, <1>17, <4>1, <4>2, <4>3
    <3>2. CASE c = b
      <4>1. p = 0 /\ Got'[c] = 0
        BY <1>15, <3>2
      <4> QED
        BY <1>4, <1>9, <1>13, <2>1, <3>2, <4>1
    <3> QED
      BY <3>1, <3>2
  <2>6. ASSUME NEW j \in n..e
        PROVE  /\ First(At[j])' = First(At[j]) /\ Got'[At'[j]] = Got[At[j]] /\ Put'[At'[j]] = Put[At[j]]
               /\ At'[j] = At[j] /\ First(At[j]) + (Put[At[j]] - Got[At[j]]) <= z + 1
    <3>1. j \in 1..e /\ j \in h..e
      BY <1>6
    <3>2. At[j] \in Made /\ At[j] \in Block /\ At[j] # b /\ At'[j] = At[j]
      BY <1>6, <1>10, <1>15, <3>1
    <3>3. First(At[j])' = First(At[j])
      BY <2>3, <3>2 DEF First
    <3> QED
      BY <1>1, <1>5, <1>15, <2>1, <3>2, <3>3 DEF Cells
  <2>7. First(At[e + 1])' = z + 1 /\ Put'[At'[e + 1]] = 1 /\ Got'[At'[e + 1]] = 0
    BY <1>15, <2>4 DEF First
  <2>8. First(At[n])' = dequeued + 1
    BY <1>6, <2>2, <2>6
  <2>9. ASSUME NEW j \in n..e
        PROVE  First(At[j])' + (Put'[At'[j]] - Got'[At'[j]]) = First(At[j + 1])'
    <3>1. CASE j = e
      BY <2>2, <2>6, <2>7, <3>1
    <3>2. CASE j # e
      <4>1. j \in n..(e - 1) /\ j + 1 \in n..e
        BY <1>6, <3>2
      <4>2. First(At[j]) + (Put[At[j]] - Got[At[j]]) = First(At[j + 1])
        BY <1>1, <1>5, <4>1 DEF Cells
      <4> QED
        BY <2>6, <4>1, <4>2
    <3> QED
      BY <3>1, <3>2
  <2>10. ASSUME NEW j \in n..(e + 1)
         PROVE  First(At[j])' + (Put'[At'[j]] - Got'[At'[j]]) <= z + 2
    <3>1. CASE j = e + 1
      BY <2>7, <3>1
    <3>2. CASE j # e + 1
      <4>1. j \in n..e
        BY <1>6, <3>2
      <4>2. At[j] \in Made
        BY <1>6, <4>1
      <4>3. PICK f \in Nat : f = First(At[j])
        <5>1. \A l \in Locations : now[l] \in Nat
          BY <1>1, Messages
        <5>2. dequeued \in Nat
          BY <1>1 DEF Control
        <5>3. now[Slot(At[j], Wrap(Got[At[j]]))] \in Nat
          BY <1>8, <1>9, <4>2, <5>1, Kinds
        <5>4. First(At[j]) \in Nat
          BY <5>2, <5>3 DEF First
        <5> QED
          BY <5>4
      <4> QED
        BY <1>8, <2>6, <4>1, <4>2, <4>3
    <3> QED
      BY <3>1, <3>2
  <2>11. First(At[e + 1])' + (Put'[At'[e + 1]] - Got'[At'[e + 1]]) = z + 2
    BY <2>7
  <2>12. enqueued' + 1 = z + 2 /\ dequeued' = dequeued /\ (e + 1) - 1 = e
    BY <1>7, <2>1
  <2> QED
    BY <1>10, <1>15, <2>5, <2>8, <2>9, <2>10, <2>11, <2>12 DEF Cells, First
<1>25. FrontViews'
  <2>1. ASSUME NEW c \in Made, NEW g \in 0..Got[c], NEW i \in Slots, Spare(g, Put[c], i)
        PROVE  mem'[FrontOf(c)][g + Origin(c)].view[Slot(c, i)] = last'[Slot(c, i)]
    <3>1. mem[FrontOf(c)][g + Origin(c)].view[Slot(c, i)] = last[Slot(c, i)]
      BY <1>1, <2>1 DEF FrontViews
    <3>2. Slot(c, i) \in Locations \ N /\ FrontOf(c) \in Locations \ N
      BY <1>8, <1>10, <1>12
    <3> QED
      BY <1>14, <3>1, <3>2
  <2>2. ASSUME NEW i \in Slots, Spare(0, 1, i)
        PROVE  mem'[FrontOf(b)][2].view[Slot(b, i)] = last'[Slot(b, i)]
    <3>1. i # 0
      <4>1. 0 \in 0..(1 - 1)
        OBVIOUS
      <4> QED
        BY <1>9, <2>2, <4>1 DEF Spare
    <3>2. Slot(b, i) \in Locations \ N
      BY <1>10, <1>12, <3>1
    <3>3. last'[Slot(b, i)] = 1
      BY <1>11, <1>14, <3>2
    <3>4. last'[FrontOf(b)] = 2 /\ FrontOf(b) \in Locations
      BY <1>11, <1>12, <1>14
    <3>5. /\ mem'[FrontOf(b)][2].view[Slot(b, i)] \in Nat
          /\ 1 <= mem'[FrontOf(b)][2].view[Slot(b, i)]
          /\ mem'[FrontOf(b)][2].view[Slot(b, i)] <= last'[Slot(b, i)]
      <4>1. 2 \in 1..last'[FrontOf(b)]
        BY <3>4
      <4> QED
        BY <1>14, <3>2, <3>4, <4>1, BoundedHoldsNext DEF Bounded
    <3> QED
      BY <3>3, <3>5
  <2>3. ASSUME NEW c \in Made \cup {b}, NEW g \in 0..Got'[c], NEW i \in Slots, Spare(g, Put'[c], i)
        PROVE  mem'[FrontOf(c)][g + Origin(c)].view[Slot(c, i)] = last'[Slot(c, i)]
    <3>1. CASE c = b
      <4>1. g = 0 /\ g + Origin(b) = 2 /\ Put'[b] = 1
        BY <1>10, <1>15, <3>1
      <4> QED
        BY <2>2, <2>3, <3>1, <4>1
    <3>2. CASE c # b
      BY <1>8, <1>15, <2>1, <2>3, <3>2
    <3> QED
      BY <3>1, <3>2
  <2> QED
    BY <1>10, <2>3 DEF FrontViews
<1>26. FrontBlockViews'
  <2>1. ASSUME NEW m \in 1..n, NEW c \in Made \cup {b}, Outside(At', m, e + 1, c)
        PROVE  /\ mem[FrontBlock][m].view[FrontOf(c)] = last'[FrontOf(c)]
               /\ \A i \in Slots : mem[FrontBlock][m].view[Slot(c, i)] = last'[Slot(c, i)]
    <3>1. c # b /\ Outside(At, m, e, c)
      BY <1>6, <1>16, <2>1
    <3>2. FrontOf(c) \in Locations \ N /\ \A i \in Slots : Slot(c, i) \in Locations \ N
      BY <1>8, <1>12, <3>1
    <3>3. /\ mem[FrontBlock][m].view[FrontOf(c)] = last[FrontOf(c)]
          /\ \A i \in Slots : mem[FrontBlock][m].view[Slot(c, i)] = last[Slot(c, i)]
      BY <1>1, <1>5, <3>1 DEF FrontBlockViews
    <3> QED
      BY <1>14, <3>2, <3>3
  <2> QED
    BY <1>10, <1>12, <1>14, <1>15, <2>1 DEF FrontBlockViews
<1>27. ProducerKnows'
  <2>1. Pc'[TailBlock] = e + 1
    BY <1>14
  <2>2. ASSUME NEW c \in Block
        PROVE  /\ Pc'[TailOf(c)] = last'[TailOf(c)] /\ Pc'[NextOf(c)] = last'[NextOf(c)]
               /\ Pc'[Built(c)] = last'[Built(c)]
    <3>1. Pc[TailOf(c)] = last[TailOf(c)] /\ Pc[NextOf(c)] = last[NextOf(c)] /\ Pc[Built(c)] = last[Built(c)]
      BY <1>1 DEF ProducerKnows
    <3> QED
      BY <1>2, <1>12, <1>14, <3>1
  <2>3. ASSUME NEW c \in Made \cup {b} PROVE Pc'[FrontOf(c)] >= Origin(c)
    <3>1. CASE c = b
      BY <1>10, <1>11, <1>12, <1>14, <3>1
    <3>2. CASE c # b
      BY <1>1, <1>8, <1>12, <1>14, <3>2 DEF ProducerKnows
    <3> QED
      BY <3>1, <3>2
  <2>4. ASSUME NEW j \in (n + 1)..(e + 1) PROVE Pc'[FrontOf(At'[j])] = last'[FrontOf(At'[j])]
    <3>1. CASE j = e + 1
      BY <1>12, <1>14, <1>15, <3>1
    <3>2. CASE j # e + 1
      <4>1. j \in (n + 1)..e /\ j \in 1..e
        BY <1>6, <3>2
      <4>2. PICK c \in Block \ {b} : c = At[j] /\ At'[j] = c
        BY <1>6, <1>10, <1>15, <4>1
      <4>3. Pc[FrontOf(c)] = last[FrontOf(c)]
        BY <1>1, <1>5, <4>1, <4>2 DEF ProducerKnows
      <4> QED
        BY <1>12, <1>14, <4>2, <4>3
    <3> QED
      BY <3>1, <3>2
  <2>5. ASSUME NEW c \in Made \cup {b}, NEW p \in Got'[c]..(Put'[c] - 1)
        PROVE  Pc'[Slot(c, Wrap(p))] = last'[Slot(c, Wrap(p))]
    <3>1. CASE c # b
      <4>1. p \in Got[c]..(Put[c] - 1)
        BY <1>8, <1>15, <3>1
      <4>2. Pc[Slot(c, Wrap(p))] = last[Slot(c, Wrap(p))]
        BY <1>1, <3>1, <4>1 DEF ProducerKnows
      <4> QED
        BY <1>14, <1>17, <3>1, <4>1, <4>2
    <3>2. CASE c = b
      <4>1. p = 0
        BY <1>15, <3>2
      <4> QED
        BY <1>4, <1>9, <1>12, <1>14, <3>2, <4>1
    <3> QED
      BY <3>1, <3>2
  <2> QED
    BY <1>10, <1>15, <2>1, <2>2, <2>3, <2>4, <2>5 DEF ProducerKnows
\* What is ready or complete for a thread still is.
<1>28. ASSUME NEW v, NEW c \in Made
       PROVE  /\ Got[c] < Put[c] /\ Ready(v, c) =>
                   /\ v[FrontOf(c)] = last'[FrontOf(c)] /\ v[Built(c)] = last'[Built(c)]
                   /\ v[TailOf(c)] >= Got'[c] + 2
                   /\ v[Slot(c, Wrap(Got'[c]))] = last'[Slot(c, Wrap(Got'[c]))]
              /\ c # t /\ Complete(v, c) =>
                   /\ v[TailOf(c)] = last'[TailOf(c)] /\ v[NextOf(c)] = last'[NextOf(c)]
                   /\ \A p \in Got'[c]..(Put'[c] - 1) : v[Slot(c, Wrap(p))] = last'[Slot(c, Wrap(p))]
  <2>1. Got[c] < Put[c] => Got[c] \in Got[c]..(Put[c] - 1)
    BY <1>8
  <2>2. ASSUME NEW p \in Got[c]..(Put[c] - 1), Complete(v, c) PROVE v[Slot(c, Wrap(p))] = last'[Slot(c, Wrap(p))]
    BY <1>14, <1>17, <2>2 DEF Complete
  <2>3. Got'[c] = Got[c] /\ Put'[c] = Put[c] /\ c \in Block \ {b}
    BY <1>8, <1>10, <1>15
  <2>4. /\ last'[FrontOf(c)] = last[FrontOf(c)] /\ last'[Built(c)] = last[Built(c)]
        /\ last'[TailOf(c)] = last[TailOf(c)] /\ (c # t => last'[NextOf(c)] = last[NextOf(c)])
    BY <1>10, <1>12, <1>14, <2>3
  <2>5. Got[c] < Put[c] => last'[Slot(c, Wrap(Got[c]))] = last[Slot(c, Wrap(Got[c]))]
    BY <1>14, <1>17, <2>1
  <2>6. Got[c] < Put[c] /\ Ready(v, c) =>
          /\ v[FrontOf(c)] = last'[FrontOf(c)] /\ v[Built(c)] = last'[Built(c)]
          /\ v[TailOf(c)] >= Got'[c] + 2
          /\ v[Slot(c, Wrap(Got'[c]))] = last'[Slot(c, Wrap(Got'[c]))]
    BY <2>3, <2>4, <2>5 DEF Ready
  <2>7. c # t /\ Complete(v, c) =>
          /\ v[TailOf(c)] = last'[TailOf(c)] /\ v[NextOf(c)] = last'[NextOf(c)]
          /\ \A p \in Got'[c]..(Put'[c] - 1) : v[Slot(c, Wrap(p))] = last'[Slot(c, Wrap(p))]
    BY <2>2, <2>3, <2>4 DEF Complete
  <2> QED
    BY <2>6, <2>7
<1>29. TailBlockViews'
  <2>1. ASSUME NEW m \in 1..(e + 1), NEW j \in n..m, j > n PROVE Ready(mem[TailBlock][m].view, At[j])'
    <3>1. PICK v : v = mem'[TailBlock][m].view
      OBVIOUS
    <3>2. CASE m = e + 1
      <4>1. \A x \in Locations : v[x] = Pc'[x]
        BY <1>14, <3>1, <3>2
      <4>2. j \in (n + 1)..(e + 1) /\ j \in 1..(e + 1)
        BY <1>6, <2>1, <3>2
      <4>3. PICK c \in Made \cup {b} : c = At'[j]
        BY <1>10, <1>15, <1>21, <4>2 DEF Histories
      <4>4. c \in Block /\ Got'[c] < Put'[c] /\ Got'[c] \in Nat /\ Put'[c] \in Nat
        <5>1. c \in Block /\ Got'[c] \in Nat /\ Put'[c] \in Nat
          <6>1. CASE c = b
            BY <1>10, <1>15, <6>1
          <6>2. CASE c # b
            <7>1. c \in Block \ {b} /\ c \in Made
              BY <1>8, <6>2
            <7> QED
              BY <1>8, <1>15, <7>1
          <6> QED
            BY <6>1, <6>2
        <5> QED
          BY <1>15, <1>23, <4>2, <4>3, <5>1 DEF Counts
      <4>5. Got'[c] \in Got'[c]..(Put'[c] - 1)
        BY <4>4
      <4>6. /\ Pc'[FrontOf(c)] = last'[FrontOf(c)] /\ Pc'[Built(c)] = last'[Built(c)]
            /\ Pc'[TailOf(c)] = last'[TailOf(c)]
            /\ Pc'[Slot(c, Wrap(Got'[c]))] = last'[Slot(c, Wrap(Got'[c]))]
        BY <1>10, <1>15, <1>27, <4>2, <4>3, <4>4, <4>5 DEF ProducerKnows
      <4>7. last'[TailOf(c)] = Put'[c] + 1
        <5>1. Put'[c] = last'[TailOf(c)] - 1 /\ last'[TailOf(c)] \in Nat
          BY <1>14, <4>4, RangesHoldNext, Kinds DEF Put, Ranges
        <5> QED
          BY <5>1
      <4>8. /\ FrontOf(c) \in Locations /\ TailOf(c) \in Locations /\ Built(c) \in Locations
            /\ Slot(c, Wrap(Got'[c])) \in Locations
        BY <1>9, <4>4, Kinds
      <4>9. v[TailOf(c)] >= Got'[c] + 2
        BY <4>1, <4>4, <4>6, <4>7, <4>8
      <4> QED
        BY <3>1, <4>1, <4>3, <4>6, <4>8, <4>9 DEF Ready
    <3>3. CASE m # e + 1
      <4>1. m \in 1..e /\ j \in (n + 1)..e /\ j \in 1..e /\ j \in h..e
        BY <1>6, <2>1, <3>3
      <4>2. PICK c \in Made : c = At[j] /\ c # b /\ At'[j] = c
        BY <1>6, <1>10, <1>15, <4>1
      <4>3. mem'[TailBlock][m] = mem[TailBlock][m]
        BY <1>5, <1>12, <1>14, <4>1 DEF Entered
      <4>4. Got[c] < Put[c] /\ Ready(v, c)
        BY <1>1, <1>5, <2>1, <3>1, <4>1, <4>2, <4>3 DEF Counts, TailBlockViews
      <4> QED
        BY <1>28, <3>1, <4>2, <4>4 DEF Ready
    <3> QED
      BY <3>2, <3>3
  <2>2. ASSUME NEW m \in 1..(e + 1), NEW j \in n..m, j < m PROVE Complete(mem[TailBlock][m].view, At[j])'
    <3>1. PICK v : v = mem'[TailBlock][m].view
      OBVIOUS
    <3>2. j \in 1..e /\ j \in h..e
      BY <1>6, <2>2
    <3>3. PICK c \in Made : c = At[j] /\ c # b /\ At'[j] = c /\ c \in Block
      BY <1>6, <1>10, <1>15, <3>2
    <3>4. CASE m = e + 1
      <4>1. \A x \in Locations : v[x] = Pc'[x]
        BY <1>14, <3>1, <3>4
      <4>2. /\ Pc'[TailOf(c)] = last'[TailOf(c)] /\ Pc'[NextOf(c)] = last'[NextOf(c)]
            /\ \A p \in Got'[c]..(Put'[c] - 1) : Pc'[Slot(c, Wrap(p))] = last'[Slot(c, Wrap(p))]
        BY <1>10, <1>15, <1>27, <3>3 DEF ProducerKnows
      <4>3. /\ TailOf(c) \in Locations /\ NextOf(c) \in Locations
            /\ \A p \in Got'[c]..(Put'[c] - 1) : Slot(c, Wrap(p)) \in Locations
        BY <1>8, <1>10, <1>15, <1>17, <3>3, Kinds
      <4> QED
        BY <3>1, <3>3, <4>1, <4>2, <4>3 DEF Complete
    <3>5. CASE m # e + 1
      <4>1. m \in 1..e
        BY <3>5
      <4>2. mem'[TailBlock][m] = mem[TailBlock][m]
        BY <1>5, <1>12, <1>14, <4>1 DEF Entered
      <4>3. Complete(v, c)
        BY <1>1, <1>5, <2>2, <3>1, <3>3, <4>1, <4>2 DEF TailBlockViews
      <4>4. c # t
        BY <1>18, <2>2, <3>2, <3>3, <4>1
      <4> QED
        BY <1>28, <3>1, <3>3, <4>3, <4>4 DEF Complete
    <3> QED
      BY <3>4, <3>5
  <2> QED
    BY <1>15, <2>1, <2>2 DEF TailBlockViews
<1>30. TailViews'
  <2>1. ASSUME NEW c \in Made \cup {b}, NEW q \in 0..Put'[c], NEW p \in Got'[c]..(q - 1)
        PROVE  \/ mem'[TailOf(c)][q + 1].view[Slot(c, Wrap(p))] = last'[Slot(c, Wrap(p))]
               \/ Cc[Slot(c, Wrap(p))] = last'[Slot(c, Wrap(p))]
               \/ c # At[n] /\ p = Got'[c]
    <3>1. CASE c # b
      <4>1. c \in Made /\ c \in Block \ {b} /\ q \in 0..Put[c] /\ p \in Got[c]..(Put[c] - 1)
        BY <1>8, <1>15, <3>1
      <4>2. mem'[TailOf(c)] = mem[TailOf(c)]
        BY <1>12, <1>14, <4>1
      <4>3. last'[Slot(c, Wrap(p))] = last[Slot(c, Wrap(p))]
        BY <1>14, <1>17, <4>1
      <4>4. p \in Got[c]..(q - 1) /\ Got'[c] = Got[c] /\ c \in Made
        BY <1>8, <1>15, <3>1
      <4> QED
        BY <1>1, <1>5, <4>1, <4>2, <4>3, <4>4 DEF TailViews
    <3>2. CASE c = b
      <4>1. p = Got'[c]
        BY <1>15, <3>2
      <4>2. c # At[n]
        BY <1>6, <1>10, <3>2
      <4> QED
        BY <4>1, <4>2
    <3> QED
      BY <3>1, <3>2
  <2>2. At'[n] = At[n]
    BY <1>6, <1>15
  <2> QED
    BY <1>10, <1>14, <1>15, <2>1, <2>2 DEF TailViews
<1>31. ProducerRoom'
  <2>1. 0 \in 0..(Pc'[FrontOf(b)] - Origin(b)) /\ localFront'[b] = Wrap(0) /\ Put'[b] - 0 < BlockSize
    BY <1>7, <1>8, <1>9, <1>10, <1>11, <1>12, <1>14, <1>15
  <2>2. ASSUME NEW i \in Slots PROVE Pc'[Slot(b, i)] = last'[Slot(b, i)]
    <3>1. CASE i = 0
      BY <1>4, <1>12, <1>14, <3>1
    <3>2. CASE i # 0
      <4>1. Slot(b, i) \in Locations \ N
        BY <1>10, <1>12, <3>2
      <4>2. last[Slot(b, i)] = 1 /\ Pc[Slot(b, i)] = 1
        BY <1>1, <1>11, <4>1, Numbers
      <4> QED
        BY <1>14, <4>1, <4>2
    <3> QED
      BY <3>1, <3>2
  <2> QED
    BY <1>15, <2>1, <2>2 DEF ProducerRoom, Room
<1>32. ProducerAt'
  BY <1>7 DEF ProducerAt
<1>33. ASSUME NEW c \in Made, Stock(c) PROVE Stock(c)'
  <2>1. \A p \in Got[c]..(Put[c] - 1) : last'[Slot(c, Wrap(p))] = last[Slot(c, Wrap(p))]
    BY <1>14, <1>17
  <2>2. localTail'[c] = localTail[c]
    BY <1>1, <1>7, <1>8, <1>10 DEF Control
  <2> QED
    BY <1>1, <1>8, <1>10, <1>14, <1>15, <1>33, <2>1, <2>2, StockKept
<1>34. PICK f \in Made : f = At[n] /\ At'[n] = f /\ f # b
  BY <1>6, <1>10, <1>15
<1>35. ConsumerStock'
  <2>1. Stock(f)'
    BY <1>1, <1>5, <1>33, <1>34 DEF ConsumerStock
  <2> QED
    BY <1>15, <1>34, <2>1 DEF ConsumerStock, Stock
<1>36. ConsumerKnows'
  <2>1. Cc'[FrontBlock] = n /\ Cc'[TailBlock] >= n
    BY <1>1, <1>5, <1>14 DEF ConsumerKnows
  <2>2. ASSUME NEW c \in Made \cup {b}, Outside(At', n + 1, e + 1, c) PROVE Cc'[FrontOf(c)] = last'[FrontOf(c)]
    <3>1. n + 1 \in 1..(e + 1)
      BY <1>6
    <3>2. Outside(At, n + 1, e, c) /\ c # b
      BY <1>16, <2>2, <3>1
    <3> QED
      BY <1>1, <1>5, <1>8, <1>12, <1>14, <3>2 DEF ConsumerKnows
  <2>3. ASSUME NEW c \in Made \cup {b}, NEW i \in Slots, Spare(Got'[c], Put'[c], i)
        PROVE  Cc'[Slot(c, i)] = last'[Slot(c, i)]
    <3>1. CASE c # b
      <4>1. Spare(Got[c], Put[c], i) /\ Slot(c, i) \in Locations \ N
        BY <1>8, <1>12, <1>15, <2>3, <3>1
      <4>2. Cc[Slot(c, i)] = last[Slot(c, i)]
        BY <1>1, <3>1, <4>1 DEF ConsumerKnows
      <4> QED
        BY <1>14, <4>1, <4>2
    <3>2. CASE c = b
      <4>1. i # 0
        <5>1. 0 \in Got'[b]..(Put'[b] - 1)
          BY <1>15
        <5> QED
          BY <1>9, <2>3, <3>2, <5>1 DEF Spare
      <4>2. Slot(b, i) \in Locations \ N
        BY <1>10, <1>12, <4>1
      <4>3. last[Slot(b, i)] = 1 /\ Cc[Slot(b, i)] = 1
        BY <1>1, <1>11, <4>2, Numbers
      <4> QED
        BY <1>14, <3>2, <4>2, <4>3
    <3> QED
      BY <3>1, <3>2
  <2> QED
    BY <1>10, <1>15, <2>1, <2>2, <2>3 DEF ConsumerKnows
<1>37. ConsumerAt'
  <2>1. PICK a : a = At[n + 1]
    OBVIOUS
  <2>2. ASSUME cpc \in {"reloadTail", "loadNext", "loadNextTail", "advanceFrontBlock", "readNext"}
        PROVE  /\ n < e + 1 /\ Cc[TailBlock] > n /\ a \in Made /\ At'[n + 1] = a /\ a # b
               /\ Complete(Cc, f)' /\ Ready(Cc, a)'
    <3>1. n < e /\ Cc[TailBlock] > n /\ Complete(Cc, f) /\ Ready(Cc, a)
      BY <1>1, <1>5, <1>34, <2>1, <2>2 DEF ConsumerAt
    <3>2. n + 1 \in (n + 1)..e /\ n + 1 \in 1..e /\ n \in h..e /\ n # e
      BY <1>6, <3>1
    <3>3. a \in Made /\ Got[a] < Put[a] /\ a # b /\ At'[n + 1] = a
      BY <1>1, <1>5, <1>6, <1>10, <1>15, <2>1, <3>2 DEF Counts
    <3>4. Complete(Cc, f)'
      BY <1>14, <1>18, <1>28, <1>34, <3>1, <3>2 DEF Complete
    <3>5. Ready(Cc, a)'
      BY <1>14, <1>28, <3>1, <3>3 DEF Ready
    <3> QED
      BY <1>6, <3>1, <3>3, <3>4, <3>5
  <2>3. At'[Left'] = f /\ Got'[f] = Got[f] /\ Put'[f] = Put[f]
    BY <1>8, <1>10, <1>15, <1>34
  <2>4. ASSUME cpc \in {"reloadTail", "loadNext", "loadNextTail", "advanceFrontBlock", "readNext"}
        PROVE  /\ Complete(Cc, At[Left])' /\ Ready(Cc, At[Left + 1])' /\ Left' < Entered' /\ Cc'[TailBlock] > Left'
               /\ At'[Left' + 1] = a
    BY <1>14, <1>15, <2>2, <2>3, <2>4 DEF Complete, Ready
  <2>5. ASSUME cpc = "advanceFrontBlock" PROVE Stock(At[Left + 1])' /\ Wrap(Got'[a]) # localTail'[a]
    <3>1. Stock(a) /\ Wrap(Got[a]) # localTail[a] /\ a \in Made
      BY <1>1, <1>5, <2>1, <2>2, <2>5 DEF ConsumerAt
    <3>2. Stock(a)'
      BY <1>33, <3>1
    <3>3. Stock(At[Left + 1])'
      BY <2>4, <2>5, <3>2 DEF Stock
    <3> QED
      BY <1>1, <1>7, <1>8, <1>10, <1>15, <3>1, <3>3 DEF Control
  <2>6. cpc \in {"loadNext", "loadNextTail", "advanceFrontBlock", "readNext"} => Got'[f] = Put'[f]
    BY <1>1, <1>5, <1>34, <2>3 DEF ConsumerAt
  <2>7. cpc \in {"loadNextTail", "advanceFrontBlock", "readNext"} => cblock' = a
    BY <1>1, <1>5, <1>7, <2>1 DEF ConsumerAt
  <2>8. cpc \in {"read", "move"} => Wrap(Got'[f]) # localTail'[f]
    BY <1>1, <1>5, <1>7, <1>8, <1>10, <1>34, <2>3 DEF ConsumerAt, Control
  <2> QED
    BY <1>7, <2>3, <2>4, <2>5, <2>6, <2>7, <2>8 DEF ConsumerAt
<1> QED
  BY <1>14, <1>20, <1>21, <1>22, <1>23, <1>24, <1>25, <1>26, <1>27, <1>29, <1>30, <1>31, <1>32,
     <1>35, <1>36, <1>37 DEF WInv

\* The consumer's front block becomes the block ahead.
LEMMA AdvanceFrontBlockStep ==
  ASSUME WInv, AdvanceFrontBlock
  PROVE  WInv'
<1>1. /\ Memory /\ Control /\ Histories /\ Circle /\ Counts /\ Cells
      /\ FrontViews /\ FrontBlockViews /\ TailBlockViews /\ TailViews
      /\ ProducerRoom /\ ProducerKnows /\ ProducerAt
      /\ ConsumerStock /\ ConsumerKnows /\ ConsumerAt
  BY DEF WInv
<1>2. PICK e \in Nat, n \in Nat, h \in Nat : e = Entered /\ n = Left /\ h = Pc[FrontBlock]
  BY <1>1, Ends
<1>3. /\ cpc = "advanceFrontBlock" /\ cpc' = "move"
      /\ UNCHANGED <<ppc, localFront, blocks, enqueued, cblock, dequeued, localTail, spc, walk>>
  BY DEF AdvanceFrontBlock, prodVars, sizeVars
<1>4. PICK f \in Made, a \in Made :
        /\ f = At[n] /\ a = At[n + 1] /\ a = cblock /\ a \in Block /\ f \in Block /\ f # a
        /\ n < e /\ Cc[TailBlock] > n /\ Got[f] = Put[f] /\ Complete(Cc, f) /\ Ready(Cc, a)
  BY <1>1, <1>2, <1>3, AheadIs, Shapes
<1>5. Stock(a) /\ Wrap(Got[a]) # localTail[a]
  BY <1>1, <1>2, <1>3, <1>4 DEF ConsumerAt
<1>6. 1 <= h /\ h <= n /\ n < e /\ \A j \in 1..e : At[j] \in Made /\ At[j] \in Block
  BY <1>1, <1>2, <1>4, Ends
<1>7. /\ \A b \in Made : b \in Block /\ Got[b] \in Nat /\ Put[b] \in Nat /\ Got[b] <= Put[b]
      /\ \A p \in Nat : Wrap(p) \in Slots
  BY <1>1, Ends, WrapFacts DEF Counts
\* The step.
<1>8. Publishes("consumer", {FrontBlock}, FrontBlock) /\ now'[FrontBlock] = a
  <2>1. Becomes("consumer", Store(ReleaseFence(Sees("consumer")), FrontBlock, a))
    BY <1>4 DEF AdvanceFrontBlock, C
  <2>2. "consumer" \in Threads /\ FrontBlock \in Locations /\ a \in Nat
    BY <1>1, <1>4, Kinds, Shapes DEF Threads
  <2> QED
    BY <1>1, <2>1, <2>2, OneStore
<1>9. /\ TailBlock \in Locations \ {FrontBlock}
      /\ \A b \in Block : /\ FrontOf(b) \in Locations \ {FrontBlock} /\ TailOf(b) \in Locations \ {FrontBlock}
                          /\ NextOf(b) \in Locations \ {FrontBlock} /\ Built(b) \in Locations \ {FrontBlock}
      /\ \A b \in Block, i \in Slots : Slot(b, i) \in Locations \ {FrontBlock}
  BY Kinds
<1>10. /\ Memory' /\ Pc' = Pc
       /\ \A x \in Locations \ {FrontBlock} :
            mem'[x] = mem[x] /\ last'[x] = last[x] /\ now'[x] = now[x] /\ Cc'[x] = Cc[x]
       /\ last'[FrontBlock] = n + 1 /\ Cc'[FrontBlock] = n + 1
       /\ \A k \in 1..n : mem'[FrontBlock][k] = mem[FrontBlock][k]
       /\ \A x \in Locations : mem'[FrontBlock][n + 1].view[x] = Cc'[x]
  BY <1>2, <1>8, Kinds DEF Publishes, Pc, Cc, Threads, Left
<1>11. /\ At' = At /\ Entered' = e /\ Left' = n + 1 /\ Made' = Made
       /\ \A b \in Block : Put'[b] = Put[b] /\ Got'[b] = Got[b]
  <2>1. \A b \in Block : Put'[b] = last'[TailOf(b)] - 1 /\ Got'[b] = last'[FrontOf(b)] - Origin(b)
    BY DEF Put, Got
  <2>2. \A b \in Block : Put[b] = last[TailOf(b)] - 1 /\ Got[b] = last[FrontOf(b)] - Origin(b)
    BY DEF Put, Got
  <2>3. At' = At
    BY <1>9, <1>10 DEF At
  <2> QED
    BY <1>2, <1>3, <1>9, <1>10, <2>1, <2>2, <2>3 DEF Entered, Left, Made
<1>12. \A b \in Made : \A p \in Got[b]..(Put[b] - 1) : p \in Nat /\ Slot(b, Wrap(p)) \in Locations \ {FrontBlock}
  <2>1. ASSUME NEW b \in Made, NEW p \in Got[b]..(Put[b] - 1)
        PROVE  p \in Nat /\ Slot(b, Wrap(p)) \in Locations \ {FrontBlock}
    <3>1. p \in Nat /\ b \in Block
      BY <1>7
    <3> QED
      BY <1>7, <1>9, <3>1
  <2> QED
    BY <2>1
<1>13. ASSUME NEW b, Outside(At, n + 1, e, b) PROVE Outside(At, n, e, b) \/ b = f
  <2>1. \A j \in n..e : j = n \/ j \in (n + 1)..e
    BY <1>6
  <2> QED
    BY <1>4, <1>13, <2>1 DEF Outside
<1>14. At'[Left'] = a
  BY <1>4, <1>11
\* The conjuncts.
<1>15. Control'
  BY <1>1, <1>3, <1>11 DEF Control
<1>16. Histories'
  <2>1. ASSUME NEW b \in Made
        PROVE  /\ Got'[b] >= 0 /\ now'[NextOf(b)] \in Made
               /\ \A q \in 0..Put'[b] : mem'[TailOf(b)][q + 1].val = Wrap(q)
               /\ \A g \in 0..Got'[b] : mem'[FrontOf(b)][g + Origin(b)].val = Wrap(g)
    BY <1>1, <1>7, <1>9, <1>10, <1>11 DEF Histories
  <2>2. ASSUME NEW b \in Block \ Made
        PROVE  /\ Put'[b] = 0 /\ Got'[b] = -1 /\ localFront'[b] = 0
               /\ mem'[TailOf(b)][1].val = 0
               /\ \A i \in Slots : last'[Slot(b, i)] = 1
    BY <1>1, <1>3, <1>9, <1>10, <1>11 DEF Histories
  <2>3. ASSUME NEW j \in 1..(n + 1) PROVE mem'[FrontBlock][j].val = At[j]
    <3>1. CASE j = n + 1
      <4>1. now'[FrontBlock] = mem'[FrontBlock][last'[FrontBlock]].val
        BY <1>10, Kinds, RangesHoldNext DEF Ranges, now
      <4> QED
        BY <1>4, <1>8, <1>10, <3>1, <4>1
    <3>2. CASE j # n + 1
      <4>1. j \in 1..n
        BY <3>2
      <4> QED
        BY <1>1, <1>2, <1>10, <4>1 DEF Histories
    <3> QED
      BY <3>1, <3>2
  <2> QED
    BY <1>6, <1>11, <2>1, <2>2, <2>3 DEF Histories
<1>17. Circle'
  <2>1. \A b \in Made : now'[NextOf(b)] = now[NextOf(b)]
    BY <1>7, <1>9, <1>10
  <2>2. \A j \in h..(e - 1) : now'[NextOf(At[j])] = At[j + 1]
    BY <1>1, <1>2, <1>6, <2>1 DEF Circle
  <2> QED
    BY <1>1, <1>2, <1>10, <1>11, <2>1, <2>2 DEF Circle
<1>18. Counts'
  <2>1. \A b \in Made : Got'[b] <= Put'[b] /\ Put'[b] - Got'[b] < BlockSize
    BY <1>1, <1>7, <1>11 DEF Counts
  <2>2. ASSUME NEW b \in Made, Outside(At, n + 1, e, b) PROVE Got'[b] = Put'[b]
    BY <1>1, <1>2, <1>4, <1>7, <1>11, <1>13, <2>2 DEF Counts
  <2>3. ASSUME NEW j \in (n + 2)..e PROVE Got'[At[j]] < Put'[At[j]]
    <3>1. j \in (n + 1)..e /\ j \in 1..e
      BY <1>6
    <3> QED
      BY <1>1, <1>2, <1>6, <1>11, <3>1 DEF Counts
  <2>4. (n + 1) + 1 = n + 2
    OBVIOUS
  <2> QED
    BY <1>11, <2>1, <2>2, <2>3, <2>4 DEF Counts
<1>19. Cells'
  <2>1. ASSUME NEW b \in Made PROVE First(b)' = First(b)
    <3>1. Slot(b, Wrap(Got[b])) \in Locations \ {FrontBlock}
      BY <1>7, <1>9
    <3> QED
      BY <1>3, <1>7, <1>10, <1>11, <3>1 DEF First
  <2>2. ASSUME NEW b \in Made, NEW p \in Got[b]..(Put[b] - 1)
        PROVE  now'[Slot(b, Wrap(p))] = now'[Slot(b, Wrap(Got[b]))] + (p - Got[b])
    <3>1. Got[b] \in Got[b]..(Put[b] - 1)
      BY <1>7
    <3>2. now[Slot(b, Wrap(p))] = now[Slot(b, Wrap(Got[b]))] + (p - Got[b])
      BY <1>1 DEF Cells
    <3> QED
      BY <1>10, <1>12, <3>1, <3>2
  <2>3. ASSUME NEW j \in (n + 1)..e
        PROVE  /\ First(At[j])' = First(At[j]) /\ Got'[At[j]] = Got[At[j]] /\ Put'[At[j]] = Put[At[j]]
               /\ First(At[j]) + (Put[At[j]] - Got[At[j]]) <= enqueued + 1
    <3>1. j \in 1..e /\ j \in n..e
      BY <1>6
    <3>2. At[j] \in Made /\ At[j] \in Block
      BY <1>6, <3>1
    <3>3. First(At[j])' = First(At[j])
      BY <1>11, <2>1, <3>2 DEF First
    <3> QED
      BY <1>1, <1>2, <1>11, <3>1, <3>2, <3>3 DEF Cells
  <2>4. First(At[n + 1])' = dequeued + 1
    <3>1. n \in n..(e - 1) /\ n + 1 \in (n + 1)..e
      BY <1>6
    <3>2. PICK d \in Nat : d = dequeued
      BY <1>1 DEF Control
    <3>3. First(f) = d + 1
      BY <1>1, <1>2, <1>4, <3>2 DEF Cells
    <3>4. First(f) + (Put[f] - Got[f]) = First(At[n + 1])
      BY <1>1, <1>2, <1>4, <3>1 DEF Cells
    <3>5. First(At[n + 1]) = d + 1
      BY <1>4, <1>7, <3>3, <3>4
    <3> QED
      BY <2>3, <3>1, <3>2, <3>5
  <2>5. ASSUME NEW j \in (n + 1)..(e - 1)
        PROVE  First(At[j])' + (Put'[At[j]] - Got'[At[j]]) = First(At[j + 1])'
    <3>1. j \in n..(e - 1) /\ j \in (n + 1)..e /\ j + 1 \in (n + 1)..e
      BY <1>6
    <3>2. First(At[j]) + (Put[At[j]] - Got[At[j]]) = First(At[j + 1])
      BY <1>1, <1>2, <3>1 DEF Cells
    <3> QED
      BY <2>3, <3>1, <3>2
  <2>6. First(At[e])' + (Put'[At[e]] - Got'[At[e]]) = enqueued + 1
    <3>1. e \in (n + 1)..e
      BY <1>6
    <3>2. First(At[e]) + (Put[At[e]] - Got[At[e]]) = enqueued + 1
      BY <1>1, <1>2 DEF Cells
    <3> QED
      BY <2>3, <3>1, <3>2
  <2>7. \A b \in Made : \A p \in Got'[b]..(Put'[b] - 1) :
          now'[Slot(b, Wrap(p))] = now'[Slot(b, Wrap(Got'[b]))] + (p - Got'[b])
    BY <1>7, <1>11, <2>2
  <2>8. \A j \in (n + 1)..e : First(At[j])' + (Put'[At[j]] - Got'[At[j]]) <= enqueued + 1
    BY <2>3
  <2> QED
    BY <1>3, <1>11, <2>4, <2>5, <2>6, <2>7, <2>8 DEF Cells, First
<1>20. FrontViews'
  <2>1. \A b \in Made : mem'[FrontOf(b)] = mem[FrontOf(b)] /\ \A i \in Slots : last'[Slot(b, i)] = last[Slot(b, i)]
    BY <1>7, <1>9, <1>10
  <2> QED
    BY <1>1, <1>7, <1>11, <2>1 DEF FrontViews
<1>21. FrontBlockViews'
  <2>1. ASSUME NEW m \in 1..(n + 1), NEW b \in Made, Outside(At, m, e, b)
        PROVE  /\ mem'[FrontBlock][m].view[FrontOf(b)] = last'[FrontOf(b)]
               /\ \A i \in Slots : mem'[FrontBlock][m].view[Slot(b, i)] = last'[Slot(b, i)]
    <3>1. /\ last'[FrontOf(b)] = last[FrontOf(b)] /\ FrontOf(b) \in Locations \ {FrontBlock}
          /\ \A i \in Slots : last'[Slot(b, i)] = last[Slot(b, i)] /\ Slot(b, i) \in Locations \ {FrontBlock}
      BY <1>7, <1>9, <1>10
    <3>2. CASE m = n + 1
      <4>1. Got[b] = Put[b]
        BY <1>1, <1>2, <1>4, <1>13, <2>1, <3>2 DEF Counts
      <4>2. \A i \in Slots : Spare(Got[b], Put[b], i)
        BY <1>7, <4>1 DEF Spare
      <4>3. Cc[FrontOf(b)] = last[FrontOf(b)] /\ \A i \in Slots : Cc[Slot(b, i)] = last[Slot(b, i)]
        BY <1>1, <1>2, <2>1, <3>2, <4>2 DEF ConsumerKnows
      <4> QED
        BY <1>10, <3>1, <3>2, <4>3
    <3>3. CASE m # n + 1
      <4>1. m \in 1..n
        BY <3>3
      <4> QED
        BY <1>1, <1>2, <1>10, <2>1, <3>1, <4>1 DEF FrontBlockViews
    <3> QED
      BY <3>2, <3>3
  <2> QED
    BY <1>11, <2>1 DEF FrontBlockViews
<1>22. ASSUME NEW v, NEW b \in Made
       PROVE  /\ Ready(v, b) => /\ v[FrontOf(b)] = last'[FrontOf(b)] /\ v[Built(b)] = last'[Built(b)]
                                /\ v[TailOf(b)] >= Got'[b] + 2
                                /\ v[Slot(b, Wrap(Got'[b]))] = last'[Slot(b, Wrap(Got'[b]))]
              /\ Complete(v, b) => /\ v[TailOf(b)] = last'[TailOf(b)] /\ v[NextOf(b)] = last'[NextOf(b)]
                                   /\ \A p \in Got'[b]..(Put'[b] - 1) : v[Slot(b, Wrap(p))] = last'[Slot(b, Wrap(p))]
  <2>1. /\ last'[FrontOf(b)] = last[FrontOf(b)] /\ last'[Built(b)] = last[Built(b)]
        /\ last'[TailOf(b)] = last[TailOf(b)] /\ last'[NextOf(b)] = last[NextOf(b)]
        /\ last'[Slot(b, Wrap(Got[b]))] = last[Slot(b, Wrap(Got[b]))]
        /\ Got'[b] = Got[b] /\ Put'[b] = Put[b]
    BY <1>7, <1>9, <1>10, <1>11
  <2>2. \A p \in Got[b]..(Put[b] - 1) : last'[Slot(b, Wrap(p))] = last[Slot(b, Wrap(p))]
    BY <1>10, <1>12
  <2> QED
    BY <2>1, <2>2 DEF Ready, Complete
<1>23. TailBlockViews'
  <2>1. ASSUME NEW m \in 1..e, NEW j \in (n + 1)..m, j > n + 1 PROVE Ready(mem[TailBlock][m].view, At[j])'
    <3>1. PICK v : v = mem'[TailBlock][m].view /\ v = mem[TailBlock][m].view
      BY <1>9, <1>10
    <3>2. PICK b \in Made : b = At[j] /\ b = At'[j]
      BY <1>6, <1>11
    <3>3. Ready(v, b)
      <4>1. j \in n..m /\ j > n
        OBVIOUS
      <4> QED
        BY <1>1, <1>2, <3>1, <3>2, <4>1 DEF TailBlockViews
    <3> QED
      BY <1>22, <3>1, <3>2, <3>3 DEF Ready
  <2>2. ASSUME NEW m \in 1..e, NEW j \in (n + 1)..m, j < m PROVE Complete(mem[TailBlock][m].view, At[j])'
    <3>1. PICK v : v = mem'[TailBlock][m].view /\ v = mem[TailBlock][m].view
      BY <1>9, <1>10
    <3>2. PICK b \in Made : b = At[j] /\ b = At'[j]
      BY <1>6, <1>11
    <3>3. Complete(v, b)
      <4>1. j \in n..m
        OBVIOUS
      <4> QED
        BY <1>1, <1>2, <2>2, <3>1, <3>2, <4>1 DEF TailBlockViews
    <3> QED
      BY <1>22, <3>1, <3>2, <3>3 DEF Complete
  <2> QED
    BY <1>11, <2>1, <2>2 DEF TailBlockViews
<1>24. TailViews'
  <2>1. ASSUME NEW b \in Made, NEW q \in 0..Put[b], NEW p \in Got[b]..(q - 1)
        PROVE  \/ mem'[TailOf(b)][q + 1].view[Slot(b, Wrap(p))] = last'[Slot(b, Wrap(p))]
               \/ Cc'[Slot(b, Wrap(p))] = last'[Slot(b, Wrap(p))]
               \/ b # a /\ p = Got[b]
    <3>1. p \in Got[b]..(Put[b] - 1)
      BY <1>7
    <3>2. /\ mem'[TailOf(b)] = mem[TailOf(b)] /\ last'[Slot(b, Wrap(p))] = last[Slot(b, Wrap(p))]
          /\ Cc'[Slot(b, Wrap(p))] = Cc[Slot(b, Wrap(p))]
      BY <1>7, <1>9, <1>10, <1>12, <3>1
    <3>3. \/ mem[TailOf(b)][q + 1].view[Slot(b, Wrap(p))] = last[Slot(b, Wrap(p))]
          \/ Cc[Slot(b, Wrap(p))] = last[Slot(b, Wrap(p))]
          \/ b # f /\ p = Got[b]
      BY <1>1, <1>2, <1>4 DEF TailViews
    <3>4. b = a /\ p = Got[b] => Cc[Slot(b, Wrap(p))] = last[Slot(b, Wrap(p))]
      BY <1>4 DEF Ready
    <3> QED
      BY <3>2, <3>3, <3>4
  <2> QED
    BY <1>7, <1>11, <1>14, <2>1 DEF TailViews
<1>25. ProducerRoom'
  <2>1. PICK t \in Made : t = At[e] /\ t \in Block
    BY <1>6
  <2>2. Room(t)
    BY <1>1, <1>2, <2>1 DEF ProducerRoom
  <2>3. \A i \in Slots : last'[Slot(t, i)] = last[Slot(t, i)]
    BY <1>9, <1>10, <2>1
  <2>4. Room(t)'
    BY <1>3, <1>10, <1>11, <2>1, <2>2, <2>3 DEF Room
  <2> QED
    BY <1>11, <2>1, <2>4 DEF ProducerRoom, Room
<1>26. ProducerKnows'
  <2>1. Pc'[TailBlock] = e
    BY <1>1, <1>2, <1>10 DEF ProducerKnows
  <2>2. \A b \in Block : /\ Pc'[TailOf(b)] = last'[TailOf(b)] /\ Pc'[NextOf(b)] = last'[NextOf(b)]
                         /\ Pc'[Built(b)] = last'[Built(b)]
    BY <1>1, <1>9, <1>10 DEF ProducerKnows
  <2>3. \A b \in Made : Pc'[FrontOf(b)] >= Origin(b)
    BY <1>1, <1>10 DEF ProducerKnows
  <2>4. ASSUME NEW j \in (n + 2)..e PROVE Pc'[FrontOf(At[j])] = last'[FrontOf(At[j])]
    <3>1. j \in (n + 1)..e /\ j \in 1..e
      BY <1>6
    <3> QED
      BY <1>1, <1>2, <1>6, <1>9, <1>10, <3>1 DEF ProducerKnows
  <2>5. ASSUME NEW b \in Made, NEW p \in Got[b]..(Put[b] - 1)
        PROVE  Pc'[Slot(b, Wrap(p))] = last'[Slot(b, Wrap(p))]
    BY <1>1, <1>10, <1>12 DEF ProducerKnows
  <2>6. (n + 1) + 1 = n + 2
    OBVIOUS
  <2> QED
    BY <1>7, <1>11, <2>1, <2>2, <2>3, <2>4, <2>5, <2>6 DEF ProducerKnows
<1>27. ProducerAt'
  <2>1. PICK t \in Made : t = At[e] /\ t \in Block
    BY <1>6
  <2>2. PICK o \in Made : o = now[NextOf(t)] /\ o = now'[NextOf(t)] /\ o \in Block
    BY <1>1, <1>7, <1>9, <1>10, <2>1 DEF Histories
  <2>3. last'[FrontOf(o)] = last[FrontOf(o)] /\ \A i \in Slots : last'[Slot(o, i)] = last[Slot(o, i)]
    BY <1>9, <1>10, <2>2
  <2>4. At'[Entered'] = t /\ now'[NextOf(At'[Entered'])] = o
    BY <1>11, <2>1, <2>2
  <2>5. ppc = "construct" => Succ(Wrap(Put'[t])) # localFront'[t]
    BY <1>1, <1>2, <1>3, <1>11, <2>1 DEF ProducerAt
  <2>6. ppc \in {"loadNext", "constructNext"} =>
          /\ Outside(At', Pc'[FrontBlock], Entered', o)
          /\ Pc'[FrontOf(o)] = last'[FrontOf(o)]
          /\ \A i \in Slots : Pc'[Slot(o, i)] = last'[Slot(o, i)]
    BY <1>1, <1>2, <1>10, <1>11, <2>1, <2>2, <2>3 DEF ProducerAt
  <2>7. ppc = "constructNext" => localFront'[o] = Wrap(Got'[o])
    BY <1>1, <1>2, <1>3, <1>11, <2>1, <2>2 DEF ProducerAt
  <2> QED
    BY <1>3, <2>4, <2>5, <2>6, <2>7 DEF ProducerAt
<1>28. ConsumerStock'
  <2>1. \A p \in Got[a]..(Put[a] - 1) : last'[Slot(a, Wrap(p))] = last[Slot(a, Wrap(p))]
    BY <1>10, <1>12
  <2>2. PICK q \in Got[a]..(Cc[TailOf(a)] - 1) :
          /\ localTail[a] = Wrap(q)
          /\ \A p \in Got[a]..(q - 1) : Cc[Slot(a, Wrap(p))] = last[Slot(a, Wrap(p))]
    BY <1>5 DEF Stock
  <2>3. Cc'[TailOf(a)] = Cc[TailOf(a)] /\ Got'[a] = Got[a] /\ localTail'[a] = localTail[a]
    BY <1>3, <1>4, <1>9, <1>10, <1>11
  <2>4. ASSUME NEW p \in Got[a]..(q - 1) PROVE Cc'[Slot(a, Wrap(p))] = last'[Slot(a, Wrap(p))]
    <3>1. p \in Nat
      BY <1>7
    <3>2. Slot(a, Wrap(p)) \in Locations \ {FrontBlock}
      BY <1>4, <1>7, <1>9, <3>1
    <3> QED
      BY <1>10, <2>2, <3>2
  <2>5. Stock(a)'
    BY <2>2, <2>3, <2>4 DEF Stock
  <2> QED
    BY <1>14, <2>5 DEF ConsumerStock, Stock
<1>29. ConsumerKnows'
  <2>1. Cc'[FrontBlock] = n + 1 /\ Cc'[TailBlock] >= n + 1
    <3>1. Cc[TailBlock] \in Nat
      BY <1>1, <1>9, Numbers
    <3> QED
      BY <1>4, <1>9, <1>10, <3>1
  <2>2. ASSUME NEW b \in Made, Outside(At, n + 2, e, b) PROVE Cc'[FrontOf(b)] = last'[FrontOf(b)]
    <3>1. CASE b = a
      BY <1>4, <1>9, <1>10, <3>1 DEF Ready
    <3>2. CASE b # a
      <4>1. \A j \in (n + 1)..e : j = n + 1 \/ j \in (n + 2)..e
        OBVIOUS
      <4>2. Outside(At, n + 1, e, b)
        BY <1>4, <2>2, <3>2, <4>1 DEF Outside
      <4> QED
        BY <1>1, <1>2, <1>7, <1>9, <1>10, <4>2 DEF ConsumerKnows
    <3> QED
      BY <3>1, <3>2
  <2>3. ASSUME NEW b \in Made, NEW i \in Slots, Spare(Got[b], Put[b], i)
        PROVE  Cc'[Slot(b, i)] = last'[Slot(b, i)]
    BY <1>1, <1>7, <1>9, <1>10, <2>3 DEF ConsumerKnows
  <2>4. (n + 1) + 1 = n + 2
    OBVIOUS
  <2> QED
    BY <1>7, <1>11, <2>1, <2>2, <2>3, <2>4 DEF ConsumerKnows
<1>30. ConsumerAt'
  BY <1>3, <1>4, <1>5, <1>11, <1>14 DEF ConsumerAt
<1> QED
  BY <1>10, <1>15, <1>16, <1>17, <1>18, <1>19, <1>20, <1>21, <1>23, <1>24, <1>25, <1>26, <1>27,
     <1>28, <1>29, <1>30 DEF WInv

\* The consumer takes the oldest element out and gives its slot back.
LEMMA ReadElementStep ==
  ASSUME WInv, ReadElement
  PROVE  WInv'
<1>1. /\ Memory /\ Control /\ Histories /\ Circle /\ Counts /\ Cells
      /\ FrontViews /\ FrontBlockViews /\ TailBlockViews /\ TailViews
      /\ ProducerRoom /\ ProducerKnows /\ ProducerAt
      /\ ConsumerStock /\ ConsumerKnows /\ ConsumerAt
  BY DEF WInv
<1>2. PICK e \in Nat, n \in Nat, h \in Nat : e = Entered /\ n = Left /\ h = Pc[FrontBlock]
  BY <1>1, Ends
<1>3. /\ cpc \in {"read", "move"} /\ cpc' = "idle" /\ cblock' = Null /\ dequeued' = dequeued + 1
      /\ UNCHANGED <<ppc, localFront, blocks, enqueued, localTail, spc, walk>>
  BY DEF ReadElement, prodVars, sizeVars
<1>4. 1 <= h /\ h <= n /\ n <= e /\ \A j \in 1..e : At[j] \in Made /\ At[j] \in Block
  BY <1>1, <1>2, Ends
<1>5. PICK f \in Made : f = At[n] /\ f = fb /\ f \in Block
  BY <1>1, <1>2, Ends
<1>6. /\ \A b \in Made : b \in Block /\ Got[b] \in Nat /\ Put[b] \in Nat /\ Got[b] <= Put[b]
      /\ BlockSize \in Nat /\ \A p \in Nat : Wrap(p) \in Slots
  BY <1>1, Ends, WrapFacts, WeakAssumption DEF Counts
<1>7. PICK g0 \in Nat, q0 \in Nat : g0 = Got[f] /\ q0 = Put[f]
  BY <1>6
<1>8. PICK S, F : S = Slot(f, Wrap(g0)) /\ F = FrontOf(f)
  OBVIOUS
\* There is an element, and the consumer knows it.
<1>9. PICK q \in g0..(Cc[TailOf(f)] - 1) :
        /\ localTail[f] = Wrap(q)
        /\ \A p \in g0..(q - 1) : Cc[Slot(f, Wrap(p))] = last[Slot(f, Wrap(p))]
  BY <1>1, <1>2, <1>5, <1>7 DEF ConsumerStock, Stock
<1>10. g0 < q /\ q \in Nat /\ q <= q0 /\ g0 < q0 /\ q0 - g0 < BlockSize
  <2>1. Wrap(g0) # localTail[f]
    BY <1>1, <1>2, <1>3, <1>5, <1>7 DEF ConsumerAt
  <2>2. Cc[TailOf(f)] \in Nat /\ Cc[TailOf(f)] <= last[TailOf(f)] /\ last[TailOf(f)] = q0 + 1
    BY <1>1, <1>5, <1>7, Kinds, Numbers, Shapes
  <2>3. q0 - g0 < BlockSize
    BY <1>1, <1>7 DEF Counts
  <2> QED
    BY <1>9, <2>1, <2>2, <2>3
<1>11. \A j \in h..e : At[j] = f => j = n
  <2>1. \A i, j \in h..e : At[i] = At[j] => i = j
    BY <1>1, <1>2 DEF Circle
  <2>2. n \in h..e
    BY <1>4
  <2> QED
    BY <1>5, <2>1, <2>2
\* The step.
<1>12. /\ S \in Locations /\ F \in Locations /\ S # F
       /\ FrontBlock \in Locations \ {S, F} /\ TailBlock \in Locations \ {S, F}
       /\ \A b \in Block : TailOf(b) \in Locations \ {S, F} /\ NextOf(b) \in Locations \ {S, F}
                           /\ Built(b) \in Locations \ {S, F}
       /\ \A b \in Block \ {f} : FrontOf(b) \in Locations \ {S, F}
       /\ \A b \in Block, i \in Slots : b # f \/ i # Wrap(g0) => Slot(b, i) \in Locations \ {S, F}
  BY <1>5, <1>6, <1>8, Kinds
<1>13. Publishes("consumer", {S, F}, F) /\ now'[F] = Wrap(g0 + 1)
  <2>1. PICK new : new = [k \in {S} |-> 0]
    OBVIOUS
  <2>2. DOMAIN new = {S} /\ new[S] = 0
    BY <2>1
  <2>3. PICK w \in Nat : w = Wrap(g0 + 1) /\ w = Succ(Wrap(g0))
    <3>1. Wrap(g0 + 1) \in Slots /\ Wrap(g0 + 1) = Succ(Wrap(g0))
      BY WrapFacts
    <3> QED
      BY <3>1 DEF Slots
  <2>4. Latest(FrontOf(f)) = Wrap(g0)
    BY <1>1, <1>5, <1>7, Ends, Kinds
  <2>5. Found = S
    BY <1>3, <1>5, <1>8, <2>4 DEF Found
  <2>6. Becomes("consumer", Store(ReleaseFence(Stores(Sees("consumer"), new)), F, w))
    BY <1>5, <1>8, <2>1, <2>3, <2>4, <2>5 DEF ReadElement, GiveBack, Store, C
  <2>7. "consumer" \in Threads
    BY DEF Threads
  <2>8. /\ Publishes("consumer", DOMAIN new \cup {F}, F) /\ now'[F] = w
        /\ \A x \in DOMAIN new : now'[x] = new[x]
    <3>1. /\ DOMAIN new \subseteq Locations /\ F \notin DOMAIN new /\ F \in Locations
          /\ \A x \in DOMAIN new : new[x] \in Nat
      BY <1>12, <2>2
    <3>2. Memory
      BY <1>1
    <3>3. w \in Nat
      OBVIOUS
    <3> QED
      BY <2>6, <2>7, <3>1, <3>2, <3>3, MoreStores
  <2>9. DOMAIN new \cup {F} = {S, F}
    BY <2>2
  <2> QED
    BY <2>3, <2>8, <2>9
<1>14. /\ Memory' /\ Pc' = Pc
       /\ \A x \in Locations \ {S, F} :
            mem'[x] = mem[x] /\ last'[x] = last[x] /\ now'[x] = now[x] /\ Cc'[x] = Cc[x]
       /\ last'[F] = last[F] + 1 /\ Cc'[S] = last'[S] /\ Cc'[F] = last'[F]
       /\ \A x \in Locations : \A k \in 1..last[x] : mem'[x][k] = mem[x][k]
       /\ \A x \in Locations : mem'[F][last'[F]].view[x] = Cc'[x]
  BY <1>12, <1>13 DEF Publishes, Pc, Cc, Threads
<1>15. /\ Got'[f] = g0 + 1 /\ \A b \in Block \ {f} : Got'[b] = Got[b]
       /\ \A b \in Block : Put'[b] = Put[b]
       /\ At' = At /\ Entered' = e /\ Left' = n /\ Made' = Made
  <2>1. \A b \in Block : Put'[b] = last'[TailOf(b)] - 1 /\ Got'[b] = last'[FrontOf(b)] - Origin(b)
    BY DEF Put, Got
  <2>2. \A b \in Block : Put[b] = last[TailOf(b)] - 1 /\ Got[b] = last[FrontOf(b)] - Origin(b)
    BY DEF Put, Got
  <2>3. last[F] = g0 + Origin(f) /\ Origin(f) \in 1..2
    BY <1>1, <1>5, <1>7, <1>8, Shapes
  <2>4. Got'[f] = g0 + 1
    BY <1>5, <1>8, <1>14, <2>1, <2>3
  <2>5. At' = At
    BY <1>12, <1>14 DEF At
  <2>6. Entered' = e /\ Left' = n /\ Made' = Made
    BY <1>2, <1>3, <1>12, <1>14 DEF Entered, Left, Made
  <2> QED
    BY <1>12, <1>14, <2>1, <2>2, <2>4, <2>5, <2>6
\* The elements left are where they were.
<1>16. ASSUME NEW b \in Made
       PROVE  Got'[b] \in Nat /\ Got[b] <= Got'[b] /\ Got'[b] <= Put[b] /\ (b # f => Got'[b] = Got[b])
  BY <1>6, <1>7, <1>10, <1>15
<1>17. ASSUME NEW b \in Made, NEW p \in Got'[b]..(Put[b] - 1)
       PROVE  p \in Nat /\ p \in Got[b]..(Put[b] - 1) /\ Slot(b, Wrap(p)) \in Locations \ {S, F}
  <2>1. p \in Nat /\ p \in Got[b]..(Put[b] - 1) /\ b \in Block
    BY <1>6, <1>16
  <2>2. b = f => Wrap(p) # Wrap(g0)
    <3>1. b = f => g0 < p /\ p < g0 + BlockSize
      BY <1>6, <1>7, <1>10, <1>15, <2>1
    <3> QED
      BY <2>1, <3>1, WrapFacts
  <2> QED
    BY <1>6, <1>12, <2>1, <2>2
<1>18. ASSUME NEW g \in 0..g0, NEW i \in Slots, Spare(g, q0, i) PROVE i # Wrap(g0)
  <2>1. g0 \in g..(q0 - 1)
    BY <1>10
  <2> QED
    BY <1>18, <2>1 DEF Spare
<1>19. PICK d \in Nat, z \in Nat : d = dequeued /\ z = enqueued
  BY <1>1 DEF Control
<1>20. /\ First(f) = d + 1 /\ First(f) = now[S]
       /\ First(f) + (q0 - g0) <= z + 1 /\ d + 1 <= z
  <2>1. First(f) = d + 1
    BY <1>1, <1>2, <1>5, <1>19 DEF Cells
  <2>2. First(f) = now[S]
    BY <1>7, <1>8, <1>10 DEF First
  <2>3. First(f) + (q0 - g0) <= z + 1
    <3>1. n \in n..e
      BY <1>4
    <3> QED
      BY <1>1, <1>2, <1>5, <1>7, <1>19, <3>1 DEF Cells
  <2> QED
    BY <1>10, <2>1, <2>2, <2>3
\* The conjuncts.
<1>21. Control'
  <2>1. d + 1 \in 0..z
    BY <1>20
  <2> QED
    BY <1>1, <1>3, <1>15, <1>19, <2>1 DEF Control
<1>22. Histories'
  <2>1. ASSUME NEW b \in Made, NEW g \in 0..Got'[b] PROVE mem'[FrontOf(b)][g + Origin(b)].val = Wrap(g)
    <3>1. CASE b # f
      BY <1>1, <1>6, <1>12, <1>14, <1>16, <3>1 DEF Histories
    <3>2. CASE b = f /\ g \in 0..g0
      <4>1. g + Origin(f) \in 1..last[F]
        <5>1. last[F] = g0 + Origin(f) /\ Origin(f) \in 1..2
          BY <1>1, <1>5, <1>7, <1>8, Shapes
        <5> QED
          BY <3>2, <5>1
      <4>2. mem[F][g + Origin(f)].val = Wrap(g)
        BY <1>1, <1>7, <1>8, <3>2 DEF Histories
      <4> QED
        BY <1>8, <1>12, <1>14, <3>2, <4>1, <4>2
    <3>3. CASE b = f /\ g = g0 + 1
      <4>1. last'[F] = g + Origin(f)
        BY <1>1, <1>5, <1>7, <1>8, <1>14, <3>3, Shapes
      <4>2. now'[F] = mem'[F][last'[F]].val
        BY <1>12, <1>14, RangesHoldNext DEF Ranges, now
      <4> QED
        BY <1>8, <1>13, <3>3, <4>1, <4>2
    <3> QED
      BY <1>15, <3>1, <3>2, <3>3
  <2>2. ASSUME NEW b \in Made
        PROVE  /\ Got'[b] >= 0 /\ now'[NextOf(b)] \in Made
               /\ \A p \in 0..Put'[b] : mem'[TailOf(b)][p + 1].val = Wrap(p)
    BY <1>1, <1>6, <1>12, <1>14, <1>15, <1>16 DEF Histories
  <2>3. ASSUME NEW b \in Block \ Made
        PROVE  /\ Put'[b] = 0 /\ Got'[b] = -1 /\ localFront'[b] = 0
               /\ mem'[TailOf(b)][1].val = 0
               /\ \A i \in Slots : last'[Slot(b, i)] = 1
    <3>1. b # f
      OBVIOUS
    <3>2. Put[b] = 0 /\ Got[b] = -1 /\ localFront[b] = 0 /\ mem[TailOf(b)][1].val = 0 /\ \A i \in Slots : last[Slot(b, i)] = 1
      BY <1>1 DEF Histories
    <3> QED
      BY <1>3, <1>12, <1>14, <1>15, <3>1, <3>2
  <2>4. \A j \in 1..n : mem'[FrontBlock][j].val = At[j]
    BY <1>1, <1>2, <1>12, <1>14 DEF Histories
  <2> QED
    BY <1>4, <1>15, <2>1, <2>2, <2>3, <2>4 DEF Histories
<1>23. Circle'
  <2>1. \A b \in Made : now'[NextOf(b)] = now[NextOf(b)]
    BY <1>6, <1>12, <1>14
  <2>2. \A j \in h..(e - 1) : now'[NextOf(At[j])] = At[j + 1]
    BY <1>1, <1>2, <1>4, <2>1 DEF Circle
  <2> QED
    BY <1>1, <1>2, <1>14, <1>15, <2>1, <2>2 DEF Circle
<1>24. ASSUME NEW j \in (n + 1)..e PROVE At[j] \in Made /\ At[j] \in Block \ {f} /\ Got'[At[j]] = Got[At[j]]
  <2>1. j \in 1..e /\ j \in h..e /\ j # n
    BY <1>4
  <2> QED
    BY <1>4, <1>11, <1>15, <2>1
<1>25. Counts'
  <2>1. ASSUME NEW b \in Made PROVE Got'[b] <= Put'[b] /\ Put'[b] - Got'[b] < BlockSize
    <3>1. Put[b] - Got[b] < BlockSize
      BY <1>1 DEF Counts
    <3> QED
      BY <1>6, <1>15, <1>16, <3>1
  <2>2. ASSUME NEW b \in Made, Outside(At, n, e, b) PROVE Got'[b] = Put'[b]
    <3>1. b # f
      <4>1. n \in n..e
        BY <1>4
      <4> QED
        BY <1>5, <2>2, <4>1 DEF Outside
    <3> QED
      BY <1>1, <1>2, <1>6, <1>15, <2>2, <3>1 DEF Counts
  <2>3. ASSUME NEW j \in (n + 1)..e PROVE Got'[At[j]] < Put'[At[j]]
    BY <1>1, <1>2, <1>15, <1>24 DEF Counts
  <2> QED
    BY <1>15, <2>1, <2>2, <2>3 DEF Counts
<1>26. Cells'
  <2>1. ASSUME NEW b \in Made, NEW p \in Got'[b]..(Put[b] - 1)
        PROVE  now'[Slot(b, Wrap(p))] = now'[Slot(b, Wrap(Got'[b]))] + (p - Got'[b])
    <3>1. Got'[b] \in Got'[b]..(Put[b] - 1)
      BY <1>6, <1>16
    <3>2. /\ now'[Slot(b, Wrap(p))] = now[Slot(b, Wrap(p))]
          /\ now'[Slot(b, Wrap(Got'[b]))] = now[Slot(b, Wrap(Got'[b]))]
          /\ p \in Got[b]..(Put[b] - 1) /\ Got'[b] \in Got[b]..(Put[b] - 1)
      BY <1>14, <1>17, <3>1
    <3>3. PICK x \in Nat : x = now[Slot(b, Wrap(Got[b]))]
      BY <1>1, <1>6, Kinds, Messages
    <3>4. /\ now[Slot(b, Wrap(p))] = x + (p - Got[b])
          /\ now[Slot(b, Wrap(Got'[b]))] = x + (Got'[b] - Got[b])
      BY <1>1, <3>2, <3>3 DEF Cells
    <3> QED
      BY <1>6, <1>16, <3>2, <3>4
  <2>2. First(f)' = d + 2
    <3>1. CASE g0 + 1 < q0
      <4>1. g0 + 1 \in Got'[f]..(Put[f] - 1) /\ g0 + 1 \in Got[f]..(Put[f] - 1)
        BY <1>7, <1>15, <3>1
      <4>2. now'[Slot(f, Wrap(g0 + 1))] = now[Slot(f, Wrap(g0 + 1))]
        BY <1>14, <1>17, <4>1
      <4>3. now[Slot(f, Wrap(g0 + 1))] = now[S] + ((g0 + 1) - g0)
        BY <1>1, <1>7, <1>8, <4>1 DEF Cells
      <4>4. now'[Slot(f, Wrap(g0 + 1))] = d + 2
        BY <1>20, <4>2, <4>3
      <4>5. Got'[f] = g0 + 1 /\ Got'[f] < Put'[f]
        BY <1>5, <1>7, <1>15, <3>1
      <4> QED
        BY <4>4, <4>5 DEF First
    <3>2. CASE g0 + 1 = q0
      <4>1. ~(Got'[f] < Put'[f])
        BY <1>5, <1>7, <1>15, <3>2
      <4>2. dequeued' + 1 = d + 2
        BY <1>3, <1>19
      <4> QED
        BY <4>1, <4>2 DEF First
    <3> QED
      BY <1>10, <3>1, <3>2
  <2>3. ASSUME NEW j \in (n + 1)..e
        PROVE  /\ First(At[j])' = First(At[j]) /\ Got'[At[j]] = Got[At[j]] /\ Put'[At[j]] = Put[At[j]]
               /\ First(At[j]) + (Put[At[j]] - Got[At[j]]) <= z + 1
    <3>1. PICK b \in Made : b = At[j] /\ b \in Block \ {f} /\ Got'[b] = Got[b] /\ Put'[b] = Put[b]
      BY <1>15, <1>24
    <3>2. Got[b] < Put[b]
      BY <1>1, <1>2, <3>1 DEF Counts
    <3>3. Got[b] \in Got'[b]..(Put[b] - 1)
      BY <1>6, <3>1, <3>2
    <3>4. now'[Slot(b, Wrap(Got[b]))] = now[Slot(b, Wrap(Got[b]))]
      BY <1>14, <1>17, <3>3
    <3>5. First(b)' = First(b)
      BY <3>1, <3>2, <3>4 DEF First
    <3>6. j \in n..e
      BY <1>4
    <3>7. First(At[j]) + (Put[At[j]] - Got[At[j]]) <= z + 1
      BY <1>1, <1>2, <1>19, <3>6 DEF Cells
    <3> QED
      BY <1>15, <3>1, <3>5, <3>7 DEF First
  <2>4. First(At[n])' = d + 2 /\ Got'[At[n]] = g0 + 1 /\ Put'[At[n]] = q0
    BY <1>5, <1>7, <1>15, <2>2 DEF First
  <2>5. ASSUME NEW j \in n..(e - 1)
        PROVE  First(At[j])' + (Put'[At[j]] - Got'[At[j]]) = First(At[j + 1])'
    <3>1. j + 1 \in (n + 1)..e
      BY <1>4
    <3>2. First(At[j]) + (Put[At[j]] - Got[At[j]]) = First(At[j + 1])
      BY <1>1, <1>2 DEF Cells
    <3>3. First(At[j + 1])' = First(At[j + 1])
      BY <2>3, <3>1
    <3>4. CASE j = n
      <4>1. (d + 1) + (q0 - g0) = First(At[n + 1])
        BY <1>5, <1>7, <1>20, <3>2, <3>4
      <4> QED
        BY <2>4, <3>3, <3>4, <4>1
    <3>5. CASE j # n
      <4>1. j \in (n + 1)..e
        BY <1>4, <3>5
      <4> QED
        BY <2>3, <3>2, <3>3, <4>1
    <3> QED
      BY <3>4, <3>5
  <2>6. ASSUME NEW j \in n..e
        PROVE  First(At[j])' + (Put'[At[j]] - Got'[At[j]]) <= z + 1
    <3>1. CASE j = n
      BY <1>20, <2>4, <3>1
    <3>2. CASE j # n
      <4>1. j \in (n + 1)..e
        BY <3>2
      <4> QED
        BY <2>3, <4>1
    <3> QED
      BY <3>1, <3>2
  <2>7. First(At[e])' + (Put'[At[e]] - Got'[At[e]]) = z + 1
    <3>1. First(At[e]) + (Put[At[e]] - Got[At[e]]) = z + 1
      BY <1>1, <1>2, <1>19 DEF Cells
    <3>2. CASE e = n
      <4>1. (d + 1) + (q0 - g0) = z + 1
        BY <1>5, <1>7, <1>20, <3>1, <3>2
      <4>2. First(At[e])' = d + 2 /\ Got'[At[e]] = g0 + 1 /\ Put'[At[e]] = q0
        BY <2>4, <3>2
      <4> QED
        BY <4>1, <4>2
    <3>3. CASE e # n
      <4>1. e \in (n + 1)..e
        BY <1>4, <3>3
      <4> QED
        BY <2>3, <3>1, <4>1
    <3> QED
      BY <3>2, <3>3
  <2>8. \A b \in Made : \A p \in Got'[b]..(Put'[b] - 1) :
          now'[Slot(b, Wrap(p))] = now'[Slot(b, Wrap(Got'[b]))] + (p - Got'[b])
    BY <1>6, <1>15, <2>1
  <2>9. dequeued' + 1 = d + 2 /\ enqueued' = z
    BY <1>3, <1>19
  <2> QED
    BY <1>15, <2>4, <2>5, <2>6, <2>7, <2>8, <2>9 DEF Cells, First
<1>27. ConsumerKnows'
  <2>1. Cc'[FrontBlock] = n /\ Cc'[TailBlock] >= n
    BY <1>1, <1>2, <1>12, <1>14 DEF ConsumerKnows
  <2>2. ASSUME NEW b \in Made, Outside(At, n + 1, e, b) PROVE Cc'[FrontOf(b)] = last'[FrontOf(b)]
    <3>1. CASE b = f
      BY <1>8, <1>14, <3>1
    <3>2. CASE b # f
      BY <1>1, <1>2, <1>6, <1>12, <1>14, <2>2, <3>2 DEF ConsumerKnows
    <3> QED
      BY <3>1, <3>2
  <2>3. ASSUME NEW b \in Made, NEW i \in Slots, Spare(Got'[b], Put[b], i)
        PROVE  Cc'[Slot(b, i)] = last'[Slot(b, i)]
    <3>1. CASE b = f /\ i = Wrap(g0)
      BY <1>8, <1>14, <3>1
    <3>2. CASE b # f \/ i # Wrap(g0)
      <4>1. Spare(Got[b], Put[b], i)
        <5>1. CASE b # f
          BY <1>16, <2>3, <5>1
        <5>2. CASE b = f
          <6>1. \A p \in g0..(q0 - 1) : p = g0 \/ p \in (g0 + 1)..(q0 - 1)
            OBVIOUS
          <6> QED
            BY <1>7, <1>15, <2>3, <3>2, <5>2, <6>1 DEF Spare
        <5> QED
          BY <5>1, <5>2
      <4>2. Slot(b, i) \in Locations \ {S, F}
        BY <1>6, <1>12, <3>2
      <4> QED
        BY <1>1, <1>14, <4>1, <4>2 DEF ConsumerKnows
    <3> QED
      BY <3>1, <3>2
  <2> QED
    BY <1>6, <1>15, <2>1, <2>2, <2>3 DEF ConsumerKnows
<1>28. FrontViews'
  <2>1. ASSUME NEW b \in Made, NEW g \in 0..Got'[b], NEW i \in Slots, Spare(g, Put[b], i)
        PROVE  mem'[FrontOf(b)][g + Origin(b)].view[Slot(b, i)] = last'[Slot(b, i)]
    <3>1. CASE b # f
      <4>1. g \in 0..Got[b] /\ b \in Block \ {f}
        BY <1>6, <1>16, <3>1
      <4>2. mem'[FrontOf(b)] = mem[FrontOf(b)] /\ last'[Slot(b, i)] = last[Slot(b, i)]
        BY <1>12, <1>14, <4>1
      <4> QED
        BY <1>1, <2>1, <4>1, <4>2 DEF FrontViews
    <3>2. CASE b = f /\ g \in 0..g0
      <4>1. i # Wrap(g0)
        BY <1>7, <1>18, <2>1, <3>2
      <4>2. last'[Slot(f, i)] = last[Slot(f, i)]
        BY <1>5, <1>12, <1>14, <4>1
      <4>3. g + Origin(f) \in 1..last[F]
        <5>1. last[F] = g0 + Origin(f) /\ Origin(f) \in 1..2
          BY <1>1, <1>5, <1>7, <1>8, Shapes
        <5> QED
          BY <3>2, <5>1
      <4>4. mem[F][g + Origin(f)].view[Slot(f, i)] = last[Slot(f, i)]
        BY <1>1, <1>7, <1>8, <2>1, <3>2 DEF FrontViews
      <4> QED
        BY <1>8, <1>12, <1>14, <3>2, <4>2, <4>3, <4>4
    <3>3. CASE b = f /\ g = g0 + 1
      <4>1. g + Origin(f) = last'[F]
        <5>1. last[F] = g0 + Origin(f) /\ Origin(f) \in 1..2
          BY <1>1, <1>5, <1>7, <1>8, Shapes
        <5>2. last'[F] = last[F] + 1
          BY <1>14
        <5> QED
          BY <3>3, <5>1, <5>2
      <4>2. mem'[F][g + Origin(f)].view[Slot(f, i)] = Cc'[Slot(f, i)]
        BY <1>5, <1>14, <4>1, Kinds
      <4>3. Cc'[Slot(f, i)] = last'[Slot(f, i)]
        BY <1>5, <1>15, <1>27, <2>1, <3>3 DEF ConsumerKnows
      <4> QED
        BY <1>8, <3>3, <4>2, <4>3
    <3> QED
      BY <1>15, <3>1, <3>2, <3>3
  <2> QED
    BY <1>6, <1>15, <2>1 DEF FrontViews
<1>29. FrontBlockViews'
  <2>1. ASSUME NEW m \in 1..n, NEW b \in Made, Outside(At, m, e, b)
        PROVE  /\ mem'[FrontBlock][m].view[FrontOf(b)] = last'[FrontOf(b)]
               /\ \A i \in Slots : mem'[FrontBlock][m].view[Slot(b, i)] = last'[Slot(b, i)]
    <3>1. b \in Block \ {f}
      <4>1. n \in m..e
        BY <1>4
      <4> QED
        BY <1>5, <1>6, <2>1, <4>1 DEF Outside
    <3>2. last'[FrontOf(b)] = last[FrontOf(b)] /\ \A i \in Slots : last'[Slot(b, i)] = last[Slot(b, i)]
      BY <1>12, <1>14, <3>1
    <3>3. mem'[FrontBlock] = mem[FrontBlock]
      BY <1>12, <1>14
    <3> QED
      BY <1>1, <1>2, <2>1, <3>2, <3>3 DEF FrontBlockViews
  <2> QED
    BY <1>15, <2>1 DEF FrontBlockViews
<1>30. ASSUME NEW v, NEW b \in Made
       PROVE  /\ b # f /\ Got[b] < Put[b] /\ Ready(v, b) =>
                   /\ v[FrontOf(b)] = last'[FrontOf(b)] /\ v[Built(b)] = last'[Built(b)]
                   /\ v[TailOf(b)] >= Got'[b] + 2
                   /\ v[Slot(b, Wrap(Got'[b]))] = last'[Slot(b, Wrap(Got'[b]))]
              /\ Complete(v, b) =>
                   /\ v[TailOf(b)] = last'[TailOf(b)] /\ v[NextOf(b)] = last'[NextOf(b)]
                   /\ \A p \in Got'[b]..(Put'[b] - 1) : v[Slot(b, Wrap(p))] = last'[Slot(b, Wrap(p))]
  <2>1. /\ last'[Built(b)] = last[Built(b)] /\ last'[TailOf(b)] = last[TailOf(b)]
        /\ last'[NextOf(b)] = last[NextOf(b)] /\ Put'[b] = Put[b]
        /\ b # f => last'[FrontOf(b)] = last[FrontOf(b)] /\ Got'[b] = Got[b]
    BY <1>6, <1>12, <1>14, <1>15
  <2>2. ASSUME NEW p \in Got'[b]..(Put'[b] - 1), Complete(v, b) PROVE v[Slot(b, Wrap(p))] = last'[Slot(b, Wrap(p))]
    <3>1. p \in Got[b]..(Put[b] - 1) /\ last'[Slot(b, Wrap(p))] = last[Slot(b, Wrap(p))]
      BY <1>14, <1>17, <2>1
    <3> QED
      BY <2>2, <3>1 DEF Complete
  <2>3. b # f /\ Got[b] < Put[b] => last'[Slot(b, Wrap(Got[b]))] = last[Slot(b, Wrap(Got[b]))]
    <3>1. b # f /\ Got[b] < Put[b] => Got[b] \in Got'[b]..(Put[b] - 1)
      BY <1>6, <2>1
    <3> QED
      BY <1>14, <1>17, <3>1
  <2>4. b # f /\ Got[b] < Put[b] /\ Ready(v, b) =>
          /\ v[FrontOf(b)] = last'[FrontOf(b)] /\ v[Built(b)] = last'[Built(b)]
          /\ v[TailOf(b)] >= Got'[b] + 2
          /\ v[Slot(b, Wrap(Got'[b]))] = last'[Slot(b, Wrap(Got'[b]))]
    BY <2>1, <2>3 DEF Ready
  <2>5. Complete(v, b) =>
          /\ v[TailOf(b)] = last'[TailOf(b)] /\ v[NextOf(b)] = last'[NextOf(b)]
          /\ \A p \in Got'[b]..(Put'[b] - 1) : v[Slot(b, Wrap(p))] = last'[Slot(b, Wrap(p))]
    BY <2>1, <2>2 DEF Complete
  <2> QED
    BY <2>4, <2>5
<1>31. TailBlockViews'
  <2>1. ASSUME NEW m \in 1..e, NEW j \in n..m, j > n PROVE Ready(mem[TailBlock][m].view, At[j])'
    <3>1. PICK v : v = mem'[TailBlock][m].view /\ v = mem[TailBlock][m].view
      BY <1>12, <1>14
    <3>2. j \in (n + 1)..e
      BY <2>1
    <3>3. PICK b \in Made : b = At[j] /\ b = At'[j] /\ b # f
      BY <1>15, <1>24, <3>2
    <3>4. Ready(v, b) /\ Got[b] < Put[b]
      BY <1>1, <1>2, <2>1, <3>1, <3>2, <3>3 DEF TailBlockViews, Counts
    <3> QED
      BY <1>30, <3>1, <3>3, <3>4 DEF Ready
  <2>2. ASSUME NEW m \in 1..e, NEW j \in n..m, j < m PROVE Complete(mem[TailBlock][m].view, At[j])'
    <3>1. PICK v : v = mem'[TailBlock][m].view /\ v = mem[TailBlock][m].view
      BY <1>12, <1>14
    <3>2. PICK b \in Made : b = At[j] /\ b = At'[j]
      BY <1>4, <1>15
    <3>3. Complete(v, b)
      BY <1>1, <1>2, <2>2, <3>1, <3>2 DEF TailBlockViews
    <3> QED
      BY <1>30, <3>1, <3>2, <3>3 DEF Complete
  <2> QED
    BY <1>15, <2>1, <2>2 DEF TailBlockViews
<1>32. TailViews'
  <2>1. ASSUME NEW b \in Made, NEW r \in 0..Put[b], NEW p \in Got'[b]..(r - 1)
        PROVE  \/ mem'[TailOf(b)][r + 1].view[Slot(b, Wrap(p))] = last'[Slot(b, Wrap(p))]
               \/ Cc'[Slot(b, Wrap(p))] = last'[Slot(b, Wrap(p))]
               \/ b # f /\ p = Got'[b]
    <3>1. p \in Got'[b]..(Put[b] - 1) /\ p \in Got[b]..(r - 1)
      BY <1>6, <1>16
    <3>2. /\ mem'[TailOf(b)] = mem[TailOf(b)] /\ last'[Slot(b, Wrap(p))] = last[Slot(b, Wrap(p))]
          /\ Cc'[Slot(b, Wrap(p))] = Cc[Slot(b, Wrap(p))]
      BY <1>6, <1>12, <1>14, <1>17, <3>1
    <3>3. \/ mem[TailOf(b)][r + 1].view[Slot(b, Wrap(p))] = last[Slot(b, Wrap(p))]
          \/ Cc[Slot(b, Wrap(p))] = last[Slot(b, Wrap(p))]
          \/ b # f /\ p = Got[b]
      BY <1>1, <1>2, <1>5, <3>1 DEF TailViews
    <3> QED
      BY <1>16, <3>2, <3>3
  <2>2. At'[Left'] = f
    BY <1>5, <1>15
  <2> QED
    BY <1>6, <1>15, <2>1, <2>2 DEF TailViews
<1>33. ProducerRoom'
  <2>1. PICK t \in Made : t = At[e] /\ t \in Block
    BY <1>4
  <2>2. PICK g \in 0..(Pc[FrontOf(t)] - Origin(t)) :
          /\ localFront[t] = Wrap(g) /\ Put[t] - g < BlockSize
          /\ \A i \in Slots : Spare(g, Put[t], i) => Pc[Slot(t, i)] = last[Slot(t, i)]
    BY <1>1, <1>2, <2>1 DEF ProducerRoom, Room
  <2>3. g \in 0..Got[t]
    <3>1. /\ Pc[FrontOf(t)] \in Nat /\ last[FrontOf(t)] \in Nat /\ Pc[FrontOf(t)] <= last[FrontOf(t)]
          /\ Got[t] = last[FrontOf(t)] - Origin(t) /\ Origin(t) \in 1..2
      BY <1>1, <2>1, Kinds, Numbers, Shapes
    <3> QED
      BY <1>6, <2>2, <3>1
  <2>4. ASSUME NEW i \in Slots, Spare(g, Put[t], i) PROVE Pc[Slot(t, i)] = last'[Slot(t, i)]
    <3>1. t = f => i # Wrap(g0)
      BY <1>7, <1>18, <2>3, <2>4
    <3>2. last'[Slot(t, i)] = last[Slot(t, i)]
      BY <1>12, <1>14, <2>1, <3>1
    <3> QED
      BY <2>2, <2>4, <3>2
  <2>5. Room(t)'
    BY <1>3, <1>14, <1>15, <2>1, <2>2, <2>4 DEF Room
  <2> QED
    BY <1>15, <2>1, <2>5 DEF ProducerRoom, Room
<1>34. ProducerKnows'
  <2>1. Pc'[TailBlock] = e
    BY <1>1, <1>2, <1>14 DEF ProducerKnows
  <2>2. \A b \in Block : /\ Pc'[TailOf(b)] = last'[TailOf(b)] /\ Pc'[NextOf(b)] = last'[NextOf(b)]
                         /\ Pc'[Built(b)] = last'[Built(b)]
    BY <1>1, <1>12, <1>14 DEF ProducerKnows
  <2>3. \A b \in Made : Pc'[FrontOf(b)] >= Origin(b)
    BY <1>1, <1>14 DEF ProducerKnows
  <2>4. ASSUME NEW j \in (n + 1)..e PROVE Pc'[FrontOf(At[j])] = last'[FrontOf(At[j])]
    BY <1>1, <1>2, <1>12, <1>14, <1>24 DEF ProducerKnows
  <2>5. ASSUME NEW b \in Made, NEW p \in Got'[b]..(Put[b] - 1)
        PROVE  Pc'[Slot(b, Wrap(p))] = last'[Slot(b, Wrap(p))]
    BY <1>1, <1>14, <1>17 DEF ProducerKnows
  <2> QED
    BY <1>6, <1>15, <2>1, <2>2, <2>3, <2>4, <2>5 DEF ProducerKnows
<1>35. ProducerAt'
  <2>1. PICK t \in Made : t = At[e] /\ t \in Block
    BY <1>4
  <2>2. PICK o \in Made : o = now[NextOf(t)] /\ o = now'[NextOf(t)] /\ o \in Block
    BY <1>1, <1>6, <1>12, <1>14, <2>1 DEF Histories
  <2>3. o # f => /\ last'[FrontOf(o)] = last[FrontOf(o)] /\ Got'[o] = Got[o]
                 /\ \A i \in Slots : last'[Slot(o, i)] = last[Slot(o, i)]
    BY <1>12, <1>14, <1>15, <2>2
  <2>4. Outside(At, h, e, o) => o # f
    <3>1. n \in h..e
      BY <1>4
    <3> QED
      BY <1>5, <3>1 DEF Outside
  <2>5. ppc = "construct" => Succ(Wrap(Put'[t])) # localFront'[t]
    BY <1>1, <1>2, <1>3, <1>15, <2>1 DEF ProducerAt
  <2>6. ppc \in {"loadNext", "constructNext"} =>
          /\ Outside(At, h, e, o) /\ Pc[FrontOf(o)] = last[FrontOf(o)]
          /\ \A i \in Slots : Pc[Slot(o, i)] = last[Slot(o, i)]
    BY <1>1, <1>2, <2>1, <2>2 DEF ProducerAt
  <2>7. ppc = "constructNext" => localFront'[o] = Wrap(Got'[o])
    BY <1>1, <1>2, <1>3, <2>1, <2>2, <2>3, <2>4, <2>6 DEF ProducerAt
  <2>8. At'[Entered'] = t /\ now'[NextOf(At'[Entered'])] = o
    BY <1>15, <2>1, <2>2
  <2>9. ppc \in {"loadNext", "constructNext"} =>
          /\ Outside(At', Pc'[FrontBlock], Entered', o)
          /\ Pc'[FrontOf(o)] = last'[FrontOf(o)]
          /\ \A i \in Slots : Pc'[Slot(o, i)] = last'[Slot(o, i)]
    BY <1>2, <1>14, <1>15, <2>3, <2>4, <2>6
  <2> QED
    BY <1>3, <2>5, <2>7, <2>8, <2>9 DEF ProducerAt
<1>36. ConsumerStock'
  <2>1. Cc'[TailOf(f)] = Cc[TailOf(f)] /\ localTail'[f] = Wrap(q)
    BY <1>3, <1>5, <1>9, <1>12, <1>14
  <2>2. ASSUME NEW p \in (g0 + 1)..(q - 1) PROVE Cc'[Slot(f, Wrap(p))] = last'[Slot(f, Wrap(p))]
    <3>1. p \in Got'[f]..(Put[f] - 1) /\ p \in g0..(q - 1)
      BY <1>7, <1>10, <1>15
    <3> QED
      BY <1>9, <1>14, <1>17, <3>1
  <2>3. q \in (g0 + 1)..(Cc[TailOf(f)] - 1)
    BY <1>9, <1>10
  <2>4. Stock(f)'
    BY <1>15, <2>1, <2>2, <2>3 DEF Stock
  <2>5. At'[Left'] = f
    BY <1>5, <1>15
  <2> QED
    BY <2>4, <2>5 DEF ConsumerStock, Stock
<1>37. ConsumerAt'
  BY <1>3 DEF ConsumerAt
<1> QED
  BY <1>14, <1>21, <1>22, <1>23, <1>25, <1>26, <1>27, <1>28, <1>29, <1>31, <1>32, <1>33, <1>34,
     <1>35, <1>36, <1>37 DEF WInv

-----------------------------------------------------------------------------
(* The invariant *)

\* The constructor's stores: one value of every location, and everyone knows it.
LEMMA StartIs ==
  ASSUME Init
  PROVE  /\ Memory
         /\ \A l \in Locations : last[l] = 1 /\ Pc[l] = 1 /\ Cc[l] = 1
         /\ \A l, x \in Locations : mem[l][1].view[x] = 1
         /\ \A l \in Locations : mem[l][1].val = IF l \in {FrontBlock, TailBlock, NextOf(1), Built(1)} THEN 1 ELSE 0
<1>1. PICK first : first = [l \in Locations |-> 1]
  OBVIOUS
<1>2. PICK initial : initial = [l \in Locations |-> IF l \in {FrontBlock, TailBlock, NextOf(1), Built(1)} THEN 1 ELSE 0]
  OBVIOUS
<1>3. DOMAIN initial = Locations /\ first \in [Locations -> Nat] /\ \A l \in Locations : first[l] = 1
  BY <1>1, <1>2
<1>4. \A l \in Locations : initial[l] \in Nat /\ initial[l] = IF l \in {FrontBlock, TailBlock, NextOf(1), Built(1)} THEN 1 ELSE 0
  BY <1>2
<1>5. /\ mem = [l \in Locations |-> <<[val |-> initial[l], view |-> first]>>]
      /\ views = [t \in Threads |-> [cur |-> first, acq |-> first, rel |-> first]]
  BY <1>1, <1>2, <1>3 DEF Init, Start
<1>6. ASSUME NEW l \in Locations
      PROVE  /\ mem[l] \in Seq(Message) /\ Len(mem[l]) = 1
             /\ mem[l][1].val = initial[l] /\ mem[l][1].view = first
  <2>1. PICK m \in Message : m = [val |-> initial[l], view |-> first]
    BY <1>3, <1>4, MessageFields
  <2>2. mem[l] = <<m>>
    BY <1>5, <2>1
  <2>3. <<m>> \in Seq(Message) /\ Len(<<m>>) = 1 /\ <<m>>[1] = m
    OBVIOUS
  <2> QED
    BY <2>1, <2>2, <2>3
<1>7. views \in [Threads -> Views]
  BY <1>3, <1>5 DEF Views
<1>8. ASSUME NEW t \in Threads PROVE Sound(Sees(t))
  <2>1. PICK s : s = Sees(t)
    OBVIOUS
  <2>2. /\ DOMAIN s = Parts /\ s.mem = mem
        /\ s.cur = first /\ s.acq = first /\ s.rel = first
    <3>1. views[t] = [cur |-> first, acq |-> first, rel |-> first]
      BY <1>5
    <3> QED
      BY <2>1, <3>1, SeesParts
  <2>3. mem \in [Locations -> Seq(Message)]
    <3>1. DOMAIN mem = Locations /\ mem = [l \in Locations |-> mem[l]]
      BY <1>5
    <3> QED
      BY <1>6, <3>1
  <2>4. \A l \in Locations : /\ 1 <= first[l] /\ first[l] <= first[l] /\ first[l] <= Len(mem[l])
    BY <1>3, <1>6
  <2>5. ASSUME NEW l \in Locations, NEW x \in Locations, NEW k \in 1..Len(mem[l])
        PROVE  1 <= mem[l][k].view[x] /\ mem[l][k].view[x] <= Len(mem[x])
    <3>1. Len(mem[l]) = 1
      BY <1>6
    <3>2. k = 1
      BY <3>1
    <3> QED
      BY <1>3, <1>6, <3>2
  <2>6. Sound(s)
    BY <1>3, <2>2, <2>3, <2>4, <2>5 DEF Sound
  <2> QED
    BY <2>1, <2>6
<1>9. Memory
  BY <1>7, <1>8 DEF Memory
<1>10. \A l \in Locations : last[l] = 1 /\ Pc[l] = 1 /\ Cc[l] = 1
  <2>1. Pc = first /\ Cc = first
    BY <1>5 DEF Pc, Cc, Threads
  <2> QED
    BY <1>3, <1>6, <2>1 DEF last
<1> QED
  BY <1>3, <1>4, <1>6, <1>9, <1>10

\* The constructor's first block.
LEMMA InitWInv == Init => WInv
<1> SUFFICES ASSUME Init PROVE WInv
  OBVIOUS
<1>1. /\ Memory
      /\ \A l \in Locations : last[l] = 1 /\ Pc[l] = 1 /\ Cc[l] = 1
      /\ \A l, x \in Locations : mem[l][1].view[x] = 1
      /\ \A l \in Locations : mem[l][1].val = IF l \in {FrontBlock, TailBlock, NextOf(1), Built(1)} THEN 1 ELSE 0
  BY StartIs
<1>2. /\ ppc = "idle" /\ cpc = "idle" /\ cblock = Null /\ blocks = 1 /\ enqueued = 0 /\ dequeued = 0
      /\ localFront = [b \in Block |-> 0] /\ localTail = [b \in Block |-> 0]
      /\ spc = [t \in Threads |-> "off"] /\ walk = [t \in Threads |-> [from |-> Null, at |-> Null]]
  BY DEF Init
<1>3. /\ 1 \in Block /\ Made = {1} /\ 0 \in Slots /\ Wrap(0) = 0
      /\ BlockSize \in Nat /\ BlockSize > 0 /\ MaxElements \in Nat
      /\ Origin(1) = 1 /\ \A b \in Block \ {1} : Origin(b) = 2
  <2>1. 1 \in Block /\ 0 \in Slots /\ BlockSize \in Nat /\ BlockSize > 0 /\ MaxElements \in Nat
    BY WeakAssumption DEF Block, Slots
  <2>2. Made = {1}
    BY <1>2 DEF Made
  <2> QED
    BY <2>1, <2>2, WrapFacts DEF Origin
<1>4. Control
  BY <1>2, <1>3 DEF Control, Threads
<1>5. \A b \in Block : Put[b] = 0 /\ Got[b] = 1 - Origin(b)
  BY <1>1, Kinds DEF Put, Got
<1>6. Put[1] = 0 /\ Got[1] = 0 /\ \A b \in Block \ {1} : Put[b] = 0 /\ Got[b] = -1
  BY <1>3, <1>5
<1>7. Entered = 1 /\ Left = 1 /\ Pc[FrontBlock] = 1 /\ Cc[FrontBlock] = 1 /\ Pc[TailBlock] = 1 /\ Cc[TailBlock] = 1
  BY <1>1, Kinds DEF Entered, Left
<1>8. At[1] = 1
  <2>1. At[1] = mem[TailBlock][1].val
    BY <1>1, <1>4, <1>7, Shapes
  <2> QED
    BY <1>1, <2>1, Kinds
<1>9. /\ mem[FrontBlock][1].val = 1 /\ now[NextOf(1)] = 1
      /\ \A b \in Block : mem[TailOf(b)][1].val = 0 /\ mem[FrontOf(b)][1].val = 0
  <2>1. NextOf(1) \in Locations /\ FrontBlock \in Locations
    BY <1>3, Kinds
  <2>2. now[NextOf(1)] = mem[NextOf(1)][1].val
    BY <1>1, <2>1, Messages
  <2>3. ASSUME NEW b \in Block PROVE mem[TailOf(b)][1].val = 0 /\ mem[FrontOf(b)][1].val = 0
    <3>1. /\ TailOf(b) \in Locations /\ FrontOf(b) \in Locations
          /\ TailOf(b) \notin {FrontBlock, TailBlock, NextOf(1), Built(1)}
          /\ FrontOf(b) \notin {FrontBlock, TailBlock, NextOf(1), Built(1)}
      BY Kinds
    <3> QED
      BY <1>1, <3>1
  <2> QED
    BY <1>1, <2>1, <2>2, <2>3
<1>10. Histories
  <2>1. \A q \in 0..Put[1] : q = 0 /\ mem[TailOf(1)][q + 1].val = Wrap(q)
    BY <1>3, <1>6, <1>9
  <2>2. \A g \in 0..Got[1] : g = 0 /\ mem[FrontOf(1)][g + Origin(1)].val = Wrap(g)
    BY <1>3, <1>6, <1>9
  <2>3. \A b \in Block \ Made : /\ Put[b] = 0 /\ Got[b] = -1 /\ localFront[b] = 0 /\ mem[TailOf(b)][1].val = 0
                                /\ \A i \in Slots : last[Slot(b, i)] = 1
    BY <1>1, <1>2, <1>3, <1>6, <1>9, Kinds
  <2>4. \A j \in 1..1 : At[j] \in Made /\ mem[FrontBlock][j].val = At[j]
    BY <1>3, <1>8, <1>9
  <2> QED
    BY <1>3, <1>6, <1>7, <1>9, <2>1, <2>2, <2>3, <2>4 DEF Histories
<1>11. Circle
  BY <1>3, <1>7, <1>8, <1>9 DEF Circle
<1>12. Counts
  <2>1. \A j \in (Left + 1)..Entered : FALSE
    BY <1>7
  <2> QED
    BY <1>3, <1>6, <2>1 DEF Counts
<1>13. Cells
  <2>1. First(1) = 1 /\ dequeued + 1 = 1 /\ enqueued + 1 = 1
    BY <1>2, <1>6 DEF First
  <2>2. \A j \in Left..(Entered - 1) : FALSE
    BY <1>7
  <2>3. \A j \in Left..Entered : j = 1
    BY <1>7
  <2>4. \A p \in Got[1]..(Put[1] - 1) : FALSE
    BY <1>6
  <2> QED
    BY <1>3, <1>6, <1>7, <1>8, <2>1, <2>2, <2>3, <2>4 DEF Cells
<1>14. FrontViews
  <2>1. \A g \in 0..Got[1] : g + Origin(1) = 1
    BY <1>3, <1>6
  <2>2. \A i \in Slots : mem[FrontOf(1)][1].view[Slot(1, i)] = last[Slot(1, i)]
    BY <1>1, <1>3, Kinds
  <2> QED
    BY <1>3, <2>1, <2>2 DEF FrontViews
<1>15. FrontBlockViews
  <2>1. mem[FrontBlock][1].view[FrontOf(1)] = last[FrontOf(1)] /\ \A i \in Slots : mem[FrontBlock][1].view[Slot(1, i)] = last[Slot(1, i)]
    BY <1>1, <1>3, Kinds
  <2>2. \A m \in 1..Left : m = 1
    BY <1>7
  <2> QED
    BY <1>3, <2>1, <2>2 DEF FrontBlockViews
<1>16. TailBlockViews /\ TailViews
  <2>1. \A m \in 1..Entered : \A j \in Left..m : ~(j > Left) /\ ~(j < m)
    BY <1>7
  <2>2. \A q \in 0..Put[1] : \A p \in Got[1]..(q - 1) : FALSE
    BY <1>6
  <2> QED
    BY <1>3, <2>1, <2>2 DEF TailBlockViews, TailViews
<1>17. ProducerRoom
  <2>1. 0 \in 0..(Pc[FrontOf(1)] - Origin(1)) /\ localFront[1] = Wrap(0) /\ Put[1] - 0 < BlockSize
    BY <1>1, <1>2, <1>3, <1>6, Kinds
  <2>2. \A i \in Slots : Pc[Slot(1, i)] = last[Slot(1, i)]
    BY <1>1, <1>3, Kinds
  <2>3. Room(1)
    BY <2>1, <2>2 DEF Room
  <2> QED
    BY <1>7, <1>8, <2>3 DEF ProducerRoom
<1>18. ProducerKnows
  <2>1. \A j \in (Left + 1)..Entered : FALSE
    BY <1>7
  <2>2. \A p \in Got[1]..(Put[1] - 1) : FALSE
    BY <1>6
  <2>3. Pc[FrontOf(1)] >= Origin(1)
    BY <1>1, <1>3, Kinds
  <2>4. \A b \in Block : /\ Pc[TailOf(b)] = last[TailOf(b)] /\ Pc[NextOf(b)] = last[NextOf(b)]
                         /\ Pc[Built(b)] = last[Built(b)]
    BY <1>1, Kinds
  <2> QED
    BY <1>3, <1>7, <2>1, <2>2, <2>3, <2>4 DEF ProducerKnows
<1>19. ProducerAt /\ ConsumerAt
  BY <1>2 DEF ProducerAt, ConsumerAt
<1>20. ConsumerStock
  <2>1. 0 \in Got[1]..(Cc[TailOf(1)] - 1) /\ localTail[1] = Wrap(0)
    BY <1>1, <1>2, <1>3, <1>6, Kinds
  <2>2. \A p \in Got[1]..(0 - 1) : FALSE
    BY <1>6
  <2>3. Stock(1)
    BY <2>1, <2>2 DEF Stock
  <2> QED
    BY <1>7, <1>8, <2>3 DEF ConsumerStock
<1>21. ConsumerKnows
  <2>1. Cc[FrontOf(1)] = last[FrontOf(1)] /\ \A i \in Slots : Cc[Slot(1, i)] = last[Slot(1, i)]
    BY <1>1, <1>3, Kinds
  <2> QED
    BY <1>3, <1>7, <2>1 DEF ConsumerKnows
<1> QED
  BY <1>1, <1>4, <1>10, <1>11, <1>12, <1>13, <1>14, <1>15, <1>16, <1>17, <1>18, <1>19, <1>20, <1>21 DEF WInv

\* A step of nobody.
LEMMA StutterStep ==
  ASSUME WInv, UNCHANGED weakVars
  PROVE  WInv'
<1>1. UNCHANGED <<mem, views, ppc, localFront, blocks, enqueued, cpc, cblock, dequeued, localTail, spc, walk>>
  BY DEF weakVars, prodVars, consVars, sizeVars
<1>2. Memory' /\ Pc' = Pc /\ Cc' = Cc /\ last' = last /\ Control'
  BY <1>1 DEF WInv, Memory, Sees, Pc, Cc, last, Control, Made
<1>3. \A l \in Locations : Pc[l] <= Pc'[l] /\ Cc[l] <= Cc'[l]
  BY <1>2, RangesHoldNext DEF Ranges
<1>4. Shared /\ ConsumerStock /\ ConsumerAt
  BY DEF WInv, Shared
<1>5. PICK f \in Made : f = At[Left]
  BY <1>4, Ends DEF Shared
<1>6. At' = At /\ Left' = Left /\ Got' = Got /\ Put' = Put /\ Entered' = Entered
  BY <1>1, SameMemory
<1>7. ConsumerStock' /\ ConsumerAt'
  BY <1>1, <1>2, <1>4, <1>6 DEF ConsumerStock, Stock, ConsumerAt, Complete, Ready
<1> QED
  BY <1>1, <1>2, <1>3, <1>7, ConsumerLearns

\* Every step keeps the invariant.
LEMMA NextWInv ==
  ASSUME WInv, [Next]_weakVars, "size_approx" \notin ConsumerOps
  PROVE  WInv'
<1>1. CASE BeginEnqueue
  BY <1>1, BeginEnqueueStep
<1>2. CASE InnerEnqueue
  BY <1>2, LoadFrontStep, ConstructStep, CheckNextStep, LoadNextStep, ConstructNextStep,
     MakeBlockStep, MallocFailsStep DEF InnerEnqueue
<1>3. CASE BeginDequeue
  BY <1>3, BeginDequeueStep
<1>4. CASE InnerDequeue
  BY <1>4, LoadTailStep, CheckTailBlockStep, ReloadTailStep, FollowNextStep, LoadNextTailStep,
     AssertNextTailStep, AdvanceFrontBlockStep, ReadElementStep, PeekElementStep DEF InnerDequeue
<1>5. CASE Sizing
  BY <1>5, SizingStep
<1>6. CASE UNCHANGED weakVars
  BY <1>6, StutterStep
<1> QED
  BY <1>1, <1>2, <1>3, <1>4, <1>5, <1>6 DEF Next

-----------------------------------------------------------------------------
(* What it implies *)

LEMMA WeakTypes == ASSUME WInv PROVE WeakTypeOK
<1>1. Memory /\ Control
  BY DEF WInv
<1>2. ASSUME NEW t \in Threads, NEW l \in Locations
      PROVE  /\ views[t].cur[l] \in 1..views[t].acq[l]
             /\ views[t].rel[l] \in 1..views[t].cur[l]
             /\ views[t].acq[l] \in 1..Len(mem[l])
  <2>1. PICK s : s = Sees(t)
    OBVIOUS
  <2>2. /\ Sound(s) /\ s.mem = mem /\ s.cur = views[t].cur /\ s.acq = views[t].acq /\ s.rel = views[t].rel
    BY <1>1, <2>1, SeesParts DEF Memory
  <2>3. PICK r \in Nat, c \in Nat, a \in Nat, m \in Nat :
          r = s.rel[l] /\ c = s.cur[l] /\ a = s.acq[l] /\ m = Len(s.mem[l])
    BY <2>2, SoundFacts
  <2>4. 1 <= r /\ r <= c /\ c <= a /\ a <= m
    BY <2>2, <2>3, SoundFacts
  <2>5. c \in 1..a /\ r \in 1..c /\ a \in 1..m
    BY <2>4
  <2> QED
    BY <2>2, <2>3, <2>5
<1>3. /\ ppc \in {"idle", "loadFront", "construct", "checkNext", "loadNext",
                "constructNext", "alloc"}
      /\ cpc \in {"idle", "loadTail", "checkTailBlock", "reloadTail", "loadNext",
                "loadNextTail", "advanceFrontBlock", "read", "move",
                "readNext", "failed"}
      /\ cblock \in Block \cup {Null}
      /\ localFront \in [Block -> Slots] /\ localTail \in [Block -> Slots]
      /\ blocks \in Block
      /\ enqueued \in 0..MaxElements /\ dequeued \in 0..enqueued
      /\ spc \in [Threads -> {"off", "count", "step"}]
      /\ walk \in [Threads -> [from : Block \cup {Null}, at : Block \cup {Null}]]
  BY <1>1 DEF Control
<1> QED
  BY <1>2, <1>3 DEF WeakTypeOK

\* The slot the consumer reads holds the oldest element, and it knows it.
LEMMA FoundIs ==
  ASSUME WInv, cpc \in {"read", "move", "readNext"}
  PROVE  /\ Found \in Locations /\ Cc[Found] = last[Found]
         /\ now[Found] = dequeued + 1
<1>1. /\ Memory /\ Control /\ Histories /\ Counts /\ Cells /\ ConsumerStock /\ ConsumerAt
  BY DEF WInv
<1>2. PICK e \in Nat, n \in Nat, d \in Nat : e = Entered /\ n = Left /\ d = dequeued
  BY <1>1, Ends DEF Control
<1>3. PICK f \in Made : f = At[n] /\ f = fb /\ f \in Block /\ Latest(FrontOf(f)) = Wrap(Got[f])
  BY <1>1, <1>2, Ends, Kinds
<1>4. First(f) = d + 1
  BY <1>1, <1>2, <1>3 DEF Cells
<1>5. \A b \in Made : b \in Block /\ Got[b] \in Nat /\ Put[b] \in Nat /\ Wrap(Got[b]) \in Slots
  BY <1>1, Ends, WrapFacts
<1>6. CASE cpc \in {"read", "move"}
  <2>1. PICK q \in Got[f]..(Cc[TailOf(f)] - 1) :
          /\ localTail[f] = Wrap(q)
          /\ \A p \in Got[f]..(q - 1) : Cc[Slot(f, Wrap(p))] = last[Slot(f, Wrap(p))]
    BY <1>1, <1>2, <1>3 DEF ConsumerStock, Stock
  <2>2. Wrap(Got[f]) # localTail[f]
    BY <1>1, <1>2, <1>3, <1>6 DEF ConsumerAt
  <2>3. Cc[TailOf(f)] \in Nat /\ Cc[TailOf(f)] <= last[TailOf(f)] /\ last[TailOf(f)] = Put[f] + 1
    BY <1>1, <1>3, Kinds, Numbers, Shapes
  <2>4. Got[f] < q /\ Got[f] < Put[f] /\ Got[f] \in Got[f]..(q - 1)
    BY <1>5, <2>1, <2>2, <2>3
  <2>5. Found = Slot(f, Wrap(Got[f]))
    BY <1>3, <1>6 DEF Found
  <2>6. now[Found] = d + 1
    BY <1>4, <2>4, <2>5 DEF First
  <2> QED
    BY <1>2, <1>5, <2>1, <2>4, <2>5, <2>6, Kinds
<1>7. CASE cpc = "readNext"
  <2>1. PICK a \in Made :
          /\ a = cblock /\ a = At[n + 1] /\ n < e /\ Ready(Cc, a) /\ Got[f] = Put[f]
          /\ Latest(FrontOf(a)) = Wrap(Got[a])
    BY <1>2, <1>3, <1>7, AheadIs
  <2>2. n \in n..(e - 1) /\ n + 1 \in (n + 1)..e
    BY <2>1
  <2>3. First(f) + (Put[f] - Got[f]) = First(a)
    BY <1>1, <1>2, <1>3, <2>1, <2>2 DEF Cells
  <2>4. Got[a] < Put[a]
    BY <1>1, <1>2, <2>1, <2>2 DEF Counts
  <2>5. Found = Slot(a, Wrap(Got[a]))
    BY <1>7, <2>1 DEF Found
  <2>6. now[Found] = d + 1
    BY <1>4, <1>5, <2>1, <2>3, <2>4, <2>5 DEF First
  <2> QED
    BY <1>2, <1>5, <2>1, <2>5, <2>6, Kinds DEF Ready
<1> QED
  BY <1>6, <1>7

\* Whoever touches a slot or a new block knows its latest value.
LEMMA NoRaces == ASSUME WInv PROVE NoDataRace
<1>1. /\ Memory /\ Control /\ Histories /\ Counts /\ ProducerRoom /\ ProducerAt
  BY DEF WInv
<1>2. \A l \in Locations : /\ Knows("producer", l) <=> Pc[l] = last[l]
                           /\ Knows("consumer", l) <=> Cc[l] = last[l]
  BY DEF Knows, Pc, Cc, last
<1>3. PICK t \in Made, o \in Made :
        /\ t = tb /\ t = At[Entered] /\ o = nb /\ o = now[NextOf(t)] /\ t \in Block /\ o \in Block
        /\ Latest(TailOf(t)) = Wrap(Put[t]) /\ Latest(TailOf(o)) = Wrap(Put[o])
        /\ Put[t] \in Nat /\ Put[o] \in Nat
  BY <1>1, Ends, Kinds
<1>4. ASSUME ppc = "construct" PROVE Knows("producer", Slot(tb, Latest(TailOf(tb))))
  <2>1. PICK p0 \in Nat : p0 = Put[t]
    BY <1>3
  <2>2. PICK g \in 0..(Pc[FrontOf(t)] - Origin(t)) :
          /\ localFront[t] = Wrap(g) /\ p0 - g < BlockSize
          /\ \A i \in Slots : Spare(g, p0, i) => Pc[Slot(t, i)] = last[Slot(t, i)]
    BY <1>1, <1>3, <2>1 DEF ProducerRoom, Room
  <2>3. g \in Nat /\ BlockSize \in Nat
    BY WeakAssumption
  <2>4. \A p \in g..(p0 - 1) : p \in Nat /\ p < p0 /\ p0 < p + BlockSize
    BY <2>2, <2>3
  <2>5. Spare(g, p0, Wrap(p0))
    BY <2>4, WrapFacts DEF Spare
  <2>6. Wrap(p0) \in Slots
    BY WrapFacts
  <2>7. Pc[Slot(t, Wrap(p0))] = last[Slot(t, Wrap(p0))]
    BY <2>2, <2>5, <2>6
  <2> QED
    BY <1>2, <1>3, <2>1, <2>6, <2>7, Kinds
<1>5. ASSUME ppc = "constructNext" PROVE Knows("producer", Slot(nb, Latest(TailOf(nb))))
  <2>1. Wrap(Put[o]) \in Slots
    BY <1>3, WrapFacts
  <2>2. Pc[Slot(o, Wrap(Put[o]))] = last[Slot(o, Wrap(Put[o]))]
    BY <1>1, <1>3, <1>5, <2>1 DEF ProducerAt
  <2> QED
    BY <1>2, <1>3, <2>1, <2>2, Kinds
<1>6. ASSUME cpc \in {"loadNextTail", "advanceFrontBlock", "readNext"}
      PROVE  cblock # Null /\ Knows("consumer", Built(cblock))
  BY <1>1, <1>2, <1>6, AheadIs, Shapes, Kinds DEF Ready
<1>7. ASSUME cpc \in {"read", "move", "readNext"} PROVE Knows("consumer", Found)
  BY <1>2, <1>7, FoundIs
<1> QED
  BY <1>4, <1>5, <1>6, <1>7, WeakTypes DEF NoDataRace

\* The values loaded are old but on the right side.
LEMMA AssertionsFollow == ASSUME WInv PROVE WeakAssertionsHold
<1>1. /\ Memory /\ Control /\ Histories /\ Counts /\ ProducerAt
  BY DEF WInv
<1>2. cpc # "failed"
  BY <1>1 DEF Control
<1>3. ASSUME ppc = "constructNext" PROVE localFront[nb] = Latest(TailOf(nb))
  <2>1. PICK o \in Made : o = nb /\ o = now[NextOf(At[Entered])] /\ Latest(TailOf(o)) = Wrap(Put[o])
    BY <1>1, Ends, Kinds
  <2>2. Outside(At, Pc[FrontBlock], Entered, o) /\ localFront[o] = Wrap(Got[o])
    BY <1>1, <1>3, <2>1 DEF ProducerAt
  <2>3. \A j \in Left..Entered : j \in Pc[FrontBlock]..Entered
    BY <1>1, Ends
  <2>4. Outside(At, Left, Entered, o)
    BY <2>2, <2>3 DEF Outside
  <2>5. Got[o] = Put[o]
    BY <1>1, <2>4 DEF Counts
  <2> QED
    BY <2>1, <2>2, <2>5
<1> QED
  BY <1>2, <1>3 DEF WeakAssertionsHold

\* The slot to be read is known, hence holds its latest value: the oldest element.
LEMMA OrderFollows == ASSUME WInv PROVE ReadsInOrder
<1>1. Memory
  BY DEF WInv
<1>2. SUFFICES ASSUME cpc \in {"read", "move", "readNext"}, NEW n \in Visible(C, Found)
               PROVE  ValueAt(C, Found, n) = dequeued + 1
  BY DEF ReadsInOrder
<1>3. Found \in Locations /\ Cc[Found] = last[Found] /\ now[Found] = dequeued + 1
  BY <1>2, FoundIs
<1>4. n = last[Found] /\ ValueAt(C, Found, n) = mem[Found][n].val
  <2>1. /\ n \in Nat /\ n \in Cc[Found]..last[Found] /\ ValueAt(C, Found, n) = mem[Found][n].val
    BY <1>1, <1>3, ConsumerLoads
  <2>2. last[Found] \in Nat
    BY <1>1, <1>3, Numbers
  <2> QED
    BY <1>3, <2>1, <2>2
<1> QED
  BY <1>1, <1>3, <1>4, Messages

\* The producer has built the blocks it counts.
LEMMA CountsBuiltBlocks == ASSUME WInv PROVE SizeSeesBuiltBlocks
<1>1. Memory /\ Control /\ ProducerKnows
  BY DEF WInv
<1>2. SUFFICES ASSUME NEW t \in Threads, spc[t] # "off"
               PROVE  walk[t].at # Null /\ Knows(t, Built(walk[t].at))
  BY DEF SizeSeesBuiltBlocks
<1>3. t = "producer" /\ walk[t].at \in Made
  BY <1>1, <1>2 DEF Control, Threads
<1>4. walk[t].at \in Block /\ walk[t].at # Null
  BY <1>1, <1>3, Shapes
<1>5. Pc[Built(walk[t].at)] = last[Built(walk[t].at)] /\ Built(walk[t].at) \in Locations
  BY <1>1, <1>4, Kinds DEF ProducerKnows
<1> QED
  BY <1>3, <1>4, <1>5 DEF Knows, Pc, last

\* The invariant holds as long as the consumer does not count.
LEMMA SpecWInv == ASSUME "size_approx" \notin ConsumerOps PROVE Spec => []WInv
<1>1. Init => WInv
  BY InitWInv
<1>2. WInv /\ [Next]_weakVars => WInv'
  BY NextWInv
<1> QED
  BY <1>1, <1>2, PTL DEF Spec

\* Whatever the hardware reorders, the fences of readerwriterqueue.h order every access to
\* a slot or a new block after the last one of the other thread: no data race, for blocks,
\* elements and bounds of any number, unless the consumer calls size_approx.
THEOREM FencesSuffice ==
  ASSUME "size_approx" \notin ConsumerOps PROVE Spec => []NoDataRace
<1>1. WInv => NoDataRace
  BY NoRaces
<1> QED
  BY <1>1, SpecWInv, PTL

\* The assertions of inner_enqueue, inner_dequeue and peek hold with the values a thread
\* has loaded, old as they may be.
THEOREM WeakAssertions ==
  ASSUME "size_approx" \notin ConsumerOps PROVE Spec => []WeakAssertionsHold
<1>1. WInv => WeakAssertionsHold
  BY AssertionsFollow
<1> QED
  BY <1>1, SpecWInv, PTL

\* The consumer reads the oldest element and nothing else, from whichever value of the
\* slot it may read.
THEOREM WeakOrder ==
  ASSUME "size_approx" \notin ConsumerOps PROVE Spec => []ReadsInOrder
<1>1. WInv => ReadsInOrder
  BY OrderFollows
<1> QED
  BY <1>1, SpecWInv, PTL

\* The producer's size_approx enters built blocks only: what WeakSize finds takes the
\* consumer's.
THEOREM ProducerMayCount ==
  ASSUME "size_approx" \notin ConsumerOps PROVE Spec => []SizeSeesBuiltBlocks
<1>1. WInv => SizeSeesBuiltBlocks
  BY CountsBuiltBlocks
<1> QED
  BY <1>1, SpecWInv, PTL

-----------------------------------------------------------------------------
(* The blocking queue *)

\* Where a thread is in the queue's code says where it is in the semaphore's.
Places ==
    /\ signalAt = "post" => producer = "signal"
    /\ consumer \in {"idle", "dequeue"} => waitAt = "out"
    /\ consumer = "trying" => waitAt = "take"
    /\ consumer = "waiting" => waitAt \in {"spin", "take", "block"}

\* The count is negative only while the consumer blocks, and positive from
\* the look that saw it so until the decrement: nobody else takes permits.
Counter ==
    /\ m_count >= -1
    /\ m_count = -1 => waitAt = "block"
    /\ waitAt = "take" => m_count > 0

\* Permits and elements agree, and the kernel's wake-ups with the waiter.
Agree ==
    /\ m_count = Len(inner) - NotSignalled - Passed - Blocked
    /\ m_sema + (IF signalAt = "post" THEN 1 ELSE 0)
         = IF waitAt = "block" /\ m_count >= 0 THEN 1 ELSE 0

\* The whole invariant: what every action preserves.
BInv == /\ TypeOK /\ Places /\ Counter /\ Agree
        /\ ~failed
        /\ accepted = removed + Len(inner)
-----------------------------------------------------------------------------
\* The constructor: an empty queue without permits.
LEMMA InitBInv == BlockingInit => BInv
<1> SUFFICES ASSUME BlockingInit PROVE BInv
  OBVIOUS
<1> USE DEF BlockingInit, SemInit
<1>1. inner = << >> /\ Len(inner) = 0 /\ << >> \in Seq(1..MaxAccepted)
  OBVIOUS
<1>2. TypeOK
  <2>1. passed \in BOOLEAN /\ failed \in BOOLEAN /\ peeked \in BOOLEAN
    OBVIOUS
  <2> QED
    BY <2>1, <1>1, BlockingAssumption DEF BlockingAssumption, TypeOK
<1>3. Places /\ Counter
  BY DEF Places, Counter
<1>4. Agree
  BY <1>1 DEF Agree, NotSignalled, Passed, Blocked
<1> QED
  BY <1>1, <1>2, <1>3, <1>4 DEF BInv

\* The producer: one more element, then one more permit, then the wake-up.
LEMMA ProducerStep == BInv /\ (EnqueueInner \/ Signal) => BInv'
<1> SUFFICES ASSUME BInv, (EnqueueInner \/ Signal) PROVE BInv'
  OBVIOUS
<1> USE BlockingAssumption DEF BlockingAssumption, BInv
<1>0. Len(inner) \in Nat
  BY DEF TypeOK
<1>1. CASE EnqueueInner
  <2>0. inner' \in Seq(1..MaxAccepted) /\ Len(inner') = Len(inner) + 1
    BY <1>1 DEF EnqueueInner, TypeOK
  <2>1. TypeOK'
    BY <1>1, <1>0, <2>0 DEF EnqueueInner, semVars, TypeOK
  <2>2. Places'
    BY <1>1, <1>0, <2>0 DEF EnqueueInner, semVars, TypeOK, Places
  <2>3. Counter'
    BY <1>1, <1>0, <2>0 DEF EnqueueInner, semVars, TypeOK, Places, Counter, Agree
  <2>4. m_count' = Len(inner') - NotSignalled' - Passed' - Blocked'
    BY <1>1, <1>0, <2>0 DEF EnqueueInner, semVars, TypeOK, Places, Agree,
                NotSignalled, Passed, Blocked
  <2>5. (m_sema + (IF signalAt = "post" THEN 1 ELSE 0)
           = IF waitAt = "block" /\ m_count >= 0 THEN 1 ELSE 0)'
    BY <1>1, <1>0, <2>0 DEF EnqueueInner, semVars, TypeOK, Places, Counter, Agree
  <2>6. ~failed' /\ accepted' = removed' + Len(inner')
    BY <1>1, <1>0, <2>0 DEF EnqueueInner, semVars, TypeOK
  <2> QED
    BY <2>1, <2>2, <2>3, <2>4, <2>5, <2>6 DEF BInv, Agree
<1>2. CASE Signal /\ SignalAdd
  <2>1. TypeOK'
    BY <1>2, <1>0 DEF Signal, SignalAdd, TypeOK
  <2>2. Places'
    BY <1>2, <1>0 DEF Signal, SignalAdd, TypeOK, Places
  <2>3. Counter'
    BY <1>2, <1>0 DEF Signal, SignalAdd, TypeOK, Places, Counter, Agree
  <2>4. m_count' = Len(inner') - NotSignalled' - Passed' - Blocked'
    BY <1>2, <1>0 DEF Signal, SignalAdd, TypeOK, Places, Agree,
                NotSignalled, Passed, Blocked
  <2>5. (m_sema + (IF signalAt = "post" THEN 1 ELSE 0)
           = IF waitAt = "block" /\ m_count >= 0 THEN 1 ELSE 0)'
    BY <1>2, <1>0 DEF Signal, SignalAdd, TypeOK, Places, Counter, Agree
  <2>6. ~failed' /\ accepted' = removed' + Len(inner')
    BY <1>2, <1>0 DEF Signal, SignalAdd, TypeOK
  <2> QED
    BY <2>1, <2>2, <2>3, <2>4, <2>5, <2>6 DEF BInv, Agree
<1>3. CASE Signal /\ SignalPost
  <2>1. TypeOK'
    BY <1>3, <1>0 DEF Signal, SignalPost, TypeOK
  <2>2. Places'
    BY <1>3, <1>0 DEF Signal, SignalPost, TypeOK, Places
  <2>3. Counter'
    BY <1>3, <1>0 DEF Signal, SignalPost, TypeOK, Places, Counter, Agree
  <2>4. m_count' = Len(inner') - NotSignalled' - Passed' - Blocked'
    BY <1>3, <1>0 DEF Signal, SignalPost, TypeOK, Places, Agree,
                NotSignalled, Passed, Blocked
  <2>5. (m_sema + (IF signalAt = "post" THEN 1 ELSE 0)
           = IF waitAt = "block" /\ m_count >= 0 THEN 1 ELSE 0)'
    BY <1>3, <1>0 DEF Signal, SignalPost, TypeOK, Places, Counter, Agree
  <2>6. ~failed' /\ accepted' = removed' + Len(inner')
    BY <1>3, <1>0 DEF Signal, SignalPost, TypeOK
  <2> QED
    BY <2>1, <2>2, <2>3, <2>4, <2>5, <2>6 DEF BInv, Agree
<1> QED
  BY <1>1, <1>2, <1>3 DEF Signal

\* The consumer begins a call, or peeks.
LEMMA CallStep == BInv /\ (TryDequeue \/ WaitDequeue \/ Peek) => BInv'
<1> SUFFICES ASSUME BInv, (TryDequeue \/ WaitDequeue \/ Peek) PROVE BInv'
  OBVIOUS
<1> USE BlockingAssumption DEF BlockingAssumption, BInv
<1>0. Len(inner) \in Nat
  BY DEF TypeOK
<1>1. CASE TryDequeue
  <2>1. TypeOK'
    BY <1>1, <1>0 DEF TryDequeue, TryWaitLoad, Look, TypeOK
  <2>2. Places'
    BY <1>1, <1>0 DEF TryDequeue, TryWaitLoad, Look, TypeOK, Places
  <2>3. Counter'
    BY <1>1, <1>0 DEF TryDequeue, TryWaitLoad, Look, TypeOK, Places, Counter, Agree
  <2>4. m_count' = Len(inner') - NotSignalled' - Passed' - Blocked'
    BY <1>1, <1>0 DEF TryDequeue, TryWaitLoad, Look, TypeOK, Places, Agree,
                NotSignalled, Passed, Blocked
  <2>5. (m_sema + (IF signalAt = "post" THEN 1 ELSE 0)
           = IF waitAt = "block" /\ m_count >= 0 THEN 1 ELSE 0)'
    BY <1>1, <1>0 DEF TryDequeue, TryWaitLoad, Look, TypeOK, Places, Counter, Agree
  <2>6. ~failed' /\ accepted' = removed' + Len(inner')
    BY <1>1, <1>0 DEF TryDequeue, TryWaitLoad, Look, TypeOK
  <2> QED
    BY <2>1, <2>2, <2>3, <2>4, <2>5, <2>6 DEF BInv, Agree
<1>2. CASE WaitDequeue
  <2>1. TypeOK'
    BY <1>2, <1>0 DEF WaitDequeue, WaitLoad, Look, TypeOK
  <2>2. Places'
    BY <1>2, <1>0 DEF WaitDequeue, WaitLoad, Look, TypeOK, Places
  <2>3. Counter'
    BY <1>2, <1>0 DEF WaitDequeue, WaitLoad, Look, TypeOK, Places, Counter, Agree
  <2>4. m_count' = Len(inner') - NotSignalled' - Passed' - Blocked'
    BY <1>2, <1>0 DEF WaitDequeue, WaitLoad, Look, TypeOK, Places, Agree,
                NotSignalled, Passed, Blocked
  <2>5. (m_sema + (IF signalAt = "post" THEN 1 ELSE 0)
           = IF waitAt = "block" /\ m_count >= 0 THEN 1 ELSE 0)'
    BY <1>2, <1>0 DEF WaitDequeue, WaitLoad, Look, TypeOK, Places, Counter, Agree
  <2>6. ~failed' /\ accepted' = removed' + Len(inner')
    BY <1>2, <1>0 DEF WaitDequeue, WaitLoad, Look, TypeOK
  <2> QED
    BY <2>1, <2>2, <2>3, <2>4, <2>5, <2>6 DEF BInv, Agree
<1>3. CASE Peek
  <2>1. TypeOK'
    BY <1>3, <1>0 DEF Peek, semVars, TypeOK
  <2>2. Places'
    BY <1>3, <1>0 DEF Peek, semVars, TypeOK, Places
  <2>3. Counter'
    BY <1>3, <1>0 DEF Peek, semVars, TypeOK, Places, Counter, Agree
  <2>4. m_count' = Len(inner') - NotSignalled' - Passed' - Blocked'
    BY <1>3, <1>0 DEF Peek, semVars, TypeOK, Places, Agree,
                NotSignalled, Passed, Blocked
  <2>5. (m_sema + (IF signalAt = "post" THEN 1 ELSE 0)
           = IF waitAt = "block" /\ m_count >= 0 THEN 1 ELSE 0)'
    BY <1>3, <1>0 DEF Peek, semVars, TypeOK, Places, Counter, Agree
  <2>6. ~failed' /\ accepted' = removed' + Len(inner')
    BY <1>3, <1>0 DEF Peek, semVars, TypeOK
  <2> QED
    BY <2>1, <2>2, <2>3, <2>4, <2>5, <2>6 DEF BInv, Agree
<1> QED
  BY <1>1, <1>2, <1>3 DEF BInv

\* The consumer inside the semaphore.
LEMMA WaitingStep == BInv /\ SemaphoreStep => BInv'
<1> SUFFICES ASSUME BInv, SemaphoreStep PROVE BInv'
  OBVIOUS
<1> USE BlockingAssumption DEF BlockingAssumption, BInv
<1>0. Len(inner) \in Nat
  BY DEF TypeOK
<1>1. CASE SpinLoad
  <2>1. TypeOK'
    BY <1>1, <1>0 DEF SemaphoreStep, SpinLoad, Look, TypeOK
  <2>2. Places'
    BY <1>1, <1>0 DEF SemaphoreStep, SpinLoad, Look, TypeOK, Places
  <2>3. Counter'
    BY <1>1, <1>0 DEF SemaphoreStep, SpinLoad, Look, TypeOK, Places, Counter, Agree
  <2>4. m_count' = Len(inner') - NotSignalled' - Passed' - Blocked'
    BY <1>1, <1>0 DEF SemaphoreStep, SpinLoad, Look, TypeOK, Places, Agree,
                NotSignalled, Passed, Blocked
  <2>5. (m_sema + (IF signalAt = "post" THEN 1 ELSE 0)
           = IF waitAt = "block" /\ m_count >= 0 THEN 1 ELSE 0)'
    BY <1>1, <1>0 DEF SemaphoreStep, SpinLoad, Look, TypeOK, Places, Counter, Agree
  <2>6. ~failed' /\ accepted' = removed' + Len(inner')
    BY <1>1, <1>0 DEF SemaphoreStep, SpinLoad, Look, TypeOK
  <2> QED
    BY <2>1, <2>2, <2>3, <2>4, <2>5, <2>6 DEF BInv, Agree
<1>2. CASE Take
  <2>1. TypeOK'
    BY <1>2, <1>0 DEF SemaphoreStep, Take, TypeOK
  <2>2. Places'
    BY <1>2, <1>0 DEF SemaphoreStep, Take, TypeOK, Places
  <2>3. Counter'
    BY <1>2, <1>0 DEF SemaphoreStep, Take, TypeOK, Places, Counter, Agree
  <2>4. m_count' = Len(inner') - NotSignalled' - Passed' - Blocked'
    BY <1>2, <1>0 DEF SemaphoreStep, Take, TypeOK, Places, Agree,
                NotSignalled, Passed, Blocked
  <2>5. (m_sema + (IF signalAt = "post" THEN 1 ELSE 0)
           = IF waitAt = "block" /\ m_count >= 0 THEN 1 ELSE 0)'
    BY <1>2, <1>0 DEF SemaphoreStep, Take, TypeOK, Places, Counter, Agree
  <2>6. ~failed' /\ accepted' = removed' + Len(inner')
    BY <1>2, <1>0 DEF SemaphoreStep, Take, TypeOK
  <2> QED
    BY <2>1, <2>2, <2>3, <2>4, <2>5, <2>6 DEF BInv, Agree
<1>3. CASE TakeOrBlock /\ m_count > 0
  <2>0. /\ passed' = TRUE /\ waitAt' = "out" /\ consumer' = "dequeue"
         /\ m_count' = m_count - 1 /\ waitAt = "spin" /\ consumer \in {"trying", "waiting"}
         /\ UNCHANGED <<m_sema, signalAt, inner, accepted, producer, removed, failed, peeked>>
    <3>1. passed' = TRUE
      BY <1>3 DEF TakeOrBlock
    <3>2. ~(m_count <= 0)
      BY <1>3 DEF TypeOK
    <3> QED
      BY <1>3, <3>1, <3>2 DEF SemaphoreStep, TakeOrBlock
  <2>1. TypeOK'
    BY <1>3, <1>0, <2>0 DEF TypeOK
  <2>2. Places'
    BY <1>3, <1>0, <2>0 DEF TypeOK, Places
  <2>3. Counter'
    BY <1>3, <1>0, <2>0 DEF TypeOK, Places, Counter, Agree
  <2>4. m_count' = Len(inner') - NotSignalled' - Passed' - Blocked'
    BY <1>3, <1>0, <2>0 DEF TypeOK, Places, Agree,
                NotSignalled, Passed, Blocked
  <2>5. (m_sema + (IF signalAt = "post" THEN 1 ELSE 0)
           = IF waitAt = "block" /\ m_count >= 0 THEN 1 ELSE 0)'
    BY <1>3, <1>0, <2>0 DEF TypeOK, Places, Counter, Agree
  <2>6. ~failed' /\ accepted' = removed' + Len(inner')
    BY <1>3, <1>0, <2>0 DEF TypeOK
  <2> QED
    BY <2>1, <2>2, <2>3, <2>4, <2>5, <2>6 DEF BInv, Agree
<1>4. CASE TakeOrBlock /\ ~(m_count > 0)
  <2>0. /\ passed' = FALSE /\ passed' \in BOOLEAN /\ waitAt' = "block" /\ consumer' = consumer
         /\ m_count' = m_count - 1 /\ waitAt = "spin" /\ consumer \in {"trying", "waiting"}
         /\ UNCHANGED <<m_sema, signalAt, inner, accepted, producer, removed, failed, peeked>>
    <3>1. (m_count > 0) = FALSE
      BY <1>4
    <3>2. passed' = FALSE
      BY <1>4, <3>1 DEF TakeOrBlock
    <3>3. passed' \in BOOLEAN
      BY <3>2
    <3>4. m_count <= 0
      BY <1>4 DEF TypeOK
    <3> QED
      BY <1>4, <3>2, <3>3, <3>4 DEF SemaphoreStep, TakeOrBlock
  <2>1. TypeOK'
    BY <1>4, <1>0, <2>0 DEF TypeOK
  <2>2. Places'
    BY <1>4, <1>0, <2>0 DEF TypeOK, Places
  <2>3. Counter'
    BY <1>4, <1>0, <2>0 DEF TypeOK, Places, Counter, Agree
  <2>4. m_count' = Len(inner') - NotSignalled' - Passed' - Blocked'
    BY <1>4, <1>0, <2>0 DEF TypeOK, Places, Agree,
                NotSignalled, Passed, Blocked
  <2>5. (m_sema + (IF signalAt = "post" THEN 1 ELSE 0)
           = IF waitAt = "block" /\ m_count >= 0 THEN 1 ELSE 0)'
    BY <1>4, <1>0, <2>0 DEF TypeOK, Places, Counter, Agree
  <2>6. ~failed' /\ accepted' = removed' + Len(inner')
    BY <1>4, <1>0, <2>0 DEF TypeOK
  <2> QED
    BY <2>1, <2>2, <2>3, <2>4, <2>5, <2>6 DEF BInv, Agree
<1>5. CASE Unblock
  <2>1. TypeOK'
    BY <1>5, <1>0 DEF SemaphoreStep, Unblock, TypeOK
  <2>2. Places'
    BY <1>5, <1>0 DEF SemaphoreStep, Unblock, TypeOK, Places
  <2>3. Counter'
    BY <1>5, <1>0 DEF SemaphoreStep, Unblock, TypeOK, Places, Counter, Agree
  <2>4. m_count' = Len(inner') - NotSignalled' - Passed' - Blocked'
    BY <1>5, <1>0 DEF SemaphoreStep, Unblock, TypeOK, Places, Agree,
                NotSignalled, Passed, Blocked
  <2>5. (m_sema + (IF signalAt = "post" THEN 1 ELSE 0)
           = IF waitAt = "block" /\ m_count >= 0 THEN 1 ELSE 0)'
    BY <1>5, <1>0 DEF SemaphoreStep, Unblock, TypeOK, Places, Counter, Agree
  <2>6. ~failed' /\ accepted' = removed' + Len(inner')
    BY <1>5, <1>0 DEF SemaphoreStep, Unblock, TypeOK
  <2> QED
    BY <2>1, <2>2, <2>3, <2>4, <2>5, <2>6 DEF BInv, Agree
<1> QED
  BY <1>1, <1>2, <1>3, <1>4, <1>5 DEF SemaphoreStep, Waiting

\* Whoever passed the semaphore finds an element.
LEMMA DequeueInnerStep == BInv /\ DequeueInner => BInv'
<1> SUFFICES ASSUME BInv, DequeueInner PROVE BInv'
  OBVIOUS
<1> USE BlockingAssumption DEF BlockingAssumption, BInv
<1>1. inner \in Seq(1..MaxAccepted) /\ Len(inner) \in Nat
  BY DEF TypeOK
<1>2. Len(inner) >= 1
  BY <1>1 DEF DequeueInner, TypeOK, Places, Counter, Agree, NotSignalled,
              Passed, Blocked
<1>3. inner # << >>
  BY <1>1, <1>2
<1>4. inner' = Tail(inner) /\ removed' = removed + 1 /\ ~failed'
  BY <1>3 DEF DequeueInner
<1>5. inner' \in Seq(1..MaxAccepted) /\ Len(inner') = Len(inner) - 1
  BY <1>1, <1>3, <1>4, HeadTailProperties
<1>6. CASE TRUE
  <2>1. TypeOK'
    BY <1>1, <1>2, <1>4, <1>5 DEF DequeueInner, semVars, TypeOK
  <2>2. Places'
    BY <1>1, <1>2, <1>4, <1>5 DEF DequeueInner, semVars, TypeOK, Places
  <2>3. Counter'
    BY <1>1, <1>2, <1>4, <1>5 DEF DequeueInner, semVars, TypeOK, Places, Counter, Agree
  <2>4. m_count' = Len(inner') - NotSignalled' - Passed' - Blocked'
    BY <1>1, <1>2, <1>4, <1>5 DEF DequeueInner, semVars, TypeOK, Places, Agree,
                NotSignalled, Passed, Blocked
  <2>5. (m_sema + (IF signalAt = "post" THEN 1 ELSE 0)
           = IF waitAt = "block" /\ m_count >= 0 THEN 1 ELSE 0)'
    BY <1>1, <1>2, <1>4, <1>5 DEF DequeueInner, semVars, TypeOK, Places, Counter, Agree
  <2>6. ~failed' /\ accepted' = removed' + Len(inner')
    BY <1>1, <1>2, <1>4, <1>5 DEF DequeueInner, semVars, TypeOK
  <2> QED
    BY <2>1, <2>2, <2>3, <2>4, <2>5, <2>6 DEF BInv, Agree
<1> QED
  BY <1>6

\* Every step preserves the invariant.
LEMMA BInvStep == BInv /\ [BlockingNext]_vars => BInv'
<1> SUFFICES ASSUME BInv, [BlockingNext]_vars PROVE BInv'
  OBVIOUS
<1>1. CASE UNCHANGED vars
  BY <1>1
  DEF vars, semVars, queueVars, BInv, TypeOK, Places, Counter,
      Agree, NotSignalled, Passed, Blocked
<1> QED
  BY <1>1, ProducerStep, CallStep, WaitingStep, DequeueInnerStep DEF BlockingNext

\* Hence it always holds.
LEMMA SpecBInv == BlockingSpec => []BInv
  BY InitBInv, BInvStep, PTL DEF BlockingSpec
-----------------------------------------------------------------------------
\* The assertions of signal(), try_dequeue, wait_dequeue and pop
\* (atomicops.h:549, readerwriterqueue.h:697, 713 and 735) never fail.
THEOREM BlockingAssertions == BlockingSpec => []AssertionsHold
<1>1. BInv => AssertionsHold
  BY DEF BInv, Counter, AssertionsHold
<1> QED
  BY <1>1, SpecBInv, PTL

\* There is a permit for every element, up to the calls in progress, and the
\* kernel holds a wake-up exactly when a blocked waiter has been signalled.
THEOREM BlockingPermits == BlockingSpec => []PermitsMatchElements
<1>1. ASSUME BInv PROVE PermitsMatchElements
  <2>1. Len(inner) \in Nat /\ m_count \in Int
    BY <1>1 DEF BInv, TypeOK
  <2>2. {NotSignalled, Passed, Blocked} \subseteq Nat
    BY DEF NotSignalled, Passed, Blocked
  <2>3. AvailableApprox <= Len(inner)
    BY <1>1, <2>1, <2>2 DEF BInv, Agree, AvailableApprox
  <2> QED
    BY <1>1, <2>3 DEF BInv, Agree, PermitsMatchElements
<1> QED
  BY <1>1, SpecBInv, PTL

\* Every variable keeps its type, the kernel semaphore stays non-negative.
THEOREM BlockingTypeCorrect == BlockingSpec => []TypeOK
<1>1. BInv => TypeOK
  BY DEF BInv
<1> QED
  BY <1>1, SpecBInv, PTL
-----------------------------------------------------------------------------
(* The memory of a block *)

\* What a remainder is, whatever the divisor.
LEMMA Divides ==
  ASSUME NEW a \in Nat \ {0}, NEW q \in Nat, NEW r \in 0..(a - 1), NEW p \in Nat, p = a * q + r
  PROVE  p % a = r
  OBVIOUS

\* Every number has a quotient and a remainder.
LEMMA DividesInto ==
  ASSUME NEW a \in Nat \ {0}, NEW p \in Nat
  PROVE  \E q \in Nat, r \in 0..(a - 1) : p = a * q + r /\ p % a = r
  OBVIOUS

\* align_for moves on to the next multiple of the alignment.
LEMMA AlignForIs ==
  ASSUME NEW p \in Nat, NEW a \in Nat \ {0}
  PROVE  /\ AlignFor(p, a) \in Nat /\ AlignFor(p, a) % a = 0
         /\ p <= AlignFor(p, a) /\ AlignFor(p, a) <= p + (a - 1)
<1>1. PICK q \in Nat, r \in 0..(a - 1) : p = a * q + r /\ p % a = r
  BY DividesInto
<1>2. CASE r = 0
  <2>1. (a - r) % a = 0
    <3>1. a \in Nat /\ a = a * 1 + 0 /\ 0 \in 0..(a - 1)
      OBVIOUS
    <3> QED
      BY <1>2, <3>1, Divides
  <2>2. AlignFor(p, a) = p
    BY <1>1, <2>1 DEF AlignFor
  <2> QED
    BY <1>1, <1>2, <2>2
<1>3. CASE r # 0
  <2>1. PICK s \in 0..(a - 1) : s = a - r
    BY <1>3
  <2>2. s % a = s
    <3>1. s \in Nat /\ s = a * 0 + s
      OBVIOUS
    <3> QED
      BY <3>1, Divides
  <2>3. AlignFor(p, a) = p + s
    BY <1>1, <2>1, <2>2 DEF AlignFor
  <2>4. PICK c \in Nat, m \in Nat : c = q + 1 /\ m = p + s
    OBVIOUS
  <2>5. m = a * c + 0 /\ 0 \in 0..(a - 1)
    <3>1. PICK k \in Nat : k = a * q
      OBVIOUS
    <3>2. a * c = k + a
      BY <2>4, <3>1
    <3> QED
      BY <1>1, <2>1, <2>4, <3>1, <3>2
  <2>6. m % a = 0
    BY <2>5, Divides
  <2> QED
    BY <1>3, <2>1, <2>3, <2>4, <2>6
<1> QED
  BY <1>2, <1>3

\* The layout of a block with any header, alignments, elements and capacity: both parts
\* are aligned, and end inside what make_block asks for.
THEOREM LayoutCorrect ==
  ASSUME NEW p \in Nat, NEW header \in Nat, NEW element \in Nat, NEW capacity \in Nat,
         NEW a \in Nat \ {0}, NEW b \in Nat \ {0}
  PROVE  LET block == AlignFor(p, a)
             first == AlignFor(block + header, b)
         IN  /\ block % a = 0 /\ first % b = 0
             /\ p <= block /\ block + header <= first
             /\ first + element * capacity <= p + BlockBytes(header, a, element, b, capacity)
<1>1. PICK block \in Nat : /\ block = AlignFor(p, a) /\ block % a = 0
                           /\ p <= block /\ block <= p + (a - 1)
  BY AlignForIs
<1>2. PICK h \in Nat : h = block + header
  OBVIOUS
<1>3. PICK first \in Nat : /\ first = AlignFor(h, b) /\ first % b = 0
                           /\ h <= first /\ first <= h + (b - 1)
  BY AlignForIs
<1>4. PICK elements \in Nat : elements = element * capacity
  OBVIOUS
<1>5. BlockBytes(header, a, element, b, capacity) = header + (a - 1) + elements + (b - 1)
  BY <1>4 DEF BlockBytes
<1>6. first + elements <= p + (header + (a - 1) + elements + (b - 1))
  BY <1>1, <1>2, <1>3
<1> QED
  BY <1>1, <1>2, <1>3, <1>4, <1>5, <1>6

\* Wherever malloc puts a block, its header and its elements are aligned, do not overlap
\* and lie inside what make_block asked for (readerwriterqueue.h:597-609).
THEOREM BlockFitsCorrect == word \in Nat => BlockFits
<1> SUFFICES ASSUME word \in Nat, NEW a \in Alignments, NEW b \in Alignments
             PROVE  LET header  == 2 * a
                        element == 3 * b
                        block   == AlignFor(word, a)
                        first   == AlignFor(block + header, b)
                    IN  /\ block % a = 0 /\ first % b = 0
                        /\ word <= block /\ block + header <= first
                        /\ \A capacity \in {2, 4} :
                             first + element * capacity
                               <= word + BlockBytes(header, a, element, b, capacity)
  BY DEF BlockFits
<1>1. a \in Nat \ {0} /\ b \in Nat \ {0}
  BY LayoutAssumption DEF LayoutAssumption
<1>2. PICK w \in Nat, header \in Nat, element \in Nat : w = word /\ header = 2 * a /\ element = 3 * b
  BY <1>1
<1>3. \A capacity \in Nat :
        LET block == AlignFor(w, a)
            first == AlignFor(block + header, b)
        IN  /\ block % a = 0 /\ first % b = 0
            /\ w <= block /\ block + header <= first
            /\ first + element * capacity <= w + BlockBytes(header, a, element, b, capacity)
  BY <1>1, LayoutCorrect
<1>4. 2 \in Nat /\ \A capacity \in {2, 4} : capacity \in Nat
  OBVIOUS
<1> QED
  BY <1>2, <1>3, <1>4
=============================================================================
