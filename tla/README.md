# TESTOFDUMPING: formal models

TLA+ models of the packet capture programs of this repository and of the lock-free queue
they use, checked with TLC; the safety properties of the two queues, also of the first on
hardware that reorders accesses, of the capture programs, the dumpers, the driver and the
analyser are also proved with TLAPS. Paths below are those of the repository; `PROJECT.json`
maps every definition to the lines it models.

## 1. The system

The repository holds four packet programs and one library.

| Component | Source | State | Operations | Interacts by |
|---|---|---|---|---|
| `ReaderWriterQueue` | `readerwriterqueue.h` 60-612 | a circle of blocks (`front`, `tail`, `localFront`, `localTail`, `next`), `frontBlock`, `tailBlock`, `largestBlockSize` | constructor, destructor, `try_enqueue`, `enqueue`, `try_dequeue`, `peek`, `pop`, `size_approx` | shared memory, one producer thread and one consumer thread, no lock |
| `BlockingReaderWriterQueue` | `readerwriterqueue.h` 620-750 | the queue above and a semaphore | the same and `wait_dequeue` | the two in sequence |
| `LightweightSemaphore` | `atomicops.h` 440-565 | `m_count`, the kernel's semaphore | `tryWait`, `wait`, `signal`, `availableApprox` | atomic counter, `sem_wait`/`sem_post` |
| Capture program | `main.cc`, `PacketReader.*`, `PacketWriter.*`, `Common.h` | reader and writer thread, `buffer_` (a `ReaderWriterQueue`), `fileheader`, `tochunk`, the open file, two stop flags | start-up, read, enqueue, dequeue, flush, rotate, stop | the queue, shared variables without a lock, signals |
| Memory model | `atomicops.h` 66-310 | `weak_atomic` variables, what each thread has seen of them | relaxed load and store, `fence` | every access of the queue |
| DPDK dumper | `src_lat/main_dump.c`, `src_lat/src/main_dump.c` | producer and consumer lcore, mbuf pool, ring, counters, the open dumper | capture, copy, enqueue; dequeue, rotate, dump, free; `sig_handler`, `alarm_routine` | ring, globals, signals; files renamed to "...ready" for the analyser |
| Older dumpers | `src/main_dump.c`, `src/main_icispcap.c` | the same, with a pool as large as the ring and the number of the file | the same without the rename | ring, globals, signals |
| DPDK capture application | `src_lat/09Feb2016ICIS_pcap/main.c` | ports of each lcore, pool, ring, counters, the open dumper | configuration, receive burst, stamp, enqueue; dequeue, rotate, dump, free; `sig_handler` | ring (created for one producer), globals, signals |
| Analyser | `ANALYSEPCAP/main.cpp`, `displayStats.*` | list of files, `threads[]`, the singleton display board with its lock, interval and counters | take files, create / join / cancel threads; count a packet, start an interval, print | a thread per file, the board's mutex (some of it read without), cancellation |
| PCAP driver | `src_lat/09Feb2016ICIS_pcap/rte_eth_pcap.c` | a device's queues with their handles, names and counters | devinit, start, stop, devuninit, receive, transmit, statistics | called by the Ethernet device layer and by the application's lcores |
| Allocator experiment | `src/allocatemem.cc` | see section 7 | | |

What is hard in it: two threads on one circle of blocks without a lock; a semaphore whose
slow path may lose a wake-up; a file header assembled by two threads; rotation in the
middle of a half-full chunk; unsigned differences of times that may run backwards; a
signal handler that closes files another thread is writing; results of library calls that
are ignored; stores that become visible out of order; a device half started when a file
cannot be opened; threads cancelled while they hold a mutex. `PROJECT.json` lists these under
`hazards`, each at its line, with the properties that watch it.

What makes each part correct:

* queue: what goes in comes out, once and in order; a failing call is justified; no slot is
  touched by both threads; maxSize elements need no memory; the destructor finds exactly
  what is left;
* semaphore and blocking queue: permits and elements agree, no wake-up is lost;
* capture program: packets stay in order; none vanishes unreported while the process runs, and a
  stop leaves behind only what came after the writer's last look at the queue; the chunk never
  overflows while packets fit in pktdata; a signal ends the process;
* dumpers: every mbuf is accounted for, every packet is in exactly one file and in order,
  limits hold, a file that was handed over is final unless the clock that stamps packets is set
  back;
* driver: no handle is used after it was closed or lost by start and stop, every queue of a
  started device has one, an mbuf has one owner and the counters account for every packet;
* analyser: totals agree with counts whoever was cancelled, a thread counts at most one packet
  that is too old for the interval, no file is forgotten.

## 2. The modules

| Module | Models | State and actions against the code |
|---|---|---|
| `SpscFifo` | what a queue between two threads promises | abstract: a sequence, calls that take effect at one instant between start and return |
| `ReaderWriterQueue` | `ReaderWriterQueue` | one step per access to shared memory. A block is a number, `ppc`/`cpc` say where the producer and the consumer are in the call, the fields of `Block` are functions on blocks. `enqueued`, `dequeued`, `got`, `wasFull`, `wasEmpty` are history |
| `ReaderWriterQueueFifo` | the refinement and the destructor | maps blocks to the sequence of `SpscFifo`; `Destroyed` is what `~ReaderWriterQueue` walks over |
| `ReaderWriterQueueProofs` | the proofs | section 5: the structure, the slots, the circle, the refinement, `size_approx` |
| `ViewMemory` | `weak_atomic` and `fence` | a location keeps every value stored into it; a thread's view says which of them it may still read; a fence moves what was loaded into the view, or the view into what later stores carry. Stores in a row are one step (`Stores`): without a fence between them their order is free |
| `WeakMemoryQueue` | the queue on that memory | the control of `ReaderWriterQueue` once more, every access a load or store of `ViewMemory`, every `fence` where the source has it; slots and what a block's constructor writes are locations too |
| `QueueArithmetic` | `ceilToPow2`, block count | machine integers of `Bytes` bytes |
| `BlockLayout` | `align_for`, `make_block` | apart from `QueueArithmetic`, which extends it, because the prover cannot take the bit operations |
| `LightweightSemaphore`, `BlockingReaderWriterQueue` | the semaphore and the queue over it | the inner queue is the atomic FIFO that the refinement above justifies |
| `QueueLayersProofs` | the proofs about the layers below the queue and the one above it | section 5: `WeakMemoryQueue`, `BlockLayout` and `BlockingReaderWriterQueue` |
| `CapturePipeline`, `CapturePipelineProofs` | the capture program | `main`, handler, `reader`, `writer` are program counters; `buffer_` is a FIFO for the same reason |
| `DumpPipeline`, `DumpPipelineProofs` | `src_lat/main_dump.c` and its copy `src_lat/src/main_dump.c` | `producer`, `consumer` and the two runs of `sig_handler` interleave; files are keyed by (time, renamed) |
| `NumberedDump`, `NumberedDumpProofs` | `src/main_dump.c` and `src/main_icispcap.c` | the same with numbered files; `program` says which of the two runs and turns the points in which they differ |
| `IcisCapture`, `IcisCaptureProofs` | the DPDK capture application and the receive side of `rte_eth_pcap.c` | the same with several polling lcores, bursts, mbuf chains and numbered files |
| `PcapDevice`, `PcapDeviceProofs` | the rest of `rte_eth_pcap.c` | `phase` is where the device is in its life, from devinit through start and stop to devuninit; handles are numbered as they are opened, so that one used after its end is seen; the application's mbufs are a set |
| `Analyser`, `AnalyserProofs` | the analyser | the main loop and one reader thread per file |

`MC_ReaderWriterQueue` makes one module of the queue, its refinement and its proofs for TLC. The other
modules are run directly. Operators whose name says what is wrong (`...Forgotten`,
`...NoReload`) and whose comment begins "Mutant of" are not part of the models: each is a
plausible bug that the property named in `PROJECT.json` must catch.

Abstractions: outside `WeakMemoryQueue` memory is sequentially consistent (the fences of
`atomicops.h` change no state there); a payload is a number; a time is a small natural; packet
sizes are the few values that tell the branches apart; printing, statistics that are only printed,
thread attributes and the parsing of options are left out (options are constants, with every value
the code lets pass). `fwrite` may take fewer bytes than it is given and so tear a record; that the
operating system later fails to write what `fwrite` took is not modelled. The analyser's files are
numbered in the order in which `main` takes them.

Undefined behaviour is a choice: a process that closes a closed dumper crashes or carries on, and
the analyser's uninitialised values may be anything. Where nothing can be said of what follows,
the process gets the state "undefined" and the model stops; the properties speak of what was
reached before. These places are:

| Program | What leads to "undefined" |
|---|---|
| capture program | a packet longer than pktdata is copied into it (`PacketReader.cc:268`; `-s` is not checked, `main.cc:76-77`) |
| DPDK dumper and its copy, older dumpers | a packet that passes the test of `buf_size` is longer than what lies behind an mbuf's headroom (`src_lat/src/main_dump.c:113`, `src/main_dump.c:115`, 174, 181: 16-bit sizes) |
| older dumpers | a second lcore produces (`src/main_dump.c:97-98` only prints a message) |
| DPDK capture application | two lcores are inside `rte_ring_enqueue` at once |
| analyser | 18 bytes are written to `buff[10]` (`displayStats.cpp:118-121`), or a name is copied without room for its end (`main.cpp:271-272`): the process may carry on or not; more files in a round than `threads[]` has entries (251, 275), a join of a thread that was joined or never made; two threads in the map at once, behind a lock that fails; the trace is used after it was destroyed |

## 3. The runs

| Run | Question | Bounds and why they suffice |
|---|---|---|
| `RwqGrow` | assertions, slot races, refinement of `SpscFifo` (order, justified failures), `size_approx` from both threads | one block of 2 that grows by blocks of 4 to three blocks, 7 elements: every block fills, empties and wraps round, and blocks are inserted before full, empty and front blocks |
| `RwqReserve` | room for maxSize, destructor, liveness | five blocks of 2 reserved and one allocated, 8 elements: the circle turns round more than once |
| `WeakQueue` | do the fences suffice? | blocks of 2 growing to a circle of three, 5 elements: a block is reused, so that an old value of every location is there to be read |
| `WeakSize` | violation: see section 6 | two blocks, 3 elements: the shortest way to a second block |
| `BlockingSafe` | permits, assertions, wake-ups | 8 elements; the semaphore's count takes every value a single waiter allows |
| `QueueArithmetic` | rounding, block count, allocation size | all 65536 values of a two-byte `size_t` |
| `CaptureRun` | the capture program, with and without rotation | 3 packets, two of which fill a chunk; a queue with one reserved slot so that every later enqueue may fail; rotation on each tick; short writes between any two records and inside any; packets that fit pktdata and one that does not |
| `DumpRotate` | the DPDK dumper | 4 packets with any stamp of the 4 seconds, so that files are used again in every order; a pool of 3 and a ring that holds 2, so that an enqueue is refused; three rotations, every limit; mbufs with room for the shorter packets, and mbufs that the wrap of 16 bits leaves with none |
| `NumberedFiles` | the older dumpers, both in one run | 4 packets, 2 seconds, pool and ring of 3: packets older than the file, three files, both limits; a snap length for which the 16-bit data room holds every packet and one for which it wraps; one more producing lcore than there should be, which may begin at any time or never |
| `IcisFiles` | the DPDK capture application | three lcores, so that one or two of them poll; pool of 2 and ring of 2 (which holds 1): full ring, empty pool and broken chains with 3 packets |
| `PcapDevice` | the driver's handles, its starts and its transmission | up to two arguments in each direction, two mbufs, 12 handles before the last start: enough for devinit with four handles a direction and two restarts |
| `AnalyseFiles` | the analyser | two files in one round or two, 3 packets, times inside and outside an interval; `threads[]` with one entry, which a round of two overruns, and with two; locks that work, that nobody gets and that fail |

The type invariant of `ReaderWriterQueue` is a property of its own, that of
`BlockingReaderWriterQueue` is proved (section 5), and that of every other module is a conjunct
of one of its properties.

What each fence is there for was measured by dropping them one at a time under `WeakQueue`.
Without the release fence before `front` (224) the producer overwrites a slot the consumer
still reads; without that before `frontBlock` (256) a block that is entered is not known to be
empty; without the acquire fence after `tailBlock` (228) the consumer follows `next` to a block
it does not see. A property also fails without 214 (after a fresh `tail`), 438, 449, 467, 494,
and when a fresh `front` is followed by neither 433 nor 442. No property of the model fails
without one of these: 433 when the copy of `front` already shows room, 214 when the copy of
`tail` already shows an element, 455, 233, 248, 315, 400 when the producer counts, and 268. The
last is the release fence before the `front` of a block just entered: what it releases is
released again by the next 224 or 256 before the producer can write that slot. That these are
idle on the modelled configuration is a statement about 5 elements, three blocks and this
memory model, not advice to remove them.

With two files the analyser's `JoinThread` never meets a `threads[]` entry whose thread was
already joined or never created; three files are too many states for TLC, and the theorem is about
all numbers of files. Each packet's address name is written past the end of `buff[10]`, so that
every run of `CountPacket` may end in "undefined" and may also go on: what the run shows of the
analyser is that nothing else goes wrong. `IcisFiles` needs the pool and the ring this small: the
pool has one mbuf more than the ring holds for every `buffer_size`, and that relation is what the
properties turn on.

Deadlock is checked where the modelled program never stops; every configuration that turns
it off says why.

## 4. Fairness

* `ReaderWriterQueue`: weak fairness of a thread inside a call, and strong fairness of
  `try_dequeue`. The writer thread calls `try_dequeue` in an endless loop
  (`PacketWriter.cc:128`); strong, because between calls a peek may be in progress.
* `BlockingReaderWriterQueue`: a thread inside a call goes on; the consumer keeps calling
  `wait_dequeue`. The spin loop is bounded in the code (10000 rounds).
* `CapturePipeline`: the scheduler runs all threads, and the reader's call of libpcap
  returns (it is opened with a time-out). Nothing is assumed of the signal.
* `NumberedDump`: the consumer lcore polls for ever and its own call of `sig_handler` is the
  same thread. Nothing is assumed of the producer, nor of a signal.
* `IcisCapture`: the master polls for ever, and a handler that has begun goes on. Nothing is
  assumed of the other lcores.
* `Analyser`: the scheduler runs every reader thread; nothing is assumed of `main`.

## 5. Proofs

The theorems about `ReaderWriterQueue` hold for every `MaxSize`, `MAX_BLOCK_SIZE`,
`MaxBlocks`, `MaxElements` and choice of calls, from its assumptions: `ConstructorAssumption`
(the constructor's assertions, and that it did not throw), `OperationsAssumption` (the names of
the calls) and `CeilAssumption` (the rounding to a power of two goes up; the bit trick that does
it is checked in `QueueArithmetic` for every value). The invariant `IInv /\ Capacity` has four
layers, one upon the other, all in `ReaderWriterQueueProofs`. The first two are `Shape` and
`Ring`:

* `TypeCorrect`: `TypeOK`, hence every index stays inside its block and every pointer leads
  to a block;
* `RingCorrect`: the structure of the circle, below;
* `AssertionsCorrect`: the assertions at lines 252, 317, 368 and 459;
* `NoSlotRaceCorrect`: the two threads never touch one slot at the same time.

None of the last three is inductive. What makes them true is that the blocks in use lie one
behind the other: from `frontBlock` to the last block of the queue every block holds
elements, and from there on to `frontBlock` every block is free. "Between two blocks of a
circle" is reachability over `next`, which would need induction over data, so the invariant
says it locally, each part about a block and the one after it (`Circle`): `next` is
injective; a block that is free, or the last one, is followed by a free block or by
`frontBlock`; any other is followed by a block with elements that is not `frontBlock`. With
`Positions` (localFront <= front <= localTail <= tail in the cyclic order of each block,
stated with distances) and what each thread knows at each step (`ProducerAt`,
`ConsumerAt`) this is inductive. `Shape` is the pointers' part and is proved first.
`frontBlock` may be empty while it is not the last block: the consumer lingers there
until its next call, which is why "free" means empty and not `frontBlock`.

The third layer says which element lies in which slot
(`Cells`): the elements of a block carry consecutive numbers (`Filled`); the oldest element of a
block follows the youngest of the block before it; the last one is the last accepted, or the
one about to be; nothing newer lies anywhere (`Numbers`); every other slot is raw storage
(`RawStorage`). The element in progress (`Pending`) and the one destroyed but not given back
(`Destroying`) are the two exceptions. `Request` says what the consumer may conclude at each
step. From this follow `RawStorageCorrect`, that no element is constructed over a living one,
and with layer two that what is read is number `dequeued + 1`.

The fourth layer is about how much the circle holds
(`Capacity`): the blocks can be numbered along it (`OneCircle`; `LinkBlock` shifts the numbers
behind the new block); none is smaller than the constructor's (`Large`); a block the producer
has left and the consumer not reached is full (`Packed`); and what the producer's call found
(`Asked`). What the blocks between the consumer and the producer hold is a sum along the
circle. It needs no induction theorem: were it too small at some block, it would be too small
at the one before, so there is no such block of least rank (`Least`, from `WFMin`,
`FullBlocksBefore`). On the four layers (`CapacityCorrect`) rest:

* `HoldsMaxSizeCorrect`: a call that asks for memory or gives up began with `MaxSize` elements;
* `FifoCorrect`: every step is a step of `SpscFifo` with capacity `MaxSize`, or a stutter, where
  the abstract queue is the run of numbers from `dequeued + 1` to `enqueued`;
* `ImplementsFifoCorrect`: the same of the queue that `ReaderWriterQueueFifo` reads off the
  blocks (`Contents`: the walk over `next` from `frontBlock`, block after block from `front` to
  `tail`). `ContentsIs` shows that this walk yields that run of numbers. A numbering of the circle
  from `frontBlock` gives each block its place on the walk (`NthIs`, `InUse`); each holds the
  numbers behind those of the block before it (`ElementsAre`, `EndsAre`); and pieces that follow
  one another make one piece (`CutConcat`, `FlattenCuts`). All three are inductions, done once
  more as the least place at which the claim fails (`Chain`);
* `DestructorCorrect`: what `~ReaderWriterQueue` destroys is what is left, by the same walk, and
  the blocks it gives back are all there are;
* `SizeApproxCorrect`: what `size_approx` returns, to either thread. While a thread counts it
  changes nothing, so the consumer meets a queue that only grows and the producer one that only
  shrinks. `Walks` compares what has been counted with the number of elements that lie before the
  block the count has come to, from the consumer's side (`Under`: a free block has everything
  before it) and the producer's (`Past`: a block the consumer has left since has nothing before
  it). A step of the other thread moves both by no more than it moves the size (`UnderGrows`,
  `PastShrinks`), and a walk that is round has all of them before it.

`QueueLayersProofs` has three parts, which share nothing but the module. The first is about
`WeakMemoryQueue`, for every size of the blocks, number of blocks, number of elements and choice
of calls (`WeakAssumption`), but for one hypothesis: the consumer does not call `size_approx`.
With that call the property `SizeSeesBuiltBlocks` is false, which is what the run `WeakSize` is
about; the producer's call is in, and its walk is proved to enter built blocks only
(`ProducerMayCount`). `FencesSuffice` is `NoDataRace`, `WeakAssertions` is `WeakAssertionsHold`,
`WeakOrder` is `ReadsInOrder`.

None of these is inductive, and here an invariant about the present state cannot be: a thread may
load any value its view does not exclude. `WInv` therefore speaks of histories:

* `Memory`: a view, a thread's own or one that came with a value, leads to values there are; what
  a thread's stores carry is part of what it knows, and that is part of what it has loaded;
* `Histories`: the n-th value of `tail` of a block is n-1 modulo its size, `front` the same, and
  the values of `frontBlock` are those of `tailBlock` as far as it has come. A position in such a
  history counts elements without wrapping round, so `Put` and `Got` say how many elements a block
  ever received and gave back; that they differ by less than the size of the block (`Counts`) makes
  a slot's index determine the position;
* `Circle`, `Counts`, `Cells`: the structure and the contents of the queue, as far as these
  properties need them, on the latest values. `Circle` is stated from the block at which the
  *producer's view* has the consumer, not from where the consumer is: what lies between may not be
  reused, and this is where an old `frontBlock` costs no more than a block too many;
* `FrontViews`, `FrontBlockViews`, `TailBlockViews`, `TailViews`: what was released with every
  value of `front`, `frontBlock`, `tailBlock` and `tail`, hence what whoever acquires that value
  knows. With a value of `front` comes the end of the elements in the slots that were free when it
  was stored and still are; with one of `frontBlock`, all there is to know of the blocks not in use
  since; with one of `tailBlock`, that the blocks up to it are built and have their first element
  (`Ready`), and what else is in those before it (`Complete`); with one of `tail`, the elements up
  to it but for those the consumer knows already and the first of a block it has not entered, which
  comes with `tailBlock` (465 has no fence before it, 467 has). This is the content of the fences
  at 224, 256, 438, 467 and 494;
* `ProducerRoom`, `ProducerKnows`, `ProducerAt` and `ConsumerStock`, `ConsumerKnows`,
  `ConsumerAt`: that `localFront` and `localTail` are values of the other thread's index from which
  the thread has acquired, what each knows at rest, and what it knows between a load and its use.

One step of the code becomes three kinds of step of the proof, stated once each: a load with the
fence behind it only adds to one thread's view (`ProducerLearns`, `ConsumerLearns`); a store
behind a release fence appends one value which carries all its thread knows (`OneStore`); a row of
stores, a release fence and one more store do this for several locations (`MoreStores`). That
positions and slots agree needs division with remainder by a block size that is a constant of
unknown value; it is done from the uniqueness of quotient and remainder.

The second part holds for every number of elements (`BlockingAssumption`):
`BlockingAssertions`, `BlockingPermits` and `BlockingTypeCorrect`. `PermitsMatchElements` becomes
inductive with two additions: the thread's place in the queue's code determines its place in
the semaphore's (`Places`), and the count is negative only while the consumer blocks and
stays positive from the look that saw it so until the decrement (`Counter`). From these a
consumer that has passed the semaphore finds `Len(inner) >= 1`.

The third part is about the memory of a block: `LayoutCorrect` for every address, header, element,
alignment and capacity, and `BlockFitsCorrect`, which is `BlockFits` for every address
(`LayoutAssumption`: an alignment is not 0; that it is a power of two is not needed). It rests on
`AlignForIs`: `align_for` moves on to the next multiple of the alignment, by less than one.

`DumpPipelineProofs` holds for every pool, ring, limit, interval and bound (`SizeAssumption`).
`MbufsCorrect`: every mbuf of the dumper is free, in one lcore's hands, on the ring, or lost by
a refused enqueue, and none is refused when the ring is as large as the pool; as in all that is
said of this module, until a packet overruns its mbuf. The invariant
adds which steps of a lcore have an mbuf in their hands, that the packet being enqueued was not
lost before, and the dumper's type.

The same module proves the other properties of that run from it. `OrderCorrect` and `ReadyCorrect`
hold unless the clock that stamps packets is set back (`clockSetBack`: the stamps that libpcap
delivers are not checked, and after such a step the code may really replace a finished file;
`FileInv` is what is kept then, and all that `LimitsCorrect` needs). The argument: the packets are
one queue from libpcap's header to the files (`PipeOrder`), and their times do not go back along
it; once one is in a file none behind it is older than the last rotation (`NoWayBack`), so the
names of the files with packets only increase, and a name that is opened or renamed to can only be
that of an empty file (`OpenFileInv`, `Older`). `LimitsCorrect`: renaming makes no file, a
rotation one, and a consumer at a limit does not come back.

`NumberedDumpProofs` holds for every buffer size, limit, interval and bound
(`NumberedAssumption`), every `-S`, every room of an mbuf and every number of lcores: a packet that
overruns its mbuf and a second producer are steps to the state "undefined", and what the theorems
say is of the states before. `MbufsCorrect`: `MbufsAccounted` is inductive as it stands, since its
conjunct `Hands` says which steps have an mbuf; that the ring never refuses one follows from
the sum, the mbuf being enqueued not being on it. `LimitsCorrect`: `LimitsHold`, from what is
dumped being at most `nb_dumped_packets`, the files' numbers at most `nb_rotations`, and a
consumer that has reached a limit being at its own call of `sig_handler`, from which it does
not come back. `FilesCorrect`: `FilesPartition`, from the same order of the pipeline and from
where the consumer is (`OpenFileInv`): before a file is opened its number is above all others,
and what is in the open one is at most the interval younger than the last rotation. Here the
clock may be set back at any time.

`CapturePipelineProofs` holds for every chunk size, packet length, rotation interval, queue and
number of packets (`SizeAssumption`: a `pcktPLUSEpcaphd` holds the header and pktdata, and the
chunk holds one of them; `OptionsAssumption`). The lengths of packets are any naturals: one longer
than pktdata is a step to "undefined". `TypeCorrect`, `ChunkCorrect`, `OrderCorrect`,
`NothingVanishesCorrect`, `WriterDrainsCorrect` and `FilesOnlyGrowCorrect` come from one
invariant. To the properties it adds: the chunk has room for one more packet at every step of the
writer but the one before the flush (`Room`); the open file is the youngest and a file that is
created is younger than any other (`CurrentFile`), without which a rotation might truncate; the
writer has seen the header's magic number before it writes the header (`HeaderKnown`); whatever
the writer and the queue hold was captured before the packet in the reader's hands (`Behind`), so
that appending keeps the order; a record that a short write tore was reported (`TornReported`);
and a writer that is about to stop left nothing older than its last look in the queue (`Drained`,
`Closed`). Liveness of the stop stays with TLC.

`PcapDeviceProofs` holds for every number of queues, names, mbufs and opens
(`DeviceAssumption`), hence for any arguments. `HandlesCorrect`, `StartedOpenCorrect` and
`BurstsCorrect`. That devinit loses n(n-1) handles and no more is the hard part: after each
handle it opens, `Round` says which queues have one and from which argument, `Losses` counts the
open handles no queue has, and `Apart` says that two queues never share one, else replacing a
queue's handle would lose nothing. Stop and start then only exchange handles, and a start that
failed half way leaves a device in the same state as a stopped one. The counters summed over the
queues are the library's fold over a set; the facts needed of such a sum (adding to one term adds
to the sum) are proved from the smallest set for which they fail.

`AnalyserProofs` holds for every number of files and every length of `threads[]`
(`FilesAssumption`: a time is not 0, and there is a node to count for). `TotalsCorrect`: a board
nobody has locked agrees with itself, and so does one whose holder is between lock and unlock
(`Totals`, `Holds`), which is where a cancellation may leave it; a board whose lock fails is held by
nobody and promises nothing. `Counted` makes the sum over the nodes a cardinality.
`NoFileForgottenCorrect`: in the middle of a round the files before `index` have a thread, or
could not be given one (`Remembered`), which needs that the files of a round are different
(`Round`). `OneLatePacketCorrect` needs no lock at all: a thread that has counted one packet older
than the interval is not on its way with a second (`OnceLate`), because each packet is held against
the start of the interval before the lock is asked for, and that start changes only together
with a new interval.

`IcisCaptureProofs` holds for every pool, burst, chain length, set of lcores and limit
(`ParameterAssumption`). An mbuf of a chain is a pair of packet and segment, so that the sums over
all lcores' bursts are cardinalities of sets. `MbufsCorrect`: `Accounted` has the sum, and that
the full ring refuses one packet at most: an lcore that finds it full holds an mbuf and the ring
holds all the others but those lost, so nothing was lost before. `OrderCorrect`: what one polling
lcore captures lies in the order of its arrival in the files, the consumer's hands, the ring and
the burst (`Line`); a file that is opened has a number no file has (`FilesNumbered`); and a
handler that closes the dumper has ended the capture first (`Shutdown`).

TLC checked each inductive invariant on its run's configuration before it was proved.

Only model-checked:

* liveness (`EveryElementLeaves`, `WakesUp`, `StopEndsTheProcess`, `EnqueuedIsDumped`,
  `ReadersFinish`, `RingDrains`): the prover does not handle fairness and ENABLED;
* `ReservesEnough` of `QueueArithmetic`: bit operations are recursive operators of the `Bitwise`
  module, which no installed backend can reason about. The other modules use the rounding through
  `CeilAssumption` only, and from that `HoldsMaxSizeCorrect` proves that the blocks reserved are
  enough.

So is `SizeSeesBuiltBlocks`, in the other direction: `WeakSize` shows that it fails when the
consumer calls `size_approx`, and nothing is proved of the other properties in that case.

## 6. Where the code and its comments disagree

Shown by a run:

* `WeakSize`: "Safe to call from both the producer and consumer threads" (readerwriterqueue.h:393)
  says the comment above `size_approx`. A new block is linked (486) before the release fence
  (494) that follows its construction; `try_dequeue` never reads `next` of the last block, as
  488-492 explain, but `size_approx` does. The consumer's call may then read a block that its
  thread does not see built. On x86 stores are not reordered and this does not happen.

Met on the way, without a run of their own:

* `peek` of the blocking queue (readerwriterqueue.h:718-723) returns the element "that would be
  removed next by a call to `try_dequeue` or `pop`", but does not ask the semaphore as those
  do: between `inner.enqueue` and `sema.signal` a `try_dequeue` right after it gets nothing.
* "Max file size in KB. When reached, the program quits" (src_lat/main_dump.c:502): the sum over
  all files is compared (397), in bytes, not the file's size.
* "Singleton Displaystat only one display" (displayStats.h:17): `getdashB` (49) takes no lock,
  and two threads may make a board each. The model `Analyser` contains this.
* The dumpers of `src_lat` name a file by the second of the packet that opens it
  (src_lat/main_dump.c:337 and 377). If the clock is set back while the program runs, a name is used
  again, and the rename at 374 replaces the finished file of that name. `DumpPipeline` contains
  this; the properties about the order of the files and about finished ones hold until then. The
  older dumpers number their files and are not concerned.
* `src/main_dump.c:115` asks for mbufs of `snaplen + RTE_PKTMBUF_HEADROOM` bytes, but the
  parameter has 16 bits: with the default snap length 127 bytes remain, less than the headroom,
  the difference at 174 wraps to 65535, the test at 175 lets every packet pass and the copy at 181
  writes over the next mbuf. `src_lat/src/main_dump.c:113` does the same.
* `-s` of the capture program (`main.cc:76-77`) and `-S` of the dumpers are taken unchecked; a packet
  longer than `PRACTICAL_LEN` overruns pktdata (`PacketReader.cc:268`).
* `src/main_dump.c:97-98`: "This application needs exactly two (2) cores." With more, every slave
  lcore runs the producer's loop on a ring made for one; the message is only printed. The
  programs in `src_lat` end instead.
* The analyser writes an address of 18 bytes to `buff[10]` (displayStats.cpp:118-121), copies a
  file's name without room for its end (main.cpp:271-272), bounds the files of a round nowhere although
  `threads[]` has 20 entries (196, 251, 275), and ignores the result of `pthread_mutex_lock` on a mutex
  nobody initialised (displayStats.cpp:106).
* `src/main_dump.c:198` passes `stderr` as the format of `FATAL_ERROR`; the model takes the
  intention, the end of the process.
* The dumpers test `ret`, not the result of `parse_args`, for wrong arguments
  (src_lat/main_dump.c:101-102).
* `rte_eth_pcap.c`: the handler of an argument opens a handle for every queue each time it runs
  (650-657, 684-691), so that with n arguments all queues end on the last one and n(n-1)
  handles are never closed; the interfaces opened for `tx_iface` (882-888) are never used,
  since 1074 copies the dumpers only, and these are uninitialised, so that a stop may close
  whatever they point to (481); a chain that is too long is freed but left to the caller (317,
  377); `pkt_len` is read after the mbuf was freed (322-324); `devuninit` closes nothing; a
  restart truncates the file of a `tx_pcap`. `PcapDevice` models all of this and its properties
  are about what holds besides.
* `PacketWriter.h:54` calls `noOfpkts` "Per file basis"; nothing resets it at a rotation.
* `PacketReader.cc:185` prints its count as packets "actually queued"; it is incremented
  before the enqueue, whatever that returns.
* In `src_lat/09Feb2016ICIS_pcap/main.c` the ring is created with `RING_F_SP_ENQ` (662), but
  with `-q 1` and three ports two lcores enqueue. In `IcisCapture` that is the state
  "undefined". Ports are handed to the lcores from 0 on (699-724) although the master runs
  the consumer (798-799): the packets of the first port are never read. A jumbo packet is dumped
  with the length of its first mbuf only (606).
* `main.cpp:222` of the analyser speaks of "Count threads more than 5"; the test is > 3, and
  it waits rather than stops creating threads.
* `main.cc` ignores `-R` with an argument of one character.

## 7. Not modelled, and why

* `src/allocatemem.cc`: a stand-alone, single-threaded timing experiment linked to nothing else,
  with no result but what it prints.
* Reading the options of the programs (they are the constants), the configuration of ports the
  dumpers do not read from (`init_port`), statistics that are only printed, the analyser's
  per-protocol metrics.
* `fetch_add_*` of `weak_atomic` and `LightweightSemaphore` under weak memory: the semaphore's
  counter is a read-modify-write with acquire and release, modelled as one step.
* Headers of prototypes, build files: no state.

## 8. Order of work

Done, in this order: the queue and its refinement, the semaphore and the blocking queue, the
capture program, the dumper, the analyser, the DPDK capture application, the queue's layers
one and two, the blocking queue's invariant, the memory model and the queue on it, the older
dumpers, the driver's devices, the dumpers' invariants.

Then came the queue's layers three and four and its refinement, the capture program's invariant,
and the dumpers' files as theorems; last the driver, the analyser and the DPDK capture
application as theorems, the walks over the circle (`ImplementsFifo`, the destructor) and
`size_approx`.

After that the invariant of the queue under weak memory and the layout of a block.

What would come next: the refinement of `SpscFifo` under weak memory as well; in the capture
program the real steps of `ReaderWriterQueue` in place of the FIFO.

## 9. Running

    tlc -workers 2 -config RwqGrow.cfg MC_ReaderWriterQueue
    tlapm ReaderWriterQueueProofs.tla
    tlapm QueueLayersProofs.tla
    tlapm DumpPipelineProofs.tla
    tlapm NumberedDumpProofs.tla
    tlapm CapturePipelineProofs.tla
    tlapm PcapDeviceProofs.tla
    tlapm AnalyserProofs.tla
    tlapm IcisCaptureProofs.tla

`ReaderWriterQueueProofs` takes the longest, about ten minutes on two cores, then
`QueueLayersProofs` with seven.

Module, configuration and properties of every run are in `PROJECT.json`.
