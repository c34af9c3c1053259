---------------------------- MODULE NumberedDump ----------------------------
(***************************************************************************)
(* The two older dumpers, src/main_dump.c and src/main_icispcap.c of the   *)
(* repository's inner src directory.  A producer lcore reads packets with  *)
(* libpcap into mbufs and a ring, the consumer lcore dumps them to a pcap  *)
(* file.  Unlike DumpPipeline's program they never rename a file: a        *)
(* rotation closes the file and opens the next one, "<name>1", "<name>2".. *)
(*                                                                         *)
(* The pool has as many mbufs as the ring has places.  The programs differ *)
(* where main_dump.c ends when libpcap fails and main_icispcap.c tries     *)
(* again, and in their mbufs' room: main_icispcap.c's is fixed and may be  *)
(* too short for a packet; main_dump.c asks for the -S bytes and the       *)
(* headroom in 16 bits, and may so get mbufs that its own test finds long  *)
(* enough and its copy overruns.                                           *)
(*                                                                         *)
(* sig_handler runs for SIGINT on either lcore, and the consumer calls it  *)
(* itself at a limit.  Closing a dumper twice, dumping to a closed one and *)
(* using the libpcap handle before it exists are undefined: the process    *)
(* crashes or carries on.  After a copy past an mbuf's end, and once a     *)
(* second lcore produces, nothing is known: process = "undefined".         *)
(***************************************************************************)
EXTENDS Integers, Sequences, FiniteSets

CONSTANTS
    Programs,          \* which of the two may run
    buffer_size,       \* -B
    seconds_rotation,  \* -G, 0 for never
    NoLimit,           \* the -1 of a max_rotations that is not given
    max_rotations,     \* -W, or NoLimit
    max_packets,       \* -c, 0 for no limit
    max_size,          \* -C, 0 for no limit, in bytes
    SnapLens,          \* the -S that may be given
    Sizes,             \* the packets' lengths
    HeaderSize,        \* sizeof(pcap_hdr)
    IcisDataRoom,      \* bytes of main_icispcap.c's mbufs
    HEADROOM,          \* RTE_PKTMBUF_HEADROOM
    Word,              \* 2^16: what a uint16_t holds
    SlaveLcores,       \* lcores besides the master, which consumes
    MaxPackets,        \* bound: packets libpcap delivers
    MaxTime            \* bound: seconds

ASSUME NumberedAssumption ==
    /\ Programs \subseteq {"main_dump", "main_icispcap"}
    /\ buffer_size \in Nat \ {0}
    /\ {seconds_rotation, max_packets, max_size} \subseteq Nat
    /\ max_rotations \in Nat \cup {NoLimit}
    /\ SnapLens \subseteq Int /\ Sizes \subseteq Nat /\ HeaderSize \in Nat
    /\ IcisDataRoom \in Nat /\ HEADROOM \in Nat /\ Word \in Nat \ {0}
    /\ SlaveLcores \in Nat
    /\ MaxPackets \in Nat /\ MaxTime \in Nat

VARIABLES
    program, snaplen,   \* which program runs, and its -S
    process,            \* "running", "exited", "crashed" or "undefined"
    do_shutdown,        \* set by sig_handler
    handlers,           \* sig_handler's runs: a signal's, the consumer's own
    now,                \* gettimeofday, in seconds
    producer, PcapHdr,  \* the producer lcore, the header last delivered
    pool,               \* free mbufs
    filling,            \* the producer's mbuf, <<>> when it has none
    ring,               \* intermediate_ring
    lost,               \* history: mbufs whose enqueue failed
    consumer, m,        \* the consumer lcore and its mbuf
    last_rotation, nb_rotations, nb_dumped_packets, sz_dumped_file,
    dumper,             \* pcap_file_p: "none", "open" or "closed"
    current,            \* the number of the file it writes
    files               \* the file system: file number -> packets

options      == <<program, snaplen>>
ringVars     == <<pool, ring, lost>>
producerVars == <<producer, PcapHdr, filling>>
rotationVars == <<last_rotation, nb_rotations>>
countVars    == <<nb_dumped_packets, sz_dumped_file>>
consumerVars == <<consumer, m, rotationVars, countVars>>
fileVars     == <<dumper, current, files>>
endVars      == <<process, do_shutdown, handlers>>
vars == <<options, endVars, now, producerVars, ringVars, consumerVars,
          fileVars>>

Packet   == [n : 1..MaxPackets, ts : 0..MaxTime, size : Sizes]
NoPacket == [n |-> 0, ts |-> 0, size |-> 0]
Handlers == {"signal", "limit"}

\* rte_pktmbuf_pool_create(..., buffer_size - 1, ...), and the places of a
\* ring that rte_ring_create made for buffer_size.
PoolSize     == buffer_size - 1
RingCapacity == buffer_size - 1

\* libpcap cuts packets to snaplen bytes; it takes one that is not positive for
\* the largest it knows.
Captured == {size \in Sizes : snaplen > 0 => size <= snaplen}

\* uint16_t data_room_size; the producer's test subtracts the headroom from it
\* in a uint16_t again, while a data room no larger than the headroom has no
\* room behind it.
data_room ==
    IF program = "main_dump" THEN (snaplen + HEADROOM) % Word ELSE IcisDataRoom
buf_size  == (data_room - HEADROOM) % Word
Room      == IF data_room > HEADROOM THEN data_room - HEADROOM ELSE 0

Init ==
    /\ program \in Programs /\ snaplen \in SnapLens /\ process = "running"
    /\ do_shutdown = FALSE /\ handlers = [h \in Handlers |-> "idle"]
    /\ now = 0
    /\ producer = "start" /\ PcapHdr = NoPacket /\ filling = <<>>
    /\ pool = PoolSize /\ ring = <<>> /\ lost = 0
    /\ consumer = "start" /\ m = <<>>
    /\ last_rotation = 0 /\ nb_rotations = 0
    /\ nb_dumped_packets = 0 /\ sz_dumped_file = 0
    /\ dumper = "none" /\ current = 0 /\ files = [f \in {} |-> <<>>]

Stop(how) ==
    /\ process' = how
    /\ UNCHANGED <<options, do_shutdown, handlers, now, producerVars, ringVars,
                   consumerVars, fileVars>>

-----------------------------------------------------------------------------
(* main_loop_producer *)

\* A failing step ends the process, or (pcap_create) leaves a null handle.
PcapStartUp ==
    /\ producer = "start"
    /\ \/ /\ producer' = "next"
          /\ UNCHANGED <<options, endVars, now, PcapHdr, filling, ringVars,
                         consumerVars, fileVars>>
       \/ \E how \in {"exited", "crashed"} : Stop(how)

\* A packet carries any time up to now: the clock may be set back.  What does
\* not fit is skipped before the status is looked at.
PcapNextEx ==
    /\ producer = "next"
    /\ PcapHdr.n < MaxPackets
    /\ \E ts \in 0..now, size \in Captured :
         /\ PcapHdr' = [n |-> PcapHdr.n + 1, ts |-> ts, size |-> size]
         /\ producer' = IF size > buf_size THEN "next" ELSE "alloc"
    /\ UNCHANGED <<options, endVars, now, filling, ringVars, consumerVars,
                   fileVars>>

\* status -1: main_icispcap.c has no such branch and calls again, as main_dump.c
\* does after a packet that it skipped.
PcapFails ==
    /\ producer = "next" /\ program = "main_dump" /\ PcapHdr.size <= buf_size
    /\ Stop("exited")

\* The result of rte_pktmbuf_alloc is used unchecked, and the copy takes the
\* whole packet.
Alloc ==
    /\ producer = "alloc"
    /\ \/ /\ pool > 0 /\ PcapHdr.size <= Room
          /\ pool' = pool - 1
          /\ filling' = <<PcapHdr>>
          /\ producer' = "enqueue"
          /\ UNCHANGED <<options, endVars, now, PcapHdr, ring, lost,
                         consumerVars, fileVars>>
       \/ pool = 0 /\ Stop("crashed")
       \/ pool > 0 /\ PcapHdr.size > Room /\ Stop("undefined")

\* So is that of rte_ring_enqueue.
Enqueue ==
    /\ producer = "enqueue"
    /\ IF Len(ring) < RingCapacity
         THEN ring' = Append(ring, filling[1]) /\ UNCHANGED lost
         ELSE lost' = lost + 1 /\ UNCHANGED ring
    /\ filling' = <<>>
    /\ producer' = "next"
    /\ UNCHANGED <<options, endVars, now, PcapHdr, pool, consumerVars,
                   fileVars>>

\* Every slave lcore runs the loop; that there is one is only asked for.  The
\* first step of a second one replaces the handle the first one reads from, and
\* both enqueue on a ring made for one producer.
SecondProducer == SlaveLcores > 1 /\ Stop("undefined")

main_loop_producer ==
    /\ SlaveLcores > 0
    /\ \/ PcapStartUp
       \/ PcapNextEx
       \/ PcapFails
       \/ Alloc
       \/ Enqueue

-----------------------------------------------------------------------------
(* main_loop_consumer *)

\* pcap_dump_open truncates the file if there is one.
OpenFile(number) ==
    /\ dumper' = "open"
    /\ current' = number
    /\ files' = [f \in DOMAIN files \cup {number} |->
                   IF f = number THEN <<>> ELSE files[f]]

\* pcap_close(pd) and pcap_dump_close(pcap_file_p)
CloseDumper ==
    \/ /\ dumper # "none"
       /\ dumper' = "closed"
       /\ UNCHANGED process
    \/ /\ dumper # "open"
       /\ process' = "crashed"
       /\ UNCHANGED dumper

StartConsumer ==
    /\ consumer = "start"
    /\ \/ /\ OpenFile(0)
          /\ last_rotation' = now
          /\ consumer' = "dequeue"
          /\ UNCHANGED <<options, endVars, now, producerVars, ringVars, m,
                         nb_rotations, countVars>>
       \/ Stop("exited")

Dequeue ==
    /\ consumer = "dequeue" /\ ring # <<>>
    /\ m' = <<Head(ring)>>
    /\ ring' = Tail(ring)
    /\ consumer' = "rotate"
    /\ UNCHANGED <<options, endVars, now, producerVars, pool, lost,
                   rotationVars, countVars, fileVars>>

\* Mutant of Expired: the difference is taken as a signed one.
ExpiredSigned(ts) == ts - last_rotation > seconds_rotation

\* t_pack.tv_sec - last_rotation > seconds_rotation in uint64_t: a packet
\* stamped before the last rotation makes the difference wrap.
Expired(ts) == ts < last_rotation \/ ts - last_rotation > seconds_rotation

\* Mutant of CheckRotation: the packet that causes a rotation is not dumped.
CheckRotationSkips ==
    /\ consumer = "rotate"
    /\ IF seconds_rotation > 0 /\ Expired(m[1].ts)
         THEN /\ last_rotation' = m[1].ts
              /\ nb_rotations' = nb_rotations + 1
              /\ consumer' = "dequeue" /\ m' = <<>>
         ELSE consumer' = "dump" /\ UNCHANGED <<rotationVars, m>>
    /\ UNCHANGED <<options, endVars, now, producerVars, ringVars, countVars,
                   fileVars>>

CheckRotation ==
    /\ consumer = "rotate"
    /\ IF seconds_rotation > 0 /\ Expired(m[1].ts)
         THEN /\ last_rotation' = m[1].ts
              /\ nb_rotations' = nb_rotations + 1
              /\ consumer' = IF max_rotations # NoLimit
                                /\ nb_rotations + 1 > max_rotations
                               THEN "limit" ELSE "close"
         ELSE consumer' = "dump" /\ UNCHANGED rotationVars
    /\ UNCHANGED <<options, endVars, now, producerVars, ringVars, m, countVars,
                   fileVars>>

CloseFile ==
    /\ consumer = "close"
    /\ CloseDumper
    /\ consumer' = "reopen"
    /\ UNCHANGED <<options, do_shutdown, handlers, now, producerVars, ringVars,
                   m, rotationVars, countVars, current, files>>

\* sprintf(file_name_rotated, "%s%ld", file_name, nb_rotations)
ReopenFile ==
    /\ consumer = "reopen"
    /\ \/ /\ OpenFile(nb_rotations)
          /\ consumer' = "dump"
          /\ UNCHANGED <<options, endVars, now, producerVars, ringVars, m,
                         rotationVars, countVars>>
       \/ Stop("exited")

\* Mutant of LimitReached: the limit itself does not count.
LimitPassed ==
    \/ max_size # 0 /\ sz_dumped_file' > max_size
    \/ max_packets # 0 /\ nb_dumped_packets' > max_packets

LimitReached ==
    \/ max_size # 0 /\ sz_dumped_file' >= max_size
    \/ max_packets # 0 /\ nb_dumped_packets' >= max_packets

Dump ==
    /\ consumer = "dump"
    /\ \/ /\ \/ /\ dumper = "open"
                /\ files' = [files EXCEPT ![current] = Append(@, m[1])]
             \/ dumper # "open" /\ UNCHANGED files    \* undefined
          /\ nb_dumped_packets' = nb_dumped_packets + 1
          /\ sz_dumped_file' = sz_dumped_file + m[1].size + HeaderSize
          /\ consumer' = IF LimitReached THEN "limit" ELSE "free"
          /\ UNCHANGED <<options, endVars, now, producerVars, ringVars, m,
                         rotationVars, dumper, current>>
       \/ dumper # "open" /\ Stop("crashed")

\* Mutant of Free: the mbuf is kept.
FreeForgotten ==
    /\ consumer = "free"
    /\ m' = <<>>
    /\ consumer' = "dequeue"
    /\ UNCHANGED <<options, endVars, now, producerVars, ringVars, rotationVars,
                   countVars, fileVars>>

Free ==
    /\ consumer = "free"
    /\ pool' = pool + 1
    /\ m' = <<>>
    /\ consumer' = "dequeue"
    /\ UNCHANGED <<options, endVars, now, producerVars, ring, lost,
                   rotationVars, countVars, fileVars>>

main_loop_consumer ==
    \/ StartConsumer
    \/ Dequeue
    \/ CheckRotation
    \/ CloseFile
    \/ ReopenFile
    \/ Dump
    \/ Free

-----------------------------------------------------------------------------
(* Signals.  The consumer does not come back from its own call of            *)
(* sig_handler.  print_stats ends the process when libpcap has no statistics *)
(* and dereferences a null handle until PcapStartUp has made one.            *)

PrintStatsFails ==
    \/ Stop("exited")
    \/ producer = "start" /\ Stop("crashed")

alarm_routine == ~do_shutdown /\ PrintStatsFails

EnterHandler(h) ==
    /\ handlers[h] = "idle" /\ (h = "limit" => consumer = "limit")
    /\ do_shutdown' = TRUE
    /\ handlers' = [handlers EXCEPT ![h] = "stats"]
    /\ UNCHANGED <<options, process, now, producerVars, ringVars, consumerVars,
                   fileVars>>

PrintStats(h) ==
    /\ handlers[h] = "stats"
    /\ \/ /\ producer # "start"
          /\ handlers' = [handlers EXCEPT ![h] = "close"]
          /\ UNCHANGED <<options, process, do_shutdown, now, producerVars,
                         ringVars, consumerVars, fileVars>>
       \/ PrintStatsFails

HandlerCloses(h) ==
    /\ handlers[h] = "close"
    /\ CloseDumper
    /\ handlers' = [handlers EXCEPT ![h] = "exit"]
    /\ UNCHANGED <<options, do_shutdown, now, producerVars, ringVars,
                   consumerVars, current, files>>

HandlerExits(h) == handlers[h] = "exit" /\ Stop("exited")

sig_handler(h) ==
    \/ EnterHandler(h)
    \/ PrintStats(h)
    \/ HandlerCloses(h)
    \/ HandlerExits(h)

Second ==
    /\ now < MaxTime
    /\ now' = now + 1
    /\ UNCHANGED <<options, endVars, producerVars, ringVars, consumerVars,
                   fileVars>>

-----------------------------------------------------------------------------
Consuming == process = "running" /\ main_loop_consumer
Quitting  == process = "running" /\ sig_handler("limit")

Next ==
    /\ process = "running"
    /\ \/ main_loop_producer
       \/ SecondProducer
       \/ main_loop_consumer
       \/ \E h \in Handlers : sig_handler(h)
       \/ alarm_routine
       \/ Second

\* The consumer lcore polls for ever, and its own call of sig_handler is the
\* same thread: no step of it waits for anything but a packet.
Fairness == WF_vars(Consuming) /\ WF_vars(Quitting)

Spec == Init /\ [][Next]_vars /\ Fairness

-----------------------------------------------------------------------------
(* Properties *)

TypeOK ==
    /\ program \in Programs /\ snaplen \in SnapLens
    /\ process \in {"running", "exited", "crashed", "undefined"}
    /\ do_shutdown \in BOOLEAN
    /\ handlers \in [Handlers -> {"idle", "stats", "close", "exit"}]
    /\ now \in 0..MaxTime
    /\ producer \in {"start", "next", "alloc", "enqueue"}
    /\ PcapHdr \in Packet \cup {NoPacket}
    /\ pool \in Nat /\ lost \in Nat
    /\ filling \in Seq(Packet) /\ ring \in Seq(Packet) /\ m \in Seq(Packet)
    /\ consumer \in {"start", "dequeue", "rotate", "close", "reopen", "dump",
                     "free", "limit"}
    /\ last_rotation \in Nat /\ nb_rotations \in Nat
    /\ nb_dumped_packets \in Nat /\ sz_dumped_file \in Nat
    /\ dumper \in {"none", "open", "closed"} /\ current \in Nat

\* Which lcore has an mbuf in its hands.
Hands ==
    /\ Len(filling) = IF producer = "enqueue" THEN 1 ELSE 0
    /\ IF consumer \in {"start", "dequeue"} THEN m = <<>> ELSE Len(m) = 1
    /\ producer = "alloc" => PcapHdr \in Packet

\* As long as one lcore produces and every packet so far fits its mbuf, every
\* mbuf is free, in one lcore's hands or on the ring, through rotations, limits
\* and signals; and the ring, as large as the pool, never refuses one: that the
\* result of rte_ring_enqueue is not looked at loses nothing.
MbufsAccounted ==
    /\ TypeOK /\ Hands
    /\ pool + Len(filling) + Len(ring) + Len(m) = PoolSize
    /\ lost = 0

Numbers(s) == {s[i].n : i \in DOMAIN s}
Before(s, t) == \A i \in DOMAIN s, j \in DOMAIN t : s[i].n < t[j].n
Dumped == UNION {Numbers(files[f]) : f \in DOMAIN files}

\* As long as one lcore produces and every packet so far fits its mbuf, and until
\* a shutdown begins, the files, read by their numbers, hold every dumped
\* packet in capture order, and no file spans more than -G seconds, even when
\* the clock is set back: a packet older than its file opens another one.
FilesPartition ==
    ~do_shutdown =>
      /\ Cardinality(Dumped) = nb_dumped_packets
      /\ \A f, g \in DOMAIN files : f < g => Before(files[f], files[g])
      /\ \A f \in DOMAIN files : \A i, j \in DOMAIN files[f] :
           /\ i < j => files[f][i].n < files[f][j].n
           /\ seconds_rotation > 0
                => files[f][j].ts - files[f][i].ts <= seconds_rotation

\* "Max number of packets to save" and "Max rotations done", as long as one lcore
\* produces and every packet so far fits its mbuf, while the consumer's own call
\* of sig_handler takes its time to end the process.
LimitsHold ==
    /\ max_packets # 0 => Cardinality(Dumped) <= max_packets
    /\ max_rotations # NoLimit => DOMAIN files \subseteq 0..max_rotations

\* What the producer put on the ring reaches a file, unless the process is on
\* its way out or no longer defined.
EnqueuedIsDumped ==
    \A n \in 1..MaxPackets :
      n \in Numbers(ring)
        ~> n \in Dumped \/ do_shutdown \/ process # "running"
=============================================================================
