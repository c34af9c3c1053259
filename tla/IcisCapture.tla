----------------------------- MODULE IcisCapture -----------------------------
(***************************************************************************)
(* The DPDK capture application src_lat/09Feb2016ICIS_pcap: main.c gives   *)
(* the enabled ports to the lcores; every lcore but the master polls its   *)
(* ports through the pcap poll mode driver (rte_eth_pcap.c), stamps what   *)
(* it receives and puts it on one ring; the master takes packets off the   *)
(* ring and dumps them to numbered files.                                  *)
(*                                                                         *)
(* The ring is created for a single producer and a single consumer.  When  *)
(* a second lcore enters rte_ring_enqueue before the first one is out, the *)
(* outcome is undefined and the model stops.  Closing a dumper twice or    *)
(* dumping to a closed one is undefined as well: the process crashes or    *)
(* carries on.                                                             *)
(***************************************************************************)
EXTENDS Integers, Sequences, FiniteSets

CONSTANTS
  Lcores,            \* the lcores the EAL was given; the smallest is the master
  Masks,             \* the values of -p: sets of Ethernet ports
  QueuesPerLcore,    \* the values of -q
  buffer_size,       \* -B: mbufs of the pool, and slots of the ring
  MAX_PKT_BURST,     \* packets of one rte_eth_rx_burst
  MaxSegments,       \* mbufs a jumbo packet may need
  seconds_rotation,  \* -G, 0 for never
  NoLimit,           \* the -1 of a max_rotations that is not given
  max_rotations,     \* -W, or NoLimit
  max_packets,       \* -c, 0 for no limit
  SizeLimit,         \* whether -C is given: sizes are not modelled, any packet may reach it
  MaxPackets,        \* bound: packets the driver delivers
  MaxTime            \* bound: seconds

ASSUME ParameterAssumption ==
  /\ Lcores \subseteq Nat /\ IsFiniteSet(Lcores) /\ Lcores # {}
  /\ \A ports \in Masks : ports \subseteq Nat /\ IsFiniteSet(ports)
  /\ QueuesPerLcore \subseteq Nat \ {0}
  /\ {buffer_size, MAX_PKT_BURST, MaxSegments} \subseteq Nat \ {0}
  /\ {seconds_rotation, max_packets, MaxPackets, MaxTime} \subseteq Nat
  /\ max_rotations \in Nat \cup {NoLimit} /\ SizeLimit \in BOOLEAN

VARIABLES
  process,        \* "setup", "running", "exited", "crashed" or "undefined"
  do_shutdown,    \* set by sig_handler
  handlers,       \* sig_handler's runs: by a signal and by the consumer's own call
  now,            \* gettimeofday, in seconds
  enabled,        \* icis_enabled_port_mask
  perLcore,       \* icis_rx_queue_per_lcore
  received,       \* packets delivered so far
  lcore,          \* where each lcore is in packet_producer
  burst,          \* pkts_burst of each lcore, as far as it is not on the ring
  pool,           \* free mbufs of icis_pktmbuf_pool
  ring,           \* intermediate_ring
  unfreed,        \* history: mbufs nobody frees any more
  refused,        \* history: packets the full ring refused
  consumer,       \* where the master is in packet_consumer
  m,              \* its packet, <<>> when it has none
  last_rotation, nb_rotations, nb_dumped_packets,
  dumper,         \* pcap_file_p
  files           \* packets of each file: 0 is file_name, k > 0 is file_name with k appended

endVars == <<process, do_shutdown, handlers>>
setupVars == <<enabled, perLcore>>
lcoreVars == <<received, lcore, burst>>
mbufVars == <<pool, unfreed, refused>>
countVars == <<last_rotation, nb_rotations, nb_dumped_packets>>
fileVars == <<dumper, files>>
vars == <<endVars, now, setupVars, lcoreVars, mbufVars, ring, consumer, m, countVars,
          fileVars>>

\* n tells packets apart, segments is the length of the mbuf chain, ts is tx_offload.
Packet == [n : 1..MaxPackets, segments : 1..MaxSegments, ts : 0..MaxTime]
Runs == {"signal", "limit"}

Master == CHOOSE c \in Lcores : \A d \in Lcores : c <= d
Rank(S, x) == Cardinality({y \in S : y < x})

\* main fills lcores with perLcore ports each in the order of their numbers, the master first.
PortsOf(c) == {p \in enabled : Rank(enabled, p) \div perLcore = Rank(Lcores, c)}
EnoughLcores == Cardinality(enabled) <= perLcore * Cardinality(Lcores)
Polling == {c \in Lcores \ {Master} : PortsOf(c) # {}}

Init ==
  /\ process = "setup" /\ do_shutdown = FALSE /\ now = 0
  /\ handlers = [h \in Runs |-> "idle"]
  /\ enabled \in Masks /\ perLcore \in QueuesPerLcore
  /\ received = 0 /\ lcore = [c \in Lcores |-> "off"] /\ burst = [c \in Lcores |-> <<>>]
  /\ pool = buffer_size /\ ring = <<>> /\ unfreed = 0 /\ refused = {}
  /\ consumer = "start" /\ m = <<>>
  /\ last_rotation = 0 /\ nb_rotations = 0 /\ nb_dumped_packets = 0
  /\ dumper = "none" /\ files = <<>>

Stop(how) ==
  /\ process' = how
  /\ UNCHANGED <<do_shutdown, handlers, now, setupVars, lcoreVars, mbufVars, ring,
                 consumer, m, countVars, fileVars>>

(***************************************************************************)
(* main, up to the launch of the other lcores.                             *)
(***************************************************************************)
Setup ==
  /\ process = "setup"
  /\ \/ /\ enabled # {} /\ EnoughLcores
        /\ process' = "running"
        /\ lcore' = [c \in Lcores |-> IF c \in Polling THEN "poll" ELSE "off"]
        /\ UNCHANGED <<do_shutdown, handlers, now, setupVars, received, burst, mbufVars,
                       ring, consumer, m, countVars, fileVars>>
     \/ Stop("exited")

(***************************************************************************)
(* packet_producer on lcore c, and the driver's eth_pcap_rx.               *)
(***************************************************************************)
\* eth_pcap_rx_jumbo completes the chain.
ChainFits(segments) == segments <= pool

\* One packet of the burst: its mbufs come out of the pool.  Without an mbuf the packet is
\* lost; when the chain of a jumbo packet cannot be completed its mbufs are lost with it.
\* Both end the burst.
RxPacket(c) ==
  /\ lcore[c] = "poll" /\ received < MaxPackets /\ Len(burst[c]) < MAX_PKT_BURST
  /\ received' = received + 1
  /\ \E segments \in 1..MaxSegments :
       IF ChainFits(segments)
       THEN /\ pool' = pool - segments
            /\ burst' = [burst EXCEPT ![c] =
                 Append(@, [n |-> received + 1, segments |-> segments, ts |-> 0])]
            /\ UNCHANGED <<lcore, unfreed>>
       ELSE /\ pool' = 0 /\ unfreed' = unfreed + pool
            /\ lcore' = [lcore EXCEPT ![c] = "stamp"]
            /\ UNCHANGED burst
  /\ UNCHANGED <<endVars, now, setupVars, refused, ring, consumer, m, countVars, fileVars>>

\* The burst is full or pcap_next has no more packets.
RxEnd(c) ==
  /\ lcore[c] = "poll" /\ burst[c] # <<>>
  /\ lcore' = [lcore EXCEPT ![c] = "stamp"]
  /\ UNCHANGED <<endVars, now, setupVars, received, burst, mbufVars, ring, consumer, m,
                 countVars, fileVars>>

Stamp(c) ==
  /\ lcore[c] = "stamp"
  /\ IF burst[c] = <<>>
     THEN /\ lcore' = [lcore EXCEPT ![c] = "poll"] /\ UNCHANGED burst
     ELSE /\ lcore' = [lcore EXCEPT ![c] = "enqueue"]
          /\ burst' = [burst EXCEPT ![c][1].ts = now]
  /\ UNCHANGED <<endVars, now, setupVars, received, mbufVars, ring, consumer, m, countVars,
                 fileVars>>

Inside(c) == lcore[c] \in {"accepted", "refused"}

\* rte_ring_enqueue looks at the indices; RingTake writes the slot and moves the tail.
RingLook(c) ==
  /\ lcore[c] = "enqueue"
  /\ IF \E d \in Lcores \ {c} : Inside(d)
     THEN Stop("undefined")
     ELSE /\ lcore' = [lcore EXCEPT ![c] =
               IF Len(ring) < buffer_size - 1 THEN "accepted" ELSE "refused"]
          /\ UNCHANGED <<endVars, now, setupVars, received, burst, mbufVars, ring, consumer,
                         m, countVars, fileVars>>

\* main.c does not look at what rte_ring_enqueue returns.
RingTake(c) ==
  /\ Inside(c)
  /\ LET p == Head(burst[c])
     IN  IF lcore[c] = "accepted"
         THEN ring' = Append(ring, p) /\ UNCHANGED <<unfreed, refused>>
         ELSE /\ unfreed' = unfreed + p.segments
              /\ refused' = refused \cup {p.n}
              /\ UNCHANGED ring
  /\ burst' = [burst EXCEPT ![c] = Tail(@)]
  /\ lcore' = [lcore EXCEPT ![c] = "stamp"]
  /\ UNCHANGED <<endVars, now, setupVars, received, pool, consumer, m, countVars, fileVars>>

packet_producer(c) ==
  \/ RxPacket(c)
  \/ RxEnd(c)
  \/ Stamp(c)
  \/ RingLook(c)
  \/ RingTake(c)

(***************************************************************************)
(* packet_consumer, on the master.                                         *)
(***************************************************************************)
\* pcap_dump_open truncates a file of that name, or fails and ends the process.
OpenFile(k) ==
  /\ dumper' = "open"
  /\ files' = [f \in DOMAIN files \cup {k} |-> IF f = k THEN <<>> ELSE files[f]]

\* pcap_close and pcap_dump_close: with null handles the process crashes, with closed ones
\* the outcome is undefined.
CloseDumper ==
  \/ /\ dumper # "none"
     /\ dumper' = "closed" /\ UNCHANGED process
  \/ /\ dumper # "open"
     /\ process' = "crashed" /\ UNCHANGED dumper

StartConsumer ==
  /\ consumer = "start"
  /\ \/ /\ OpenFile(0)
        /\ last_rotation' = now
        /\ consumer' = "dequeue"
        /\ UNCHANGED <<endVars, now, setupVars, lcoreVars, mbufVars, ring, m, nb_rotations,
                       nb_dumped_packets>>
     \/ Stop("exited")

\* Mutant of Dequeue: the consumer waits for a whole burst.
DequeueBursts ==
  /\ consumer = "dequeue" /\ Len(ring) >= MAX_PKT_BURST
  /\ m' = <<Head(ring)>> /\ ring' = Tail(ring)
  /\ consumer' = "rotate"
  /\ UNCHANGED <<endVars, now, setupVars, lcoreVars, mbufVars, countVars, fileVars>>

Dequeue ==
  /\ consumer = "dequeue" /\ ring # <<>>
  /\ m' = <<Head(ring)>> /\ ring' = Tail(ring)
  /\ consumer' = "rotate"
  /\ UNCHANGED <<endVars, now, setupVars, lcoreVars, mbufVars, countVars, fileVars>>

\* An unsigned difference: a packet stamped before the last rotation wraps and rotates.
Expired(ts) == ts < last_rotation \/ ts - last_rotation > seconds_rotation

\* Mutant of CheckRotation: the rotation is not counted, and the file name is used again.
CheckRotationUncounted ==
  /\ consumer = "rotate"
  /\ IF seconds_rotation > 0 /\ Expired(m[1].ts)
     THEN last_rotation' = m[1].ts /\ consumer' = "close"
     ELSE consumer' = "dump" /\ UNCHANGED last_rotation
  /\ UNCHANGED <<endVars, now, setupVars, lcoreVars, mbufVars, ring, m, nb_rotations,
                 nb_dumped_packets, fileVars>>

CheckRotation ==
  /\ consumer = "rotate"
  /\ IF seconds_rotation > 0 /\ Expired(m[1].ts)
     THEN /\ last_rotation' = m[1].ts
          /\ nb_rotations' = nb_rotations + 1
          /\ consumer' = IF max_rotations # NoLimit /\ nb_rotations' > max_rotations
                         THEN "limit" ELSE "close"
     ELSE consumer' = "dump" /\ UNCHANGED <<last_rotation, nb_rotations>>
  /\ UNCHANGED <<endVars, now, setupVars, lcoreVars, mbufVars, ring, m, nb_dumped_packets,
                 fileVars>>

CloseFile ==
  /\ consumer = "close"
  /\ CloseDumper
  /\ consumer' = "reopen"
  /\ UNCHANGED <<do_shutdown, handlers, now, setupVars, lcoreVars, mbufVars, ring, m,
                 countVars, files>>

ReopenFile ==
  /\ consumer = "reopen"
  /\ \/ /\ OpenFile(nb_rotations)
        /\ consumer' = "dump"
        /\ UNCHANGED <<endVars, now, setupVars, lcoreVars, mbufVars, ring, m, countVars>>
     \/ Stop("exited")

\* pcap_dump writes the first mbuf of the chain.
Dump ==
  /\ consumer = "dump"
  /\ \/ /\ IF dumper = "open"
           THEN files' = [files EXCEPT ![nb_rotations] = Append(@, m[1].n)]
           ELSE UNCHANGED files                            \* undefined
        /\ nb_dumped_packets' = nb_dumped_packets + 1
        /\ \/ SizeLimit /\ consumer' = "limit"
           \/ consumer' = IF max_packets # 0 /\ nb_dumped_packets' >= max_packets
                          THEN "limit" ELSE "free"
        /\ UNCHANGED <<endVars, now, setupVars, lcoreVars, mbufVars, ring, m, last_rotation,
                       nb_rotations, dumper>>
     \/ dumper # "open" /\ Stop("crashed")

\* Mutant of Free: only the first mbuf of the chain goes back.
FreeFirstSegment ==
  /\ consumer = "free"
  /\ pool' = pool + 1 /\ m' = <<>>
  /\ consumer' = "dequeue"
  /\ UNCHANGED <<endVars, now, setupVars, lcoreVars, unfreed, refused, ring, countVars,
                 fileVars>>

Free ==
  /\ consumer = "free"
  /\ pool' = pool + m[1].segments /\ m' = <<>>
  /\ consumer' = "dequeue"
  /\ UNCHANGED <<endVars, now, setupVars, lcoreVars, unfreed, refused, ring, countVars,
                 fileVars>>

packet_consumer ==
  \/ StartConsumer
  \/ Dequeue
  \/ CheckRotation
  \/ CloseFile
  \/ ReopenFile
  \/ Dump
  \/ Free

(***************************************************************************)
(* sig_handler(SIGINT): h is the run of it that steps.  The handler is     *)
(* installed first thing in main.                                          *)
(***************************************************************************)
EnterHandler(h) ==
  /\ handlers[h] = "idle" /\ (h = "limit" => consumer = "limit")
  /\ do_shutdown' = TRUE
  /\ handlers' = [handlers EXCEPT ![h] = "close"]
  /\ UNCHANGED <<process, now, setupVars, lcoreVars, mbufVars, ring, consumer, m, countVars,
                 fileVars>>

HandlerCloses(h) ==
  /\ handlers[h] = "close"
  /\ CloseDumper
  /\ handlers' = [handlers EXCEPT ![h] = "exit"]
  /\ UNCHANGED <<do_shutdown, now, setupVars, lcoreVars, mbufVars, ring, consumer, m,
                 countVars, files>>

HandlerExits(h) == handlers[h] = "exit" /\ Stop("exited")

sig_handler(h) ==
  \/ EnterHandler(h)
  \/ HandlerCloses(h)
  \/ HandlerExits(h)

Second ==
  /\ now < MaxTime
  /\ now' = now + 1
  /\ UNCHANGED <<endVars, setupVars, lcoreVars, mbufVars, ring, consumer, m, countVars,
                 fileVars>>

Next ==
  \/ Setup
  \/ /\ process \in {"setup", "running"}
     /\ (\E h \in Runs : sig_handler(h)) \/ Second
  \/ /\ process = "running"
     /\ (\E c \in Lcores : packet_producer(c)) \/ packet_consumer

Spec == Init /\ [][Next]_vars

\* The master polls the ring for ever, and a handler that has begun goes on.
Fairness ==
  /\ WF_vars(process = "running" /\ packet_consumer)
  /\ \A h \in Runs :
       WF_vars(process \in {"setup", "running"}
                 /\ (h = "signal" => handlers[h] # "idle") /\ sig_handler(h))

FairSpec == Spec /\ Fairness

(***************************************************************************)
(* Properties.                                                             *)
(***************************************************************************)
\* The variables have their types.
TypeOK ==
  /\ process \in {"setup", "running", "exited", "crashed", "undefined"}
  /\ do_shutdown \in BOOLEAN /\ now \in 0..MaxTime /\ received \in 0..MaxPackets
  /\ handlers \in [Runs -> {"idle", "close", "exit"}]
  /\ enabled \in Masks /\ perLcore \in QueuesPerLcore
  /\ lcore \in [Lcores -> {"off", "poll", "stamp", "enqueue", "accepted", "refused"}]
  /\ burst \in [Lcores -> Seq(Packet)] /\ ring \in Seq(Packet) /\ m \in Seq(Packet)
  /\ pool \in 0..buffer_size /\ unfreed \in 0..buffer_size
  /\ refused \subseteq 1..MaxPackets
  /\ consumer \in {"start", "dequeue", "rotate", "close", "reopen", "dump", "free", "limit"}
  /\ last_rotation \in 0..MaxTime /\ {nb_rotations, nb_dumped_packets} \subseteq Nat
  /\ dumper \in {"none", "open", "closed"}
  /\ dumper = "open" => nb_rotations \in DOMAIN files \/ consumer \in {"close", "limit"}

\* The mbufs of a sequence of packets: of its i-th packet the j-th one.
Mbufs(s) == {x \in (DOMAIN s) \X (1..MaxSegments) : x[2] <= s[x[1]].segments}

Segments(s) == Cardinality(Mbufs(s))
InBursts == Cardinality(UNION {{c} \X Mbufs(burst[c]) : c \in Lcores})

\* No mbuf of a chain is freed twice or forgotten but where the code forgets it, and the
\* unchecked rte_ring_enqueue (main.c:280) forgets one packet in all: the pool has one mbuf
\* more than the ring holds, and after the first loss no longer.
MbufsAccounted ==
  /\ TypeOK
  /\ pool + InBursts + Segments(ring) + Segments(m) + unfreed = buffer_size
  /\ Cardinality(refused) <= 1

\* Where a dumped packet is: the number of its file, and its place there.
Places == UNION {{k} \X DOMAIN files[k] : k \in DOMAIN files}

Before(p, q) ==
  \/ p[1] < q[1]
  \/ p[1] = q[1] /\ p[2] < q[2]

\* Until a shutdown begins, with one lcore polling, the numbered files read one after the
\* other are what was dumped, once each and in the order it was received: rotating, forwards
\* or backwards, neither empties a file nor puts a packet into an older one.
DumpedInOrder ==
  ~do_shutdown /\ Cardinality(Polling) <= 1 =>
    /\ Cardinality(Places) = nb_dumped_packets
    /\ \A p, q \in Places : Before(p, q) => files[p[1]][p[2]] < files[q[1]][q[2]]

\* The ring always has one consumer, and two producers only where two lcores poll: then the
\* process ends or every packet on the ring is taken off it.
RingDrains ==
  \A k \in 1..MaxPackets :
    (\E i \in DOMAIN ring : ring[i].n = k) ~>
      \/ process \in {"exited", "crashed"}
      \/ process = "undefined" /\ Cardinality(Polling) > 1
      \/ \A i \in DOMAIN ring : ring[i].n # k
=============================================================================
