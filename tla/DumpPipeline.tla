---------------------------- MODULE DumpPipeline ----------------------------
(***************************************************************************)
(* The DPDK dumper, src_lat/main_dump.c: one lcore reads packets with      *)
(* libpcap, copies each into an mbuf and puts it on a ring; the other      *)
(* takes mbufs off the ring and dumps them to a pcap file that it rotates, *)
(* closes and renames to "<name>ready" for whoever analyses it.  The copy  *)
(* src_lat/src/main_dump.c is the same program line by line: its mbufs     *)
(* have another size and the suffix is "ready.pcap".                       *)
(*                                                                         *)
(* sig_handler runs for SIGINT on either lcore, and the consumer calls it  *)
(* itself when a limit is reached.  Closing a dumper twice, dumping to a   *)
(* closed one and using the libpcap handle before it exists are undefined: *)
(* the process crashes or carries on.  A copy past the end of an mbuf      *)
(* leaves nothing known: process = "undefined".                            *)
(***************************************************************************)
EXTENDS Integers, Sequences, FiniteSets

CONSTANTS
  PoolSize,          \* mbufs of pktmbuf_pool
  RingSize,          \* buffer_size: the ring holds one packet less
  seconds_rotation,  \* -G, 0 for never
  NoLimit,           \* the -1 of a max_rotations that is not given
  max_rotations,     \* -W, or NoLimit
  max_packets,       \* -c, 0 for no limit
  max_size,          \* -C, 0 for no limit, in bytes
  Sizes,             \* the captured lengths
  HeaderSize,        \* sizeof(pcap_hdr)
  DataRooms,         \* bytes asked for an mbuf: 2048; in the copy the -S plus HEADROOM
  HEADROOM,          \* RTE_PKTMBUF_HEADROOM
  Word,              \* 2^16: what a uint16_t holds
  MaxPackets,        \* bound: packets libpcap delivers
  MaxTime            \* bound: seconds

ASSUME SizeAssumption ==
  /\ {PoolSize, seconds_rotation, max_packets, max_size, MaxPackets, MaxTime} \subseteq Nat
  /\ RingSize \in Nat \ {0} /\ max_rotations \in Nat \cup {NoLimit}
  /\ Sizes \subseteq Nat /\ HeaderSize \in Nat
  /\ DataRooms \subseteq Nat /\ HEADROOM \in Nat /\ Word \in Nat \ {0}

VARIABLES
  process,        \* "running", "exited", "crashed" or "undefined"
  do_shutdown,    \* set by sig_handler
  handlers,       \* sig_handler's runs: by a signal and by the consumer's own call
  now,            \* gettimeofday, in seconds
  producer,       \* the producer lcore
  PcapHdr,        \* the header libpcap last delivered: [n, ts, size]
  clockSetBack,   \* history: a stamp was older than the one before it
  data_room,      \* bytes of every mbuf of pktmbuf_pool
  pool,           \* free mbufs
  filling,        \* the producer's mbuf, <<>> when it has none
  ring,           \* intermediate_ring's packets
  leaked,         \* history: packets whose enqueue failed; nobody frees their mbufs
  consumer,       \* the consumer lcore
  m,              \* the consumer's mbuf, <<>> when it has none
  last_rotation, nb_rotations, nb_dumped_packets, sz_dumped_file,
  file,           \* file_name_rotated: the time in it
  dumper,         \* pcap_file_p: [state, to], to being the file it writes
  files           \* the file system: <<time, renamed>> -> packets

ringVars == <<data_room, pool, ring, leaked>>
producerVars == <<producer, PcapHdr, clockSetBack, filling>>
rotationVars == <<last_rotation, nb_rotations>>
countVars == <<nb_dumped_packets, sz_dumped_file>>
fileVars == <<file, dumper, files>>
consumerVars == <<consumer, m, rotationVars, countVars>>
endVars == <<process, do_shutdown, handlers>>
vars == <<endVars, now, producerVars, ringVars, consumerVars, fileVars>>

Packet == [n : 1..MaxPackets, ts : 0..MaxTime, size : Sizes]
RingCapacity == RingSize - 1
NoPacket == [n |-> 0, ts |-> 0, size |-> 0]

\* The producer's test subtracts the headroom in a uint16_t; a data room no larger than the
\* headroom has no room behind it.
buf_size == (data_room - HEADROOM) % Word
Room == IF data_room > HEADROOM THEN data_room - HEADROOM ELSE 0

Init ==
  /\ process = "running" /\ do_shutdown = FALSE /\ now = 0
  /\ handlers = [h \in {"signal", "limit"} |-> "idle"]
  /\ producer = "start" /\ PcapHdr = NoPacket /\ filling = <<>> /\ clockSetBack = FALSE
  /\ data_room \in {asked % Word : asked \in DataRooms}      \* uint16_t data_room_size
  /\ pool = PoolSize /\ ring = <<>> /\ leaked = {}
  /\ consumer = "start" /\ m = <<>>
  /\ last_rotation = 0 /\ nb_rotations = 0
  /\ nb_dumped_packets = 0 /\ sz_dumped_file = 0
  /\ file = 0 /\ dumper = [state |-> "none", to |-> <<0, FALSE>>] /\ files = <<>>

Stop(how) ==
  /\ process' = how
  /\ UNCHANGED <<do_shutdown, handlers, now, producerVars, ringVars, consumerVars,
                 fileVars>>

(***************************************************************************)
(* The producer lcore.                                                     *)
(***************************************************************************)
PcapStartUp ==
  /\ producer = "start"
  /\ \/ /\ producer' = "next"
        /\ UNCHANGED <<endVars, now, PcapHdr, clockSetBack, filling, ringVars, consumerVars,
                       fileVars>>
     \/ Stop("exited")

\* pcap_next_ex delivers a packet with a stamp of the kernel's clock, which may have been
\* set back, times out or fails.  What is in PcapHdr is looked at before the status: after
\* an oversized packet a timeout and a failure are skipped like the packet itself.
PcapNextEx ==
  /\ producer = "next"
  /\ \/ /\ PcapHdr.n < MaxPackets
        /\ \E ts \in 0..now, size \in Sizes :
             /\ PcapHdr' = [n |-> PcapHdr.n + 1, ts |-> ts, size |-> size]
             /\ clockSetBack' = (clockSetBack \/ ts < PcapHdr.ts)
             /\ producer' = IF size > buf_size THEN "next" ELSE "alloc"
        /\ UNCHANGED <<endVars, now, filling, ringVars, consumerVars, fileVars>>
     \/ PcapHdr.size <= buf_size /\ Stop("exited")

\* The result of rte_pktmbuf_alloc is used unchecked, and the copy takes the whole packet.
Alloc ==
  /\ producer = "alloc"
  /\ \/ /\ pool > 0 /\ PcapHdr.size <= Room
        /\ pool' = pool - 1 /\ filling' = <<PcapHdr>> /\ producer' = "enqueue"
        /\ UNCHANGED <<endVars, now, PcapHdr, clockSetBack, data_room, ring, leaked,
                       consumerVars, fileVars>>
     \/ pool = 0 /\ Stop("crashed")
     \/ pool > 0 /\ PcapHdr.size > Room /\ Stop("undefined")

\* So is that of rte_ring_enqueue.
Enqueue ==
  /\ producer = "enqueue"
  /\ IF Len(ring) < RingCapacity
     THEN ring' = ring \o filling /\ leaked' = leaked
     ELSE leaked' = leaked \cup {filling[1].n} /\ ring' = ring
  /\ filling' = <<>> /\ producer' = "next"
  /\ UNCHANGED <<endVars, now, PcapHdr, clockSetBack, data_room, pool, consumerVars, fileVars>>

(***************************************************************************)
(* The consumer lcore.                                                     *)
(***************************************************************************)
OpenFile(t) ==
  /\ file' = t
  /\ dumper' = [state |-> "open", to |-> <<t, FALSE>>]
  /\ files' = [f \in DOMAIN files \cup {<<t, FALSE>>} |->
                 IF f = <<t, FALSE>> THEN <<>> ELSE files[f]]

\* pcap_close(pd) and pcap_dump_close(pcap_file_p): with null handles the process crashes,
\* with closed ones the outcome is undefined.
CloseDumper ==
  \/ /\ dumper.state # "none"
     /\ dumper' = [dumper EXCEPT !.state = "closed"]
     /\ UNCHANGED process
  \/ /\ dumper.state # "open"
     /\ process' = "crashed" /\ UNCHANGED dumper

\* rename replaces what had the new name; it fails when the old name is gone.  A dumper
\* that is open goes on writing the file it has.
Rename ==
  LET from == <<file, FALSE>>
      ready == <<file, TRUE>>
  IN  IF from \in DOMAIN files
      THEN /\ files' = [f \in (DOMAIN files \ {from}) \cup {ready} |->
                          IF f = ready THEN files[from] ELSE files[f]]
           /\ dumper' = [dumper EXCEPT !.to = IF @ = from THEN ready ELSE @]
      ELSE UNCHANGED <<files, dumper>>

StartConsumer ==
  /\ consumer = "start"
  /\ \/ /\ last_rotation' = now
        /\ OpenFile(now)
        /\ consumer' = "dequeue"
        /\ UNCHANGED <<endVars, now, producerVars, ringVars, m, nb_rotations, countVars>>
     \/ Stop("exited")

Dequeue ==
  /\ consumer = "dequeue" /\ ring # <<>>
  /\ m' = <<Head(ring)>> /\ ring' = Tail(ring)
  /\ consumer' = "rotate"
  /\ UNCHANGED <<endVars, now, producerVars, data_room, pool, leaked, rotationVars,
                 countVars, fileVars>>

\* t_pack.tv_sec - last_rotation > seconds_rotation in uint64_t: a packet stamped before
\* the last rotation makes the difference wrap, and rotates.
Expired(ts) == ts < last_rotation \/ ts - last_rotation > seconds_rotation

\* Mutant of CheckRotation: a packet older than the file is skipped, and its mbuf kept.
CheckRotationSkips ==
  /\ consumer = "rotate"
  /\ IF m[1].ts < last_rotation
     THEN m' = <<>> /\ consumer' = "dequeue"
     ELSE consumer' = "dump" /\ m' = m
  /\ UNCHANGED <<endVars, now, producerVars, ringVars, rotationVars, countVars, fileVars>>

CheckRotation ==
  /\ consumer = "rotate"
  /\ IF seconds_rotation > 0 /\ Expired(m[1].ts)
     THEN /\ last_rotation' = m[1].ts
          /\ nb_rotations' = nb_rotations + 1
          /\ consumer' = IF max_rotations # NoLimit /\ nb_rotations + 1 > max_rotations
                         THEN "limit" ELSE "close"
     ELSE /\ consumer' = "dump" /\ UNCHANGED rotationVars
  /\ UNCHANGED <<endVars, now, producerVars, ringVars, m, countVars, fileVars>>

CloseFile ==
  /\ consumer = "close"
  /\ CloseDumper
  /\ consumer' = "rename"
  /\ UNCHANGED <<do_shutdown, handlers, now, producerVars, ringVars, m, rotationVars,
                 countVars, file, files>>

RenameFile ==
  /\ consumer = "rename"
  /\ Rename
  /\ consumer' = "reopen"
  /\ UNCHANGED <<endVars, now, producerVars, ringVars, m, rotationVars, countVars, file>>

\* Mutant of ReopenFile: the new file gets the old one's name.
ReopenFileSameName ==
  /\ consumer = "reopen"
  /\ OpenFile(file)
  /\ consumer' = "dump"
  /\ UNCHANGED <<endVars, now, producerVars, ringVars, m, rotationVars, countVars>>

ReopenFile ==
  /\ consumer = "reopen"
  /\ \/ /\ OpenFile(last_rotation)
        /\ consumer' = "dump"
        /\ UNCHANGED <<endVars, now, producerVars, ringVars, m, rotationVars, countVars>>
     \/ Stop("exited")

\* Mutant of LimitReached: the limit itself does not count.
LimitPassed ==
  \/ max_size # 0 /\ sz_dumped_file' > max_size
  \/ max_packets # 0 /\ nb_dumped_packets' > max_packets

LimitReached ==
  \/ max_size # 0 /\ sz_dumped_file' >= max_size
  \/ max_packets # 0 /\ nb_dumped_packets' >= max_packets

Dump ==
  /\ consumer = "dump"
  /\ \/ /\ \/ /\ dumper.state = "open"
              /\ files' = [files EXCEPT ![dumper.to] = @ \o m]
           \/ dumper.state # "open" /\ UNCHANGED files    \* undefined
        /\ nb_dumped_packets' = nb_dumped_packets + 1
        /\ sz_dumped_file' = sz_dumped_file + m[1].size + HeaderSize
        /\ consumer' = IF LimitReached THEN "limit" ELSE "free"
        /\ UNCHANGED <<endVars, now, producerVars, ringVars, m, rotationVars, file, dumper>>
     \/ dumper.state # "open" /\ Stop("crashed")

Free ==
  /\ consumer = "free"
  /\ pool' = pool + 1 /\ m' = <<>> /\ consumer' = "dequeue"
  /\ UNCHANGED <<endVars, now, producerVars, data_room, ring, leaked, rotationVars,
                 countVars, fileVars>>

(***************************************************************************)
(* sig_handler(SIGINT): h is the run of it that steps.  The consumer does  *)
(* not come back from its own call.  print_stats, which alarm_routine also *)
(* calls, may end the process; it dereferences a null handle until         *)
(* PcapStartUp has created one.                                            *)
(***************************************************************************)
PrintStatsFails ==
  \/ Stop("exited")
  \/ producer = "start" /\ Stop("crashed")

Alarm == ~do_shutdown /\ PrintStatsFails

EnterHandler(h) ==
  /\ handlers[h] = "idle" /\ (h = "limit" => consumer = "limit")
  /\ do_shutdown' = TRUE
  /\ handlers' = [handlers EXCEPT ![h] = "stats"]
  /\ UNCHANGED <<process, now, producerVars, ringVars, consumerVars, fileVars>>

PrintStats(h) ==
  /\ handlers[h] = "stats"
  /\ \/ /\ producer # "start"
        /\ handlers' = [handlers EXCEPT ![h] = "close"]
        /\ UNCHANGED <<process, do_shutdown, now, producerVars, ringVars, consumerVars,
                       fileVars>>
     \/ PrintStatsFails

HandlerCloses(h) ==
  /\ handlers[h] = "close"
  /\ CloseDumper
  /\ handlers' = [handlers EXCEPT ![h] = "rename"]
  /\ UNCHANGED <<do_shutdown, now, producerVars, ringVars, consumerVars, file, files>>

HandlerRenames(h) ==
  /\ handlers[h] = "rename"
  /\ Rename
  /\ handlers' = [handlers EXCEPT ![h] = "exit"]
  /\ UNCHANGED <<process, do_shutdown, now, producerVars, ringVars, consumerVars, file>>

HandlerExits(h) == handlers[h] = "exit" /\ Stop("exited")

sig_handler(h) ==
  \/ EnterHandler(h)
  \/ PrintStats(h)
  \/ HandlerCloses(h)
  \/ HandlerRenames(h)
  \/ HandlerExits(h)

Second ==
  /\ now < MaxTime
  /\ now' = now + 1
  /\ UNCHANGED <<endVars, producerVars, ringVars, consumerVars, fileVars>>

packet_producer ==
  \/ PcapStartUp
  \/ PcapNextEx
  \/ Alloc
  \/ Enqueue

packet_consumer ==
  \/ StartConsumer
  \/ Dequeue
  \/ CheckRotation
  \/ CloseFile
  \/ RenameFile
  \/ ReopenFile
  \/ Dump
  \/ Free

Next ==
  /\ process = "running"
  /\ \/ packet_producer
     \/ packet_consumer
     \/ \E h \in {"signal", "limit"} : sig_handler(h)
     \/ Alarm
     \/ Second

Spec == Init /\ [][Next]_vars

(***************************************************************************)
(* Properties.                                                             *)
(***************************************************************************)
\* The variables have their types.
TypeOK ==
  /\ process \in {"running", "exited", "crashed", "undefined"} /\ do_shutdown \in BOOLEAN
  /\ handlers \in [{"signal", "limit"} -> {"idle", "stats", "close", "rename", "exit"}]
  /\ now \in 0..MaxTime
  /\ producer \in {"start", "next", "alloc", "enqueue"}
  /\ PcapHdr \in Packet \cup {NoPacket} /\ clockSetBack \in BOOLEAN
  /\ data_room \in Nat /\ pool \in 0..PoolSize /\ leaked \subseteq 1..MaxPackets
  /\ \A s \in {filling, ring, m} : s \in Seq(Packet)
  /\ consumer \in {"start", "dequeue", "rotate", "close", "rename", "reopen", "dump",
                   "free", "limit"}
  /\ {last_rotation, file} \subseteq 0..MaxTime
  /\ {nb_rotations, nb_dumped_packets, sz_dumped_file} \subseteq Nat
  /\ DOMAIN files \subseteq (0..MaxTime) \X BOOLEAN
  /\ dumper.state \in {"none", "open", "closed"}
  /\ dumper.state # "none" => dumper.to \in DOMAIN files

Numbers(s) == {s[i].n : i \in DOMAIN s}
Increasing(s) == \A i, j \in DOMAIN s : i < j => s[i].n < s[j].n
Before(s, t) == \A i \in DOMAIN s, j \in DOMAIN t : s[i].n < t[j].n
Stored == UNION {Numbers(files[f]) : f \in DOMAIN files}

\* As long as every packet so far fits its mbuf, every mbuf is free, in one lcore's hands,
\* on the ring, or lost to a full ring: no path through the consumer's loop, with or without
\* a rotation, keeps or frees one twice.  With a pool no larger than what the ring holds, as
\* by default (main_dump.c:64 and 113), none is lost: ignoring the result of
\* rte_ring_enqueue then costs nothing.
MbufsAccounted ==
  /\ TypeOK
  /\ pool + Len(filling) + Len(ring) + Len(m) + Cardinality(leaked) = PoolSize
  /\ PoolSize <= RingCapacity => leaked = {}

\* Until a shutdown begins, and unless the clock that stamps the packets is set back, every
\* dumped packet is in one file, in capture order: a rotation never truncates or replaces a
\* file with packets, even when packets older than the file the consumer began with make it
\* rotate backwards and use a name again.  (After the clock is set back the consumer may
\* open a name it has used and the rename may replace a finished file.)
DumpedInOrder ==
  ~do_shutdown /\ ~clockSetBack =>
    /\ Cardinality(Stored) = nb_dumped_packets
    /\ \A f, g \in DOMAIN files :
         /\ Increasing(files[f])
         /\ f[1] < g[1] => Before(files[f], files[g])

\* Until a shutdown begins, and unless the clock that stamps the packets is set back, a file
\* with packets that was handed over under its "ready" name is final.
ReadyIsFinal ==
  [][~do_shutdown' /\ ~clockSetBack' =>
       \A f \in DOMAIN files : f[2] /\ files[f] # <<>> =>
         f \in DOMAIN files' /\ files'[f] = files[f]]_vars

\* "Max number of packets to save" and "Max rotations done" (main_dump.c:494 and 500): as long
\* as every packet so far fits its mbuf the limits hold, however long the consumer's own call
\* of sig_handler takes to end the process.
LimitsHold ==
  /\ max_packets # 0 => Cardinality(Stored) <= max_packets
  /\ max_rotations # NoLimit => Cardinality(DOMAIN files) <= max_rotations + 1
=============================================================================
