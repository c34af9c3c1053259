------------------------- MODULE NumberedDumpProofs -------------------------
(***************************************************************************)
(* What holds of the numbered dumpers for every pool, every limit and      *)
(* every number of packets.  MbufsAccounted is inductive as it stands: the *)
(* conjunct Hands says in which steps of a lcore it has an mbuf, and the   *)
(* sum then leaves room on the ring for the one being enqueued.            *)
(***************************************************************************)
EXTENDS NumberedDump, TLAPS, SequenceTheorems, FiniteSetTheorems

\* The initial states: everything is in the pool.
LEMMA InitAccounted == Init => MbufsAccounted
<1> SUFFICES ASSUME Init PROVE MbufsAccounted
    OBVIOUS
<1>1. TypeOK
  <2>1. pool \in Nat /\ lost \in Nat /\ now \in 0..MaxTime
    BY NumberedAssumption DEF NumberedAssumption, Init, PoolSize
  <2>2. filling \in Seq(Packet) /\ ring \in Seq(Packet) /\ m \in Seq(Packet)
    BY DEF Init
  <2>3. handlers \in [Handlers -> {"idle", "stats", "close", "exit"}]
    BY DEF Init
  <2> QED
    BY <2>1, <2>2, <2>3 DEF Init, TypeOK
<1>2. Hands
  BY DEF Init, Hands
<1>3. pool + Len(filling) + Len(ring) + Len(m) = PoolSize /\ lost = 0
  BY NumberedAssumption DEF NumberedAssumption, Init, PoolSize
<1> QED
  BY <1>1, <1>2, <1>3 DEF MbufsAccounted

\* A step that ends the process moves nothing.
LEMMA StopAccounted ==
    ASSUME MbufsAccounted, NEW how \in {"exited", "crashed", "undefined"}, Stop(how)
    PROVE  MbufsAccounted'
<1>1. TypeOK'
  BY DEF MbufsAccounted, TypeOK, Stop, options, producerVars, ringVars, consumerVars,
         rotationVars, countVars, fileVars
<1>2. Hands'
  BY DEF MbufsAccounted, Hands, Stop, producerVars, ringVars, consumerVars
<1>3. (pool + Len(filling) + Len(ring) + Len(m) = PoolSize)' /\ lost' = 0
  BY DEF MbufsAccounted, Stop, producerVars, ringVars, consumerVars
<1> QED
  BY <1>1, <1>2, <1>3 DEF MbufsAccounted

\* The producer lcore: an mbuf goes from the pool into its hands and on to the
\* ring, which has a place for it as long as the sum is right.
LEMMA ProducerAccounted ==
    ASSUME MbufsAccounted, main_loop_producer
    PROVE  MbufsAccounted'
<1> USE DEF MbufsAccounted
<1> USE DEF options, endVars, ringVars, consumerVars, rotationVars, countVars, fileVars
<1>1. CASE PcapStartUp
  <2>1. CASE \E how \in {"exited", "crashed", "undefined"} : Stop(how)
    BY <2>1, StopAccounted
  <2>2. CASE producer' = "next" /\ UNCHANGED <<options, endVars, now, PcapHdr,
                filling, ringVars, consumerVars, fileVars>>
    <3>1. TypeOK'
      BY <2>2 DEF TypeOK
    <3>2. Hands'
      BY <1>1, <2>2 DEF Hands, PcapStartUp
    <3> QED
      BY <2>2, <3>1, <3>2 DEF PoolSize
  <2> QED
    BY <1>1, <2>1, <2>2 DEF PcapStartUp
<1>2. CASE PcapNextEx
  <2>1. PcapHdr' \in Packet /\ producer' \in {"next", "alloc"}
    <3>1. PICK ts \in 0..now, size \in Captured :
            /\ PcapHdr' = [n |-> PcapHdr.n + 1, ts |-> ts, size |-> size]
            /\ producer' = IF size > buf_size THEN "next" ELSE "alloc"
      BY <1>2 DEF PcapNextEx
    <3>2. ts \in 0..MaxTime /\ size \in Sizes
      BY NumberedAssumption DEF TypeOK, Captured, NumberedAssumption
    <3>3. PcapHdr.n + 1 \in 1..MaxPackets
      BY <1>2, NumberedAssumption DEF PcapNextEx, TypeOK, Packet, NoPacket, NumberedAssumption
    <3> QED
      BY <3>1, <3>2, <3>3 DEF Packet
  <2>2. UNCHANGED <<options, endVars, now, filling, ringVars, consumerVars, fileVars>>
    BY <1>2 DEF PcapNextEx
  <2>3. TypeOK'
    BY <2>1, <2>2 DEF TypeOK
  <2>4. Hands'
    BY <1>2, <2>1, <2>2 DEF Hands, PcapNextEx
  <2> QED
    BY <2>2, <2>3, <2>4 DEF PoolSize
<1>3. CASE PcapFails
  BY <1>3, StopAccounted DEF PcapFails
<1>4. CASE Alloc
  <2>1. CASE /\ pool > 0 /\ pool' = pool - 1 /\ filling' = <<PcapHdr>>
             /\ producer' = "enqueue"
             /\ UNCHANGED <<options, endVars, now, PcapHdr, ring, lost, consumerVars, fileVars>>
    <3>1. /\ pool' = pool - 1 /\ filling' = <<PcapHdr>> /\ producer' = "enqueue"
          /\ UNCHANGED <<options, endVars, now, PcapHdr, ring, lost, consumerVars, fileVars>>
      BY <2>1
    <3>2. PcapHdr \in Packet /\ Len(filling) = 0
      BY <1>4 DEF Alloc, Hands
    <3>3. filling' \in Seq(Packet) /\ Len(filling') = 1
      BY <3>1, <3>2
    <3>4. TypeOK'
      BY <2>1, <3>1, <3>3 DEF TypeOK
    <3>5. Hands'
      BY <3>1, <3>3 DEF Hands
    <3>6. Len(ring) \in Nat /\ Len(m) \in Nat /\ pool \in Nat
      BY DEF TypeOK
    <3>7. (pool + Len(filling) + Len(ring) + Len(m))' = pool + Len(filling) + Len(ring) + Len(m)
      BY <3>1, <3>2, <3>3, <3>6
    <3> QED
      BY <3>1, <3>4, <3>5, <3>7 DEF PoolSize
  <2>2. CASE \E how \in {"crashed", "undefined"} : Stop(how)
    BY <2>2, StopAccounted
  <2> QED
    BY <1>4, <2>1, <2>2 DEF Alloc
<1>5. CASE Enqueue
  <2>1. Len(filling) = 1 /\ filling[1] \in Packet
    <3>1. Len(filling) = 1
      BY <1>5 DEF Enqueue, Hands
    <3>2. filling \in Seq(Packet)
      BY DEF TypeOK
    <3> QED
      BY <3>1, <3>2, ElementOfSeq
  <2>2. Len(ring) \in Nat /\ Len(m) \in Nat /\ pool \in Nat
    BY DEF TypeOK
  <2>3. Len(ring) < RingCapacity
    BY <2>1, <2>2, NumberedAssumption DEF NumberedAssumption, PoolSize, RingCapacity
  <2>4. /\ ring' = Append(ring, filling[1]) /\ filling' = <<>> /\ producer' = "next"
        /\ UNCHANGED <<options, endVars, now, PcapHdr, pool, lost, consumerVars, fileVars>>
    BY <1>5, <2>3 DEF Enqueue
  <2>5. ring' \in Seq(Packet) /\ Len(ring') = Len(ring) + 1
    BY <2>1, <2>4 DEF TypeOK
  <2>6. filling' \in Seq(Packet) /\ Len(filling') = 0
    BY <2>4
  <2>7. TypeOK'
    BY <2>4, <2>5, <2>6 DEF TypeOK
  <2>8. Hands'
    BY <2>4, <2>6 DEF Hands
  <2>9. (pool + Len(filling) + Len(ring) + Len(m))' = pool + Len(filling) + Len(ring) + Len(m)
    BY <2>1, <2>2, <2>4, <2>5, <2>6
  <2> QED
    BY <2>4, <2>7, <2>8, <2>9 DEF PoolSize
<1> QED
  BY <1>1, <1>2, <1>3, <1>4, <1>5 DEF main_loop_producer

\* Past its dequeue the consumer holds a packet.
LEMMA ConsumersPacket ==
    ASSUME MbufsAccounted, consumer \notin {"start", "dequeue"}
    PROVE  Len(m) = 1 /\ m[1] \in Packet
<1>1. Len(m) = 1 /\ m \in Seq(Packet)
  BY DEF MbufsAccounted, Hands, TypeOK
<1> QED
  BY <1>1, ElementOfSeq

\* The consumer lcore: the mbuf comes off the ring and goes back to the pool,
\* whichever way the loop takes meanwhile.
LEMMA ConsumerAccounted ==
    ASSUME MbufsAccounted, main_loop_consumer
    PROVE  MbufsAccounted'
<1> USE DEF MbufsAccounted
<1> USE DEF options, endVars, producerVars, ringVars, rotationVars, countVars, fileVars
<1>0. Len(filling) \in Nat /\ Len(ring) \in Nat /\ Len(m) \in Nat /\ pool \in Nat
  BY DEF TypeOK
<1>1. CASE StartConsumer
  <2>1. CASE Stop("exited")
    BY <2>1, StopAccounted
  <2>2. CASE /\ OpenFile(0) /\ last_rotation' = now /\ consumer' = "dequeue"
             /\ UNCHANGED <<options, endVars, now, producerVars, ringVars, m,
                            nb_rotations, countVars>>
    <3>1. TypeOK'
      <4>1. now \in Nat
        BY NumberedAssumption DEF NumberedAssumption, TypeOK
      <4> QED
        BY <2>2, <4>1 DEF TypeOK, OpenFile
    <3>2. Hands'
      BY <1>1, <2>2 DEF Hands, StartConsumer
    <3> QED
      BY <2>2, <3>1, <3>2 DEF PoolSize
  <2> QED
    BY <1>1, <2>1, <2>2 DEF StartConsumer
<1>2. CASE Dequeue
  <2>1. /\ m' = <<Head(ring)>> /\ ring' = Tail(ring) /\ consumer' = "rotate" /\ ring # <<>>
        /\ UNCHANGED <<options, endVars, now, producerVars, pool, lost,
                       rotationVars, countVars, fileVars>>
    BY <1>2 DEF Dequeue
  <2>2. Head(ring) \in Packet /\ Tail(ring) \in Seq(Packet) /\ Len(Tail(ring)) = Len(ring) - 1
    BY <2>1, HeadTailProperties DEF TypeOK
  <2>3. m' \in Seq(Packet) /\ Len(m') = 1 /\ Len(m) = 0
    BY <1>2, <2>1, <2>2 DEF Dequeue, Hands
  <2>4. TypeOK'
    BY <2>1, <2>2, <2>3 DEF TypeOK
  <2>5. Hands'
    BY <2>1, <2>3 DEF Hands
  <2>6. (pool + Len(filling) + Len(ring) + Len(m))' = pool + Len(filling) + Len(ring) + Len(m)
    BY <1>0, <2>1, <2>2, <2>3
  <2> QED
    BY <2>1, <2>4, <2>5, <2>6 DEF PoolSize
<1>3. CASE CheckRotation
  <2>1. m[1].ts \in Nat
    BY <1>3, ConsumersPacket, NumberedAssumption DEF CheckRotation, Packet, NumberedAssumption
  <2>2. /\ consumer' \in {"limit", "close", "dump"} /\ consumer = "rotate"
        /\ last_rotation' \in Nat /\ nb_rotations' \in Nat
        /\ UNCHANGED <<options, endVars, now, producerVars, ringVars, m, countVars, fileVars>>
    BY <1>3, <2>1 DEF CheckRotation, TypeOK
  <2>3. TypeOK'
    BY <2>2 DEF TypeOK
  <2>4. Hands'
    BY <2>2 DEF Hands
  <2> QED
    BY <2>2, <2>3, <2>4 DEF PoolSize
<1>4. CASE CloseFile
  <2>1. /\ consumer = "close" /\ consumer' = "reopen"
        /\ dumper' \in {"none", "open", "closed"} /\ process' \in {"running", "exited", "crashed", "undefined"}
        /\ UNCHANGED <<options, do_shutdown, handlers, now, producerVars, ringVars,
                       m, rotationVars, countVars, current, files>>
    BY <1>4 DEF CloseFile, CloseDumper, TypeOK
  <2>2. TypeOK'
    BY <2>1 DEF TypeOK
  <2>3. Hands'
    BY <2>1 DEF Hands
  <2> QED
    BY <2>1, <2>2, <2>3 DEF PoolSize
<1>5. CASE ReopenFile
  <2>1. CASE Stop("exited")
    BY <2>1, StopAccounted
  <2>2. CASE /\ OpenFile(nb_rotations) /\ consumer' = "dump"
             /\ UNCHANGED <<options, endVars, now, producerVars, ringVars, m,
                            rotationVars, countVars>>
    <3>1. TypeOK'
      BY <2>2 DEF TypeOK, OpenFile
    <3>2. Hands'
      BY <1>5, <2>2 DEF Hands, ReopenFile
    <3> QED
      BY <2>2, <3>1, <3>2 DEF PoolSize
  <2> QED
    BY <1>5, <2>1, <2>2 DEF ReopenFile
<1>6. CASE Dump
  <2>1. CASE dumper # "open" /\ Stop("crashed")
    BY <2>1, StopAccounted
  <2>2. CASE ~(dumper # "open" /\ Stop("crashed"))
    <3>1. m[1].size \in Nat /\ HeaderSize \in Nat
      BY <1>6, ConsumersPacket, NumberedAssumption DEF Dump, Packet, NumberedAssumption
    <3>2. /\ consumer = "dump" /\ consumer' \in {"limit", "free"}
          /\ nb_dumped_packets' \in Nat /\ sz_dumped_file' \in Nat
          /\ UNCHANGED <<options, endVars, now, producerVars, ringVars, m,
                         rotationVars, dumper, current>>
      <4>1. nb_dumped_packets + 1 \in Nat /\ sz_dumped_file + m[1].size + HeaderSize \in Nat
        BY <3>1 DEF TypeOK
      <4>2. /\ consumer = "dump" /\ consumer' = IF LimitReached THEN "limit" ELSE "free"
            /\ nb_dumped_packets' = nb_dumped_packets + 1
            /\ sz_dumped_file' = sz_dumped_file + m[1].size + HeaderSize
            /\ UNCHANGED <<options, endVars, now, producerVars, ringVars, m,
                           rotationVars, dumper, current>>
        BY <1>6, <2>2 DEF Dump
      <4> QED
        BY <4>1, <4>2
    <3>3. TypeOK'
      BY <3>2 DEF TypeOK
    <3>4. Hands'
      BY <3>2 DEF Hands
    <3> QED
      BY <3>2, <3>3, <3>4 DEF PoolSize
  <2> QED
    BY <2>1, <2>2
<1>7. CASE Free
  <2>1. /\ consumer = "free" /\ consumer' = "dequeue" /\ pool' = pool + 1 /\ m' = <<>>
        /\ UNCHANGED <<options, endVars, now, producerVars, ring, lost,
                       rotationVars, countVars, fileVars>>
    BY <1>7 DEF Free
  <2>2. m' \in Seq(Packet) /\ Len(m') = 0 /\ Len(m) = 1
    BY <2>1 DEF Hands
  <2>3. TypeOK'
    BY <2>1, <2>2 DEF TypeOK
  <2>4. Hands'
    BY <2>1 DEF Hands
  <2>5. (pool + Len(filling) + Len(ring) + Len(m))' = pool + Len(filling) + Len(ring) + Len(m)
    BY <1>0, <2>1, <2>2
  <2> QED
    BY <2>1, <2>3, <2>4, <2>5 DEF PoolSize
<1> QED
  BY <1>1, <1>2, <1>3, <1>4, <1>5, <1>6, <1>7 DEF main_loop_consumer

\* Signals and the clock touch no mbuf.
LEMMA SignalAccounted ==
    ASSUME MbufsAccounted, NEW h \in Handlers, sig_handler(h)
    PROVE  MbufsAccounted'
<1> USE DEF MbufsAccounted
<1>1. CASE PrintStatsFails \/ HandlerExits(h)
  BY <1>1, StopAccounted DEF PrintStatsFails, HandlerExits
<1>2. CASE ~(PrintStatsFails \/ HandlerExits(h))
  <2>1. UNCHANGED <<options, now, producerVars, ringVars, consumerVars>>
    BY <1>2 DEF sig_handler, EnterHandler, PrintStats, HandlerCloses, fileVars
  <2>2. /\ do_shutdown' \in BOOLEAN /\ dumper' \in {"none", "open", "closed"} /\ current' \in Nat
        /\ process' \in {"running", "exited", "crashed", "undefined"}
    BY <1>2 DEF sig_handler, EnterHandler, PrintStats, HandlerCloses, CloseDumper, fileVars, TypeOK
  <2>3. handlers' \in [Handlers -> {"idle", "stats", "close", "exit"}]
    BY <1>2 DEF sig_handler, EnterHandler, PrintStats, HandlerCloses, TypeOK
  <2>4. TypeOK'
    BY <2>1, <2>2, <2>3
       DEF TypeOK, options, producerVars, ringVars, consumerVars, rotationVars, countVars
  <2>5. Hands' /\ UNCHANGED <<pool, filling, ring, m, lost>>
    BY <2>1 DEF Hands, producerVars, ringVars, consumerVars
  <2> QED
    BY <2>4, <2>5 DEF PoolSize
<1> QED
  BY <1>1, <1>2

LEMMA StepAccounted == MbufsAccounted /\ [Next]_vars => MbufsAccounted'
<1> SUFFICES ASSUME MbufsAccounted, [Next]_vars PROVE MbufsAccounted'
  OBVIOUS
<1>1. CASE main_loop_producer
  BY <1>1, ProducerAccounted
<1>2. CASE main_loop_consumer
  BY <1>2, ConsumerAccounted
<1>3. CASE \E h \in Handlers : sig_handler(h)
  BY <1>3, SignalAccounted
<1>4. CASE alarm_routine \/ SecondProducer
  BY <1>4, StopAccounted DEF alarm_routine, PrintStatsFails, SecondProducer
<1>5. CASE Second
  <2>1. now' \in 0..MaxTime
    BY <1>5, NumberedAssumption DEF Second, MbufsAccounted, TypeOK, NumberedAssumption
  <2>2. UNCHANGED <<options, endVars, producerVars, ringVars, consumerVars, fileVars>>
    BY <1>5 DEF Second
  <2>3. TypeOK'
    BY <2>1, <2>2 DEF MbufsAccounted, TypeOK, options, endVars, producerVars, ringVars,
                      consumerVars, rotationVars, countVars, fileVars
  <2>4. Hands' /\ UNCHANGED <<pool, filling, ring, m, lost>>
    BY <2>2 DEF MbufsAccounted, Hands, producerVars, ringVars, consumerVars
  <2> QED
    BY <2>3, <2>4 DEF MbufsAccounted, PoolSize
<1>6. CASE UNCHANGED vars
  <2>1. UNCHANGED <<options, endVars, now, producerVars, ringVars, consumerVars, fileVars>>
    BY <1>6 DEF vars
  <2>2. TypeOK'
    BY <2>1 DEF MbufsAccounted, TypeOK, options, endVars, producerVars, ringVars,
                consumerVars, rotationVars, countVars, fileVars
  <2>3. Hands' /\ UNCHANGED <<pool, filling, ring, m, lost>>
    BY <2>1 DEF MbufsAccounted, Hands, producerVars, ringVars, consumerVars
  <2> QED
    BY <2>2, <2>3 DEF MbufsAccounted, PoolSize
<1> QED
  BY <1>1, <1>2, <1>3, <1>4, <1>5, <1>6 DEF Next

\* As long as one lcore produces and every packet so far fits its mbuf: for every
\* buffer_size no mbuf is freed twice or forgotten, and the ring refuses none
\* (src/main_dump.c:113-120 and 193).
THEOREM MbufsCorrect == Spec => []MbufsAccounted
BY InitAccounted, StepAccounted, PTL DEF Spec

-----------------------------------------------------------------------------
(* The limits.  What is dumped is bounded by nb_dumped_packets and the     *)
(* files by nb_rotations, and the consumer does not go on at a limit.      *)

FilesInv ==
    /\ DOMAIN files \subseteq 0..nb_rotations
    /\ \A f \in DOMAIN files : files[f] \in Seq(Packet)
    /\ dumper = "open" => current \in DOMAIN files
    /\ IsFiniteSet(Dumped) /\ Cardinality(Dumped) <= nb_dumped_packets

AtLimits ==
    /\ max_packets # 0 => /\ nb_dumped_packets <= max_packets
                          /\ nb_dumped_packets < max_packets \/ consumer = "limit"
    /\ max_rotations # NoLimit => /\ DOMAIN files \subseteq 0..max_rotations
                                  /\ nb_rotations <= max_rotations \/ consumer = "limit"

LimitInv == FilesInv /\ AtLimits

LEMMA InitLimits == Init => LimitInv
<1> SUFFICES ASSUME Init PROVE LimitInv
  OBVIOUS
<1>1. DOMAIN files = {} /\ Dumped = {}
  BY DEF Init, Dumped
<1>2. IsFiniteSet(Dumped) /\ Cardinality(Dumped) = 0
  BY <1>1, FS_EmptySet
<1>3. nb_dumped_packets = 0 /\ nb_rotations = 0 /\ dumper = "none"
  BY DEF Init
<1>4. max_packets \in Nat /\ (max_rotations # NoLimit => max_rotations \in Nat)
  BY NumberedAssumption DEF NumberedAssumption
<1>5. FilesInv
  BY <1>1, <1>2, <1>3 DEF FilesInv
<1>6. AtLimits
  BY <1>1, <1>3, <1>4 DEF AtLimits
<1> QED
  BY <1>5, <1>6 DEF LimitInv

\* Whoever writes no file and counts nothing keeps the limits.
LEMMA LimitsKept ==
    ASSUME LimitInv, UNCHANGED <<nb_rotations, nb_dumped_packets, files, current>>,
           dumper' \in {dumper, "closed"}, consumer = "limit" => consumer' = "limit"
    PROVE  LimitInv'
<1>1. Dumped' = Dumped
  BY DEF Dumped, Numbers
<1> QED
  BY <1>1 DEF LimitInv, FilesInv, AtLimits

\* Opening a file adds its number and no packet.
LEMMA OpenLimits ==
    ASSUME MbufsAccounted, LimitInv, NEW number \in 0..nb_rotations, OpenFile(number),
           UNCHANGED <<nb_rotations, nb_dumped_packets>>,
           consumer # "limit"
    PROVE  LimitInv'
<1>0. nb_rotations \in Nat /\ nb_dumped_packets \in Nat
  BY DEF MbufsAccounted, TypeOK
<1>1. /\ DOMAIN files' = DOMAIN files \cup {number} /\ current' = number
      /\ \A f \in DOMAIN files' : files'[f] = IF f = number THEN <<>> ELSE files[f]
  BY DEF OpenFile
<1>2. Dumped' \subseteq Dumped
  <2> SUFFICES ASSUME NEW x \in Dumped' PROVE x \in Dumped
    OBVIOUS
  <2>1. PICK f \in DOMAIN files' : x \in Numbers(files'[f])
    BY DEF Dumped, Numbers
  <2>2. f # number /\ f \in DOMAIN files /\ files'[f] = files[f]
    BY <1>1, <2>1 DEF Numbers
  <2> QED
    BY <2>1, <2>2 DEF Dumped
<1>3. IsFiniteSet(Dumped') /\ Cardinality(Dumped') <= Cardinality(Dumped)
  BY <1>2, FS_Subset DEF LimitInv, FilesInv
<1>4. Cardinality(Dumped') \in Nat /\ Cardinality(Dumped) \in Nat
  BY <1>3, FS_CardinalityType DEF LimitInv, FilesInv
<1>5. FilesInv'
  <2>1. (\A f \in DOMAIN files : files[f] \in Seq(Packet))'
    <3>1. <<>> \in Seq(Packet)
      OBVIOUS
    <3> QED
      BY <1>1, <3>1 DEF LimitInv, FilesInv
  <2>2. (DOMAIN files \subseteq 0..nb_rotations)' /\ current' \in DOMAIN files'
    BY <1>1 DEF LimitInv, FilesInv
  <2>3. Cardinality(Dumped') <= nb_dumped_packets'
    BY <1>0, <1>3, <1>4 DEF LimitInv, FilesInv
  <2> QED
    BY <1>3, <2>1, <2>2, <2>3 DEF FilesInv
<1>6. AtLimits'
  <2>1. ASSUME max_rotations # NoLimit PROVE /\ DOMAIN files' \subseteq 0..max_rotations
                                             /\ nb_rotations' <= max_rotations
    <3>1. max_rotations \in Nat /\ nb_rotations <= max_rotations
      BY <2>1, NumberedAssumption DEF NumberedAssumption, LimitInv, AtLimits
    <3> QED
      BY <1>0, <1>1, <2>1, <3>1 DEF LimitInv, AtLimits
  <2> QED
    BY <2>1 DEF LimitInv, AtLimits
<1> QED
  BY <1>5, <1>6 DEF LimitInv

\* A packet more is dumped and counted, and at the limit the consumer leaves
\* its loop.
LEMMA DumpLimits ==
    ASSUME MbufsAccounted, LimitInv, Dump
    PROVE  LimitInv'
<1>0. nb_dumped_packets \in Nat /\ nb_rotations \in Nat /\ max_packets \in Nat
  BY NumberedAssumption DEF MbufsAccounted, TypeOK, NumberedAssumption
<1>1. CASE dumper # "open" /\ Stop("crashed")
  BY <1>1, LimitsKept DEF Stop, consumerVars, rotationVars, countVars, fileVars
<1>2. CASE ~(dumper # "open" /\ Stop("crashed"))
  <2>1. /\ \/ dumper = "open" /\ files' = [files EXCEPT ![current] = Append(@, m[1])]
           \/ UNCHANGED files
        /\ nb_dumped_packets' = nb_dumped_packets + 1
        /\ consumer' = IF LimitReached THEN "limit" ELSE "free"
        /\ consumer = "dump"
        /\ UNCHANGED <<nb_rotations, dumper, current>>
    BY <1>2 DEF Dump, rotationVars
  <2>2. m[1] \in Packet
    BY <2>1, ConsumersPacket
  <2>3. /\ DOMAIN files' = DOMAIN files
        /\ \A f \in DOMAIN files : files'[f] = files[f] \/ files'[f] = Append(files[f], m[1])
    BY <2>1 DEF LimitInv, FilesInv
  <2>4. \A f \in DOMAIN files : /\ files'[f] \in Seq(Packet)
                                /\ Numbers(files'[f]) \subseteq Numbers(files[f]) \cup {m[1].n}
    <3> SUFFICES ASSUME NEW f \in DOMAIN files
                 PROVE  /\ files'[f] \in Seq(Packet)
                        /\ Numbers(files'[f]) \subseteq Numbers(files[f]) \cup {m[1].n}
      OBVIOUS
    <3>1. files[f] \in Seq(Packet)
      BY DEF LimitInv, FilesInv
    <3>2. CASE files'[f] = files[f]
      BY <3>1, <3>2
    <3>3. CASE files'[f] = Append(files[f], m[1])
      <4>1. /\ files'[f] \in Seq(Packet) /\ Len(files'[f]) = Len(files[f]) + 1
            /\ \A i \in 1..Len(files[f]) : files'[f][i] = files[f][i]
            /\ files'[f][Len(files[f]) + 1] = m[1]
        BY <2>2, <3>1, <3>3, AppendProperties
      <4>2. DOMAIN files'[f] = 1..Len(files[f]) + 1 /\ DOMAIN files[f] = 1..Len(files[f])
            /\ Len(files[f]) \in Nat
        BY <3>1, <4>1, LenProperties
      <4> QED
        BY <4>1, <4>2 DEF Numbers
    <3> QED
      BY <2>3, <3>2, <3>3
  <2>5. Dumped' \subseteq Dumped \cup {m[1].n}
    BY <2>3, <2>4 DEF Dumped
  <2>6. /\ IsFiniteSet(Dumped \cup {m[1].n})
        /\ Cardinality(Dumped \cup {m[1].n}) <= Cardinality(Dumped) + 1
        /\ Cardinality(Dumped) \in Nat
    <3>1. IsFiniteSet(Dumped)
      BY DEF LimitInv, FilesInv
    <3>2. Cardinality(Dumped) \in Nat
      BY <3>1, FS_CardinalityType
    <3>3. /\ IsFiniteSet(Dumped \cup {m[1].n})
          /\ Cardinality(Dumped \cup {m[1].n})
               = IF m[1].n \in Dumped THEN Cardinality(Dumped) ELSE Cardinality(Dumped) + 1
      BY <3>1, FS_AddElement
    <3> QED
      BY <3>2, <3>3
  <2>7. IsFiniteSet(Dumped') /\ Cardinality(Dumped') <= Cardinality(Dumped \cup {m[1].n})
    BY <2>5, <2>6, FS_Subset
  <2>8. Cardinality(Dumped') \in Nat /\ Cardinality(Dumped \cup {m[1].n}) \in Nat
    BY <2>6, <2>7, FS_CardinalityType
  <2>9. Cardinality(Dumped') <= nb_dumped_packets'
    BY <1>0, <2>1, <2>6, <2>7, <2>8 DEF LimitInv, FilesInv
  <2>10. FilesInv'
    BY <2>1, <2>3, <2>4, <2>7, <2>9 DEF LimitInv, FilesInv
  <2>11. AtLimits'
    <3>1. ASSUME max_packets # 0
          PROVE  nb_dumped_packets' <= max_packets
                 /\ (nb_dumped_packets' < max_packets \/ consumer' = "limit")
      BY <1>0, <2>1, <3>1 DEF LimitReached, LimitInv, AtLimits
    <3> QED
      BY <2>1, <2>3, <3>1 DEF LimitInv, AtLimits
  <2> QED
    BY <2>10, <2>11 DEF LimitInv
<1> QED
  BY <1>1, <1>2

LEMMA StepLimits == MbufsAccounted /\ LimitInv /\ [Next]_vars => LimitInv'
<1> SUFFICES ASSUME MbufsAccounted, LimitInv, [Next]_vars PROVE LimitInv'
  OBVIOUS
<1> USE DEF consumerVars, rotationVars, countVars, fileVars
<1>0. nb_rotations \in Nat
  BY DEF MbufsAccounted, TypeOK
<1>1. ASSUME NEW how \in {"exited", "crashed", "undefined"}, Stop(how) PROVE LimitInv'
  BY <1>1, LimitsKept DEF Stop
<1>2. CASE main_loop_producer
  <2>1. CASE UNCHANGED <<consumerVars, fileVars>>
    BY <2>1, LimitsKept
  <2>2. CASE ~UNCHANGED <<consumerVars, fileVars>>
    BY <1>1, <1>2, <2>2 DEF main_loop_producer, PcapStartUp, PcapNextEx, PcapFails, Alloc, Enqueue
  <2> QED
    BY <2>1, <2>2
<1>3. CASE StartConsumer
  <2>1. 0 \in 0..nb_rotations
    BY <1>0
  <2> QED
    BY <1>1, <1>3, <2>1, OpenLimits DEF StartConsumer
<1>4. CASE Dequeue \/ Free
  BY <1>4, LimitsKept DEF Dequeue, Free
<1>5. CASE CheckRotation
  <2>1. CASE consumer' = "dump"
    BY <1>5, <2>1, LimitsKept DEF CheckRotation
  <2>2. CASE consumer' # "dump"
    <3>1. /\ nb_rotations' = nb_rotations + 1 /\ consumer = "rotate"
          /\ consumer' = IF max_rotations # NoLimit /\ nb_rotations + 1 > max_rotations
                           THEN "limit" ELSE "close"
          /\ UNCHANGED <<nb_dumped_packets, files, dumper, current>>
      BY <1>5, <2>2 DEF CheckRotation
    <3>2. Dumped' = Dumped
      BY <3>1 DEF Dumped, Numbers
    <3>3. FilesInv'
      BY <1>0, <3>1, <3>2 DEF LimitInv, FilesInv
    <3>4. AtLimits'
      <4>1. max_rotations # NoLimit => max_rotations \in Nat
        BY NumberedAssumption DEF NumberedAssumption
      <4> QED
        BY <1>0, <3>1, <4>1 DEF LimitInv, AtLimits
    <3> QED
      BY <3>3, <3>4 DEF LimitInv
  <2> QED
    BY <2>1, <2>2
<1>6. CASE CloseFile
  BY <1>6, LimitsKept DEF CloseFile, CloseDumper
<1>7. CASE ReopenFile
  <2>1. nb_rotations \in 0..nb_rotations
    BY <1>0
  <2> QED
    BY <1>1, <1>7, <2>1, OpenLimits DEF ReopenFile
<1>8. CASE Dump
  BY <1>8, DumpLimits
<1>9. CASE \E h \in Handlers : sig_handler(h)
  <2>1. PICK h \in Handlers : sig_handler(h)
    BY <1>9
  <2>2. CASE PrintStatsFails \/ HandlerExits(h)
    BY <1>1, <2>2 DEF PrintStatsFails, HandlerExits
  <2>3. CASE ~(PrintStatsFails \/ HandlerExits(h))
    <3>1. /\ UNCHANGED <<consumerVars, current, files>>
          /\ dumper' \in {dumper, "closed"}
      BY <2>1, <2>3 DEF sig_handler, EnterHandler, PrintStats, HandlerCloses, CloseDumper
    <3> QED
      BY <3>1, LimitsKept
  <2> QED
    BY <2>2, <2>3
<1>10. CASE alarm_routine \/ SecondProducer
  BY <1>1, <1>10 DEF alarm_routine, PrintStatsFails, SecondProducer
<1>11. CASE Second \/ UNCHANGED vars
  BY <1>11, LimitsKept DEF Second, vars
<1> QED
  BY <1>2, <1>3, <1>4, <1>5, <1>6, <1>7, <1>8, <1>9, <1>10, <1>11 DEF Next, main_loop_consumer

\* For all limits, -c packets and -W rotations are never exceeded, however
\* long the consumer's own call of sig_handler takes to end the process.
THEOREM LimitsCorrect == Spec => []LimitsHold
<1>1. MbufsAccounted /\ LimitInv => LimitsHold
  <2> SUFFICES ASSUME MbufsAccounted, LimitInv PROVE LimitsHold
    OBVIOUS
  <2>1. ASSUME max_packets # 0 PROVE Cardinality(Dumped) <= max_packets
    <3>1. Cardinality(Dumped) <= nb_dumped_packets /\ nb_dumped_packets <= max_packets
      BY <2>1 DEF LimitInv, FilesInv, AtLimits
    <3>2. Cardinality(Dumped) \in Nat /\ nb_dumped_packets \in Nat /\ max_packets \in Nat
      BY FS_CardinalityType, NumberedAssumption
         DEF LimitInv, FilesInv, MbufsAccounted, TypeOK, NumberedAssumption
    <3> QED
      BY <3>1, <3>2
  <2> QED
    BY <2>1 DEF LimitInv, AtLimits, LimitsHold
<1> QED
  BY <1>1, InitAccounted, InitLimits, StepAccounted, StepLimits, PTL DEF Spec

-----------------------------------------------------------------------------
(* The order of the packets.  From the producer's header to the files they *)
(* are one queue, whatever a shutdown does meanwhile.  Until one begins,   *)
(* where the consumer is tells which file is open, that a file about to be *)
(* opened has a number no file has yet, and the span of time of what is in *)
(* the open one.                                                           *)

\* The packets up to Delivered have left the producer's hands.
Delivered == IF producer \in {"alloc", "enqueue"} THEN PcapHdr.n - 1 ELSE PcapHdr.n

PipeOrder ==
    /\ filling = IF producer = "enqueue" THEN <<PcapHdr>> ELSE <<>>
    /\ \A i \in DOMAIN ring : ring[i].n <= Delivered
    /\ \A i, j \in DOMAIN ring : i < j => ring[i].n < ring[j].n
    /\ consumer \notin {"start", "dequeue"}
         => m[1].n <= Delivered /\ \A i \in DOMAIN ring : m[1].n < ring[i].n
    /\ \A d \in Dumped :
         /\ d <= Delivered
         /\ \A i \in DOMAIN ring : d < ring[i].n
         /\ consumer \in {"rotate", "close", "reopen", "dump"} => d < m[1].n

InFile(ts) == last_rotation <= ts /\ ts - last_rotation <= seconds_rotation

OpenFileInv ==
    /\ handlers = [h \in Handlers |-> "idle"]
    /\ consumer = "start" => DOMAIN files = {} /\ nb_rotations = 0
    /\ consumer = "close" => dumper = "open"
    /\ consumer \in {"close", "reopen"} =>
         /\ DOMAIN files \subseteq 0..nb_rotations - 1
         /\ last_rotation = m[1].ts
    /\ consumer \in {"dequeue", "rotate", "dump", "free"} =>
         /\ dumper = "open" /\ current = nb_rotations
         /\ seconds_rotation > 0
              => \A i \in DOMAIN files[current] : InFile(files[current][i].ts)
    /\ consumer = "dump" /\ seconds_rotation > 0 => InFile(m[1].ts)

PartInv == PipeOrder /\ (~do_shutdown => OpenFileInv) /\ FilesPartition

\* Everything that is compared is a number.
LEMMA OrderTypes ==
    ASSUME MbufsAccounted, LimitInv
    PROVE  /\ PcapHdr.n \in Nat /\ Delivered \in Int
           /\ ring \in Seq(Packet)
           /\ \A i \in DOMAIN ring : ring[i].n \in Nat
           /\ \A f \in DOMAIN files : files[f] \in Seq(Packet)
           /\ Dumped \subseteq Nat
           /\ consumer \notin {"start", "dequeue"} => m[1].n \in Nat /\ m[1].ts \in Nat
           /\ last_rotation \in Nat /\ nb_rotations \in Nat /\ seconds_rotation \in Nat
<1>0. MaxPackets \in Nat /\ MaxTime \in Nat /\ seconds_rotation \in Nat
  BY NumberedAssumption DEF NumberedAssumption
<1>1. \A p \in Packet : p.n \in Nat /\ p.ts \in Nat
  BY <1>0 DEF Packet
<1>2. PcapHdr.n \in Nat
  BY <1>1 DEF MbufsAccounted, TypeOK, NoPacket
<1>3. Delivered \in Int
  BY <1>2 DEF Delivered
<1>4. ring \in Seq(Packet) /\ \A f \in DOMAIN files : files[f] \in Seq(Packet)
  BY DEF MbufsAccounted, TypeOK, LimitInv, FilesInv
<1>5. ASSUME NEW s \in Seq(Packet), NEW i \in DOMAIN s PROVE s[i].n \in Nat
  BY <1>1, <1>5, ElementOfSeq, LenProperties
<1>6. Dumped \subseteq Nat
  BY <1>4, <1>5 DEF Dumped, Numbers
<1>7. consumer \notin {"start", "dequeue"} => m[1].n \in Nat /\ m[1].ts \in Nat
  BY <1>1, ConsumersPacket
<1>8. last_rotation \in Nat /\ nb_rotations \in Nat
  BY DEF MbufsAccounted, TypeOK
<1> QED
  BY <1>0, <1>2, <1>3, <1>4, <1>5, <1>6, <1>7, <1>8

LEMMA InitPart == Init => PartInv
<1> SUFFICES ASSUME Init PROVE PartInv
  OBVIOUS
<1>1. DOMAIN files = {} /\ Dumped = {} /\ DOMAIN ring = {}
  BY DEF Init, Dumped
<1>2. PipeOrder
  BY <1>1 DEF Init, PipeOrder
<1>3. OpenFileInv
  BY <1>1 DEF Init, OpenFileInv
<1>4. FilesPartition
  BY <1>1, FS_EmptySet DEF Init, FilesPartition
<1> QED
  BY <1>2, <1>3, <1>4 DEF PartInv

\* The files are what they were as long as nobody but a shutdown touches them.
LEMMA FilesKept ==
    ASSUME PartInv, UNCHANGED <<files, nb_dumped_packets>>, do_shutdown' = do_shutdown
    PROVE  FilesPartition' /\ Dumped' = Dumped
BY DEF PartInv, FilesPartition, Dumped, Numbers, Before

LEMMA OpenFileKept ==
    ASSUME PartInv, UNCHANGED <<files, consumerVars, do_shutdown, handlers, dumper, current>>
    PROVE  (~do_shutdown => OpenFileInv)'
BY DEF PartInv, OpenFileInv, InFile, consumerVars, rotationVars, countVars

\* After a shutdown has begun only the order is claimed.
LEMMA ShutdownPart ==
    ASSUME PartInv, UNCHANGED <<producerVars, ring, consumer, m, files>>,
           do_shutdown' = TRUE \/
             UNCHANGED <<do_shutdown, handlers, rotationVars, nb_dumped_packets, dumper, current>>
    PROVE  PartInv'
<1>1. Dumped' = Dumped
  BY DEF Dumped, Numbers
<1>2. PipeOrder'
  BY <1>1 DEF PartInv, PipeOrder, Delivered, producerVars
<1>3. CASE do_shutdown' = TRUE
  BY <1>2, <1>3 DEF PartInv, FilesPartition
<1>4. CASE UNCHANGED <<do_shutdown, handlers, rotationVars, nb_dumped_packets, dumper, current>>
  <2>1. FilesPartition'
    BY <1>4, FilesKept
  <2>2. (~do_shutdown => OpenFileInv)'
    BY <1>4 DEF PartInv, OpenFileInv, InFile, rotationVars
  <2> QED
    BY <1>2, <2>1, <2>2 DEF PartInv
<1> QED
  BY <1>3, <1>4

\* The producer lcore puts a packet at the end of the ring, and none before it.
LEMMA ProducerPart ==
    ASSUME MbufsAccounted, LimitInv, PartInv, main_loop_producer
    PROVE  PartInv'
<1> USE DEF endVars, ringVars
<1>1. ASSUME NEW how \in {"exited", "crashed", "undefined"}, Stop(how) PROVE PartInv'
  BY <1>1, ShutdownPart DEF Stop, consumerVars, rotationVars, countVars, fileVars
<1>2. CASE UNCHANGED <<endVars, consumerVars, fileVars>> /\ PipeOrder'
  BY <1>2, FilesKept, OpenFileKept DEF PartInv, consumerVars, countVars, fileVars
<1>3. ASSUME UNCHANGED <<ring, consumerVars, fileVars>>, Delivered <= Delivered',
             Delivered' \in Int, filling' = IF producer' = "enqueue" THEN <<PcapHdr'>> ELSE <<>>
      PROVE  PipeOrder'
  <2>1. UNCHANGED <<ring, consumer, m>> /\ Dumped' = Dumped
    BY <1>3 DEF consumerVars, fileVars, Dumped, Numbers
  <2> QED
    BY <1>3, <2>1, OrderTypes DEF PartInv, PipeOrder
<1>4. CASE PcapStartUp
  <2>1. CASE producer' = "next" /\ UNCHANGED <<options, endVars, now, PcapHdr,
                filling, ringVars, consumerVars, fileVars>>
    <3>1. Delivered' = Delivered
      BY <1>4, <2>1 DEF PcapStartUp, Delivered
    <3>2. filling' = <<>>
      BY <1>4, <2>1 DEF PcapStartUp, PartInv, PipeOrder
    <3> QED
      BY <1>2, <1>3, <2>1, <3>1, <3>2, OrderTypes
  <2> QED
    BY <1>1, <1>4, <2>1 DEF PcapStartUp
<1>5. CASE PcapNextEx
  <2>1. /\ PcapHdr'.n = PcapHdr.n + 1 /\ producer' \in {"alloc", "next"} /\ producer = "next"
        /\ UNCHANGED <<options, endVars, now, filling, ringVars, consumerVars, fileVars>>
    BY <1>5 DEF PcapNextEx
  <2>2. Delivered <= Delivered' /\ Delivered' \in Int
    BY <2>1, OrderTypes DEF Delivered
  <2>3. filling' = <<>> /\ producer' # "enqueue"
    BY <2>1 DEF PartInv, PipeOrder
  <2> QED
    BY <1>2, <1>3, <2>1, <2>2, <2>3
<1>6. CASE PcapFails
  BY <1>1, <1>6 DEF PcapFails
<1>7. CASE Alloc
  <2>1. CASE /\ filling' = <<PcapHdr>> /\ producer' = "enqueue"
             /\ UNCHANGED <<options, endVars, now, PcapHdr, ring, lost, consumerVars, fileVars>>
    <3>1. /\ filling' = <<PcapHdr>> /\ producer' = "enqueue" /\ producer = "alloc"
          /\ UNCHANGED <<options, endVars, now, PcapHdr, ring, lost, consumerVars, fileVars>>
      BY <1>7, <2>1 DEF Alloc
    <3>2. Delivered' = Delivered
      BY <3>1 DEF Delivered
    <3> QED
      BY <1>2, <1>3, <3>1, <3>2, OrderTypes
  <2> QED
    BY <1>1, <1>7, <2>1 DEF Alloc
<1>8. CASE Enqueue
  <2>1. /\ producer = "enqueue" /\ producer' = "next" /\ filling' = <<>>
        /\ UNCHANGED <<endVars, PcapHdr, consumerVars, fileVars>>
        /\ ring' = ring \/ ring' = Append(ring, filling[1])
    BY <1>8 DEF Enqueue
  <2>2. filling = <<PcapHdr>> /\ filling[1] = PcapHdr
    BY <2>1 DEF PartInv, PipeOrder
  <2>3. Delivered = PcapHdr.n - 1 /\ Delivered' = PcapHdr.n
    BY <2>1 DEF Delivered
  <2>4. CASE ring' = ring
    BY <1>2, <1>3, <2>1, <2>3, <2>4, OrderTypes
  <2>5. CASE ring' = Append(ring, PcapHdr)
    <3>1. PcapHdr \in Packet
      <4>1. filling \in Seq(Packet) /\ Len(filling) = 1
        BY <2>1 DEF MbufsAccounted, TypeOK, Hands
      <4> QED
        BY <2>2, <4>1, ElementOfSeq
    <3>2. /\ DOMAIN ring = 1..Len(ring) /\ Len(ring) \in Nat
          /\ DOMAIN ring' = 1..Len(ring) + 1
          /\ \A i \in DOMAIN ring : ring'[i] = ring[i]
          /\ ring'[Len(ring) + 1] = PcapHdr
      BY <2>5, <3>1, OrderTypes, AppendProperties, LenProperties
    <3>3. UNCHANGED <<consumer, m>> /\ Dumped' = Dumped
      BY <2>1 DEF consumerVars, fileVars, Dumped, Numbers
    <3>4. \A i \in DOMAIN ring' : i \in DOMAIN ring \/ i = Len(ring) + 1
      BY <3>2
    <3>5. \A i \in DOMAIN ring' : ring'[i].n <= PcapHdr.n
      BY <2>3, <3>2, <3>4, OrderTypes DEF PartInv, PipeOrder
    <3>6. \A i, j \in DOMAIN ring' : i < j => ring'[i].n < ring'[j].n
      <4> SUFFICES ASSUME NEW i \in DOMAIN ring', NEW j \in DOMAIN ring', i < j
                   PROVE  ring'[i].n < ring'[j].n
        OBVIOUS
      <4>1. i \in DOMAIN ring
        BY <3>2
      <4>2. CASE j \in DOMAIN ring
        BY <3>2, <4>1, <4>2 DEF PartInv, PipeOrder
      <4>3. CASE j = Len(ring) + 1
        BY <2>3, <3>2, <4>1, <4>3, OrderTypes DEF PartInv, PipeOrder
      <4> QED
        BY <3>4, <4>2, <4>3
    <3>7. consumer \notin {"start", "dequeue"}
            => m[1].n <= PcapHdr.n /\ \A i \in DOMAIN ring' : m[1].n < ring'[i].n
      BY <2>3, <3>2, <3>4, OrderTypes, SMTT(30) DEF PartInv, PipeOrder
    <3>8. \A d \in Dumped :
            /\ d <= PcapHdr.n
            /\ \A i \in DOMAIN ring' : d < ring'[i].n
            /\ consumer \in {"rotate", "close", "reopen", "dump"} => d < m[1].n
      BY <2>3, <3>2, <3>4, OrderTypes, SMTT(30) DEF PartInv, PipeOrder
    <3>9. PipeOrder'
      BY <2>1, <2>3, <3>3, <3>5, <3>6, <3>7, <3>8 DEF PipeOrder
    <3> QED
      BY <1>2, <2>1, <3>9
  <2> QED
    BY <2>1, <2>2, <2>4, <2>5
<1> QED
  BY <1>4, <1>5, <1>6, <1>7, <1>8 DEF main_loop_producer

\* A file that is opened for the first time is empty and changes no other.
LEMMA OpenPart ==
    ASSUME LimitInv, PartInv, NEW number \in Nat, number \notin DOMAIN files, OpenFile(number),
           UNCHANGED <<nb_dumped_packets, do_shutdown>>
    PROVE  FilesPartition' /\ Dumped' = Dumped /\ files'[number] = <<>>
<1>1. /\ DOMAIN files' = DOMAIN files \cup {number} /\ files'[number] = <<>>
      /\ \A f \in DOMAIN files : files'[f] = files[f]
  BY DEF OpenFile
<1>2. Dumped' = Dumped
  BY <1>1 DEF Dumped, Numbers
<1>3. FilesPartition'
  <2> SUFFICES ASSUME ~do_shutdown' PROVE FilesPartition'
    BY DEF FilesPartition
  <2>1. /\ Cardinality(Dumped) = nb_dumped_packets
        /\ \A f, g \in DOMAIN files : f < g => Before(files[f], files[g])
        /\ \A f \in DOMAIN files : \A i, j \in DOMAIN files[f] :
             /\ i < j => files[f][i].n < files[f][j].n
             /\ seconds_rotation > 0
                  => files[f][j].ts - files[f][i].ts <= seconds_rotation
    BY DEF PartInv, FilesPartition
  <2>2. DOMAIN files'[number] = {}
    BY <1>1
  <2>3. \A f, g \in DOMAIN files' : f < g => Before(files'[f], files'[g])
    BY <1>1, <2>1, <2>2 DEF Before
  <2>4. \A f \in DOMAIN files' : \A i, j \in DOMAIN files'[f] :
             /\ i < j => files'[f][i].n < files'[f][j].n
             /\ seconds_rotation > 0
                  => files'[f][j].ts - files'[f][i].ts <= seconds_rotation
    BY <1>1, <2>1, <2>2
  <2> QED
    BY <1>2, <2>1, <2>3, <2>4 DEF FilesPartition
<1> QED
  BY <1>1, <1>2, <1>3

LEMMA DequeuePart ==
    ASSUME MbufsAccounted, LimitInv, PartInv, Dequeue
    PROVE  PartInv'
<1>1. /\ consumer = "dequeue" /\ ring # <<>> /\ consumer' = "rotate"
      /\ m' = <<Head(ring)>> /\ ring' = Tail(ring)
      /\ UNCHANGED <<endVars, producerVars, rotationVars, countVars, fileVars>>
  BY DEF Dequeue
<1>2. ring \in Seq(Packet)
  BY OrderTypes
<1>3. /\ m'[1] = ring[1] /\ 1 \in DOMAIN ring
      /\ \A i \in DOMAIN ring' : i + 1 \in DOMAIN ring /\ ring'[i] = ring[i + 1] /\ 1 < i + 1
      /\ DOMAIN ring' \subseteq Nat
  <2>1. /\ Head(ring) = ring[1] /\ Len(ring) \in Nat \ {0} /\ DOMAIN ring = 1..Len(ring)
        /\ Tail(ring) \in Seq(Packet) /\ Len(Tail(ring)) = Len(ring) - 1
        /\ \A i \in 1..Len(Tail(ring)) : Tail(ring)[i] = ring[i + 1]
    BY <1>1, <1>2, HeadTailProperties, EmptySeq, LenProperties
  <2>2. DOMAIN ring' = 1..Len(ring) - 1
    BY <1>1, <2>1, LenProperties
  <2> QED
    BY <1>1, <2>1, <2>2
<1>4. Dumped' = Dumped /\ Delivered' = Delivered
  BY <1>1 DEF fileVars, producerVars, Dumped, Numbers, Delivered
<1>5. PipeOrder'
  <2>1. \A i, j \in DOMAIN ring' : i < j => ring'[i].n < ring'[j].n
    BY <1>3 DEF PartInv, PipeOrder
  <2>2. \A i \in DOMAIN ring' : ring'[i].n <= Delivered /\ m'[1].n < ring'[i].n
    BY <1>3 DEF PartInv, PipeOrder
  <2>3. m'[1].n <= Delivered /\ \A d \in Dumped : d <= Delivered /\ d < m'[1].n
    BY <1>3 DEF PartInv, PipeOrder
  <2>4. \A d \in Dumped : \A i \in DOMAIN ring' : d < ring'[i].n
    BY <1>3 DEF PartInv, PipeOrder
  <2>5. filling' = IF producer' = "enqueue" THEN <<PcapHdr'>> ELSE <<>>
    BY <1>1 DEF PartInv, PipeOrder, producerVars
  <2> QED
    BY <1>4, <2>1, <2>2, <2>3, <2>4, <2>5 DEF PipeOrder
<1>6. FilesPartition'
  BY <1>1, FilesKept DEF endVars, countVars, fileVars
<1>7. (~do_shutdown => OpenFileInv)'
  BY <1>1 DEF PartInv, OpenFileInv, InFile, endVars, rotationVars, fileVars
<1> QED
  BY <1>5, <1>6, <1>7 DEF PartInv

\* The consumer's place in the loop moves, its packet and the files do not.
LEMMA LoopPart ==
    ASSUME PartInv, UNCHANGED <<producerVars, ring, m, files, nb_dumped_packets, do_shutdown>>,
           consumer \in {"rotate", "close", "reopen", "dump"},
           consumer' \notin {"start", "dequeue"}
    PROVE  PipeOrder' /\ FilesPartition'
<1>1. FilesPartition' /\ Dumped' = Dumped
  BY FilesKept
<1> QED
  BY <1>1 DEF PartInv, PipeOrder, Delivered, producerVars

LEMMA RotationPart ==
    ASSUME MbufsAccounted, LimitInv, PartInv, CheckRotation
    PROVE  PartInv'
<1>1. /\ consumer = "rotate" /\ consumer' \in {"dump", "close", "limit"}
      /\ UNCHANGED <<endVars, producerVars, ringVars, m, countVars, fileVars>>
  BY DEF CheckRotation
<1>2. PipeOrder' /\ FilesPartition'
  <2>1. consumer \in {"rotate", "close", "reopen", "dump"}
    BY <1>1
  <2> QED
    BY <1>1, <2>1, LoopPart DEF endVars, ringVars, countVars, fileVars
<1>3. ASSUME OpenFileInv, ~do_shutdown PROVE OpenFileInv'
  <2>0. /\ m[1].ts \in Nat /\ last_rotation \in Nat /\ nb_rotations \in Nat
        /\ seconds_rotation \in Nat
    BY <1>1, OrderTypes
  <2>1. CASE consumer' = "dump"
    <3>1. /\ UNCHANGED rotationVars
          /\ seconds_rotation > 0 => ~Expired(m[1].ts)
      BY <2>1 DEF CheckRotation
    <3>2. seconds_rotation > 0 => InFile(m[1].ts)
      BY <2>0, <3>1 DEF Expired, InFile
    <3> QED
      BY <1>1, <1>3, <2>1, <3>1, <3>2
         DEF OpenFileInv, InFile, endVars, rotationVars, fileVars
  <2>2. CASE consumer' # "dump"
    <3>1. last_rotation' = m[1].ts /\ nb_rotations' = nb_rotations + 1
      BY <2>2 DEF CheckRotation
    <3>2. DOMAIN files' \subseteq 0..nb_rotations' - 1
      BY <1>1, <2>0, <3>1 DEF LimitInv, FilesInv, fileVars
    <3> QED
      BY <1>1, <1>3, <2>2, <3>1, <3>2 DEF OpenFileInv, endVars, fileVars
  <2> QED
    BY <2>1, <2>2
<1> QED
  BY <1>1, <1>2, <1>3 DEF PartInv, endVars

LEMMA DumpPart ==
    ASSUME MbufsAccounted, LimitInv, PartInv, Dump
    PROVE  PartInv'
<1>1. CASE dumper # "open" /\ Stop("crashed")
  BY <1>1, ShutdownPart DEF Stop, ringVars, consumerVars, rotationVars, countVars, fileVars
<1>2. CASE ~(dumper # "open" /\ Stop("crashed"))
  <2>1. /\ consumer = "dump" /\ consumer' \in {"limit", "free"}
        /\ nb_dumped_packets' = nb_dumped_packets + 1
        /\ UNCHANGED <<endVars, producerVars, ringVars, m, rotationVars, dumper, current>>
        /\ \/ dumper = "open" /\ files' = [files EXCEPT ![current] = Append(@, m[1])]
           \/ dumper # "open" /\ UNCHANGED files
    BY <1>2 DEF Dump
  <2>0. m[1] \in Packet /\ m[1].n \in Nat
    BY <2>1, ConsumersPacket, OrderTypes
  <2>2. CASE dumper # "open"
    <3>1. Dumped' = Dumped
      BY <2>1, <2>2 DEF Dumped, Numbers
    <3>2. PipeOrder'
      BY <2>1, <3>1 DEF PartInv, PipeOrder, Delivered, producerVars, ringVars
    <3>3. do_shutdown'
      BY <2>1, <2>2 DEF PartInv, OpenFileInv, MbufsAccounted, TypeOK, endVars
    <3> QED
      BY <3>2, <3>3 DEF PartInv, FilesPartition
  <2>3. CASE dumper = "open"
    <3> DEFINE old == files[current]
    <3>1. current \in DOMAIN files /\ old \in Seq(Packet)
      BY <2>3 DEF LimitInv, FilesInv
    <3>2. /\ DOMAIN files' = DOMAIN files /\ files'[current] = Append(old, m[1])
          /\ \A f \in DOMAIN files : f # current => files'[f] = files[f]
      BY <2>1, <2>3, <3>1
    <3>3. /\ DOMAIN old = 1..Len(old) /\ Len(old) \in Nat
          /\ DOMAIN files'[current] = 1..Len(old) + 1
          /\ \A i \in DOMAIN old : files'[current][i] = old[i]
          /\ files'[current][Len(old) + 1] = m[1]
      BY <2>0, <3>1, <3>2, AppendProperties, LenProperties
    <3> HIDE DEF old
    <3>4. Dumped' = Dumped \cup {m[1].n}
      <4>1. Numbers(files'[current]) = Numbers(old) \cup {m[1].n}
        <5>1. \A i \in DOMAIN files'[current] : i \in DOMAIN old \/ i = Len(old) + 1
          BY <3>3
        <5>2. \A i \in DOMAIN old : i \in DOMAIN files'[current]
          BY <3>3
        <5>3. Len(old) + 1 \in DOMAIN files'[current]
          BY <3>3
        <5> QED
          BY <3>3, <5>1, <5>2, <5>3 DEF Numbers
      <4>2. \A f \in DOMAIN files : Numbers(files'[f]) =
              IF f = current THEN Numbers(files[f]) \cup {m[1].n} ELSE Numbers(files[f])
        BY <3>2, <4>1 DEF Numbers, old
      <4> QED
        BY <3>1, <3>2, <4>2 DEF Dumped
    <3>5. \A d \in Dumped : d < m[1].n
      BY <2>1 DEF PartInv, PipeOrder
    <3>6. PipeOrder'
      <4>1. /\ m[1].n <= Delivered /\ \A i \in DOMAIN ring : m[1].n < ring[i].n
        BY <2>1 DEF PartInv, PipeOrder
      <4> QED
        BY <2>1, <3>4, <4>1 DEF PartInv, PipeOrder, Delivered, producerVars, ringVars
    <3>7. ASSUME ~do_shutdown PROVE FilesPartition' /\ OpenFileInv'
      <4>0. /\ OpenFileInv /\ current = nb_rotations
            /\ seconds_rotation > 0 => InFile(m[1].ts)
            /\ seconds_rotation > 0 => \A i \in DOMAIN old : InFile(old[i].ts)
        BY <2>1, <3>7 DEF PartInv, OpenFileInv, old
      <4>1. /\ Cardinality(Dumped) = nb_dumped_packets
            /\ \A f, g \in DOMAIN files : f < g => Before(files[f], files[g])
            /\ \A f \in DOMAIN files : \A i, j \in DOMAIN files[f] :
                 /\ i < j => files[f][i].n < files[f][j].n
                 /\ seconds_rotation > 0
                      => files[f][j].ts - files[f][i].ts <= seconds_rotation
        BY <3>7 DEF PartInv, FilesPartition
      <4>2. Cardinality(Dumped') = nb_dumped_packets'
        <5>1. m[1].n \notin Dumped /\ IsFiniteSet(Dumped)
          BY <2>0, <3>5, OrderTypes DEF LimitInv, FilesInv
        <5> QED
          BY <2>1, <3>4, <4>1, <5>1, FS_AddElement
      <4>3. \A i \in DOMAIN files'[current] : i \in DOMAIN old \/ i = Len(old) + 1
        BY <3>3
      <4>4. \A f, g \in DOMAIN files' : f < g => Before(files'[f], files'[g])
        <5> SUFFICES ASSUME NEW f \in DOMAIN files, NEW g \in DOMAIN files, f < g,
                            NEW i \in DOMAIN files'[f], NEW j \in DOMAIN files'[g]
                     PROVE  files'[f][i].n < files'[g][j].n
          BY <3>2 DEF Before
        <5>1. f # current
          <6>1. f \in Nat /\ g \in Nat /\ g <= nb_rotations /\ nb_rotations \in Nat
            BY OrderTypes DEF LimitInv, FilesInv
          <6> QED
            BY <4>0, <6>1
        <5>2. files'[f] = files[f]
          BY <3>2, <5>1
        <5>3. CASE g # current
          BY <3>2, <4>1, <5>2, <5>3 DEF Before
        <5>4. CASE g = current /\ j \in DOMAIN old
          BY <3>2, <3>3, <4>1, <5>2, <5>4 DEF Before, old
        <5>5. CASE g = current /\ j = Len(old) + 1
          <6>1. files[f][i].n \in Dumped
            BY <5>2 DEF Dumped, Numbers
          <6> QED
            BY <3>3, <3>5, <5>2, <5>5, <6>1
        <5> QED
          BY <4>3, <5>3, <5>4, <5>5
      <4>5. \A f \in DOMAIN files' : \A i, j \in DOMAIN files'[f] :
                 /\ i < j => files'[f][i].n < files'[f][j].n
                 /\ seconds_rotation > 0
                      => files'[f][j].ts - files'[f][i].ts <= seconds_rotation
        <5> SUFFICES ASSUME NEW f \in DOMAIN files, NEW i \in DOMAIN files'[f],
                            NEW j \in DOMAIN files'[f]
                     PROVE  /\ i < j => files'[f][i].n < files'[f][j].n
                            /\ seconds_rotation > 0
                                 => files'[f][j].ts - files'[f][i].ts <= seconds_rotation
          BY <3>2
        <5>1. CASE f # current
          BY <3>2, <4>1, <5>1
        <5>2. CASE f = current
          <6>1. ASSUME i < j PROVE files'[f][i].n < files'[f][j].n
            <7>1. i \in DOMAIN old
              BY <3>3, <4>3, <5>2, <6>1
            <7>2. CASE j \in DOMAIN old
              BY <3>3, <4>1, <5>2, <6>1, <7>1, <7>2 DEF old
            <7>3. CASE j = Len(old) + 1
              <8>1. old[i].n \in Dumped
                BY <3>1, <7>1 DEF Dumped, Numbers, old
              <8> QED
                BY <3>3, <3>5, <5>2, <7>1, <7>3, <8>1
            <7> QED
              BY <4>3, <5>2, <7>2, <7>3
          <6>2. ASSUME seconds_rotation > 0
                PROVE  files'[f][j].ts - files'[f][i].ts <= seconds_rotation
            <7>1. \A k \in DOMAIN files'[current] :
                    InFile(files'[current][k].ts) /\ files'[current][k].ts \in Nat
              <8>1. \A k \in DOMAIN old : old[k].ts \in Nat
                <9>1. \A k \in DOMAIN old : old[k] \in Packet
                  BY <3>1, <3>3, ElementOfSeq
                <9> QED
                  BY <9>1, NumberedAssumption DEF Packet, NumberedAssumption
              <8>2. m[1].ts \in Nat
                BY <2>1, OrderTypes
              <8> QED
                BY <3>3, <4>0, <4>3, <6>2, <8>1, <8>2
            <7> QED
              BY <5>2, <7>1, OrderTypes, SMTT(20) DEF InFile
          <6> QED
            BY <6>1, <6>2
        <5> QED
          BY <5>1, <5>2
      <4>6. FilesPartition'
        BY <4>2, <4>4, <4>5 DEF FilesPartition
      <4>7. OpenFileInv'
        <5>1. seconds_rotation > 0
                => \A k \in DOMAIN files'[current] : InFile(files'[current][k].ts)
          BY <3>3, <4>0, <4>3
        <5> QED
          BY <2>1, <2>3, <4>0, <5>1 DEF OpenFileInv, InFile, endVars, rotationVars
      <4> QED
        BY <4>6, <4>7
    <3> QED
      BY <2>1, <3>6, <3>7 DEF PartInv, FilesPartition, endVars
  <2> QED
    BY <2>2, <2>3
<1> QED
  BY <1>1, <1>2

\* Opening a file can only make packets disappear.
LEMMA OpenShrinks ==
    ASSUME NEW number, OpenFile(number)
    PROVE  Dumped' \subseteq Dumped
<1>1. /\ DOMAIN files' = DOMAIN files \cup {number} /\ DOMAIN files'[number] = {}
      /\ \A f \in DOMAIN files : f # number => files'[f] = files[f]
  BY DEF OpenFile
<1> QED
  BY <1>1 DEF Dumped, Numbers

LEMMA ConsumerPart ==
    ASSUME MbufsAccounted, LimitInv, PartInv, main_loop_consumer
    PROVE  PartInv'
<1> USE DEF rotationVars, countVars
<1>1. ASSUME NEW how \in {"exited", "crashed", "undefined"}, Stop(how) PROVE PartInv'
  BY <1>1, ShutdownPart DEF Stop, ringVars, consumerVars, fileVars
<1>2. CASE StartConsumer
  <2>1. CASE /\ OpenFile(0) /\ last_rotation' = now /\ consumer' = "dequeue"
             /\ UNCHANGED <<options, endVars, now, producerVars, ringVars, m,
                            nb_rotations, countVars>>
    <3>1. PipeOrder'
      BY <2>1, OpenShrinks DEF PartInv, PipeOrder, Delivered, producerVars, ringVars
    <3>2. ASSUME ~do_shutdown PROVE FilesPartition' /\ OpenFileInv'
      <4>1. DOMAIN files = {} /\ nb_rotations = 0 /\ OpenFileInv
        BY <1>2, <3>2 DEF StartConsumer, PartInv, OpenFileInv
      <4>2. FilesPartition' /\ files'[0] = <<>>
        BY <2>1, <4>1, OpenPart DEF endVars
      <4>3. OpenFileInv'
        BY <2>1, <4>1, <4>2 DEF OpenFileInv, OpenFile, endVars
      <4> QED
        BY <4>2, <4>3
    <3> QED
      BY <2>1, <3>1, <3>2 DEF PartInv, FilesPartition, endVars
  <2> QED
    BY <1>1, <1>2, <2>1 DEF StartConsumer
<1>3. CASE Dequeue
  BY <1>3, DequeuePart
<1>4. CASE CheckRotation
  BY <1>4, RotationPart
<1>5. CASE CloseFile
  <2>1. /\ consumer = "close" /\ consumer' = "reopen" /\ CloseDumper
        /\ UNCHANGED <<do_shutdown, handlers, producerVars, ringVars, m, rotationVars,
                       countVars, current, files>>
    BY <1>5 DEF CloseFile
  <2>2. PipeOrder' /\ FilesPartition'
    BY <2>1, LoopPart DEF ringVars
  <2>3. (~do_shutdown => OpenFileInv)'
    BY <2>1 DEF PartInv, OpenFileInv, CloseDumper
  <2> QED
    BY <2>2, <2>3 DEF PartInv
<1>6. CASE ReopenFile
  <2>1. CASE /\ OpenFile(nb_rotations) /\ consumer' = "dump"
             /\ UNCHANGED <<options, endVars, now, producerVars, ringVars, m,
                            rotationVars, countVars>>
    <3>0. consumer = "reopen"
      BY <1>6 DEF ReopenFile
    <3>1. PipeOrder'
      BY <2>1, <3>0, OpenShrinks DEF PartInv, PipeOrder, Delivered, producerVars, ringVars
    <3>2. ASSUME ~do_shutdown PROVE FilesPartition' /\ OpenFileInv'
      <4>1. OpenFileInv /\ nb_rotations \in Nat /\ nb_rotations \notin DOMAIN files
        BY <3>0, <3>2, OrderTypes DEF PartInv, OpenFileInv
      <4>2. FilesPartition' /\ files'[nb_rotations] = <<>>
        BY <2>1, <4>1, OpenPart DEF endVars
      <4>3. m[1].ts \in Nat /\ last_rotation = m[1].ts /\ seconds_rotation \in Nat
        BY <3>0, <4>1, OrderTypes DEF OpenFileInv
      <4>4. dumper' = "open" /\ current' = nb_rotations
        BY <2>1 DEF OpenFile
      <4>5. DOMAIN files'[current'] = {}
        BY <4>2, <4>4
      <4>6. OpenFileInv'
        BY <2>1, <4>1, <4>3, <4>4, <4>5 DEF OpenFileInv, InFile, endVars
      <4> QED
        BY <4>2, <4>6
    <3> QED
      BY <2>1, <3>1, <3>2 DEF PartInv, FilesPartition, endVars
  <2> QED
    BY <1>1, <1>6, <2>1 DEF ReopenFile
<1>7. CASE Dump
  BY <1>7, DumpPart
<1>8. CASE Free
  <2>1. /\ consumer = "free" /\ consumer' = "dequeue"
        /\ UNCHANGED <<endVars, producerVars, ring, rotationVars, countVars, fileVars>>
    BY <1>8 DEF Free
  <2>2. FilesPartition' /\ Dumped' = Dumped
    BY <2>1, FilesKept DEF endVars, fileVars
  <2>3. PipeOrder'
    BY <2>1, <2>2 DEF PartInv, PipeOrder, Delivered, producerVars
  <2>4. (~do_shutdown => OpenFileInv)'
    BY <2>1 DEF PartInv, OpenFileInv, InFile, endVars, fileVars
  <2> QED
    BY <2>2, <2>3, <2>4 DEF PartInv
<1> QED
  BY <1>2, <1>3, <1>4, <1>5, <1>6, <1>7, <1>8 DEF main_loop_consumer

LEMMA StepPart == MbufsAccounted /\ LimitInv /\ PartInv /\ [Next]_vars => PartInv'
<1> SUFFICES ASSUME MbufsAccounted, LimitInv, PartInv, [Next]_vars PROVE PartInv'
  OBVIOUS
<1> USE DEF consumerVars, rotationVars, countVars, fileVars
<1>1. ASSUME NEW how \in {"exited", "crashed", "undefined"}, Stop(how) PROVE PartInv'
  BY <1>1, ShutdownPart DEF Stop, ringVars
<1>2. CASE main_loop_producer
  BY <1>2, ProducerPart
<1>3. CASE main_loop_consumer
  BY <1>3, ConsumerPart
<1>4. CASE \E h \in Handlers : sig_handler(h)
  <2>1. PICK h \in Handlers : sig_handler(h)
    BY <1>4
  <2>2. CASE PrintStatsFails \/ HandlerExits(h)
    BY <1>1, <2>2 DEF PrintStatsFails, HandlerExits
  <2>3. CASE ~(PrintStatsFails \/ HandlerExits(h))
    <3>1. UNCHANGED <<producerVars, ring, consumer, m, files>>
      BY <2>1, <2>3 DEF sig_handler, EnterHandler, PrintStats, HandlerCloses, ringVars
    <3>2. do_shutdown' = TRUE
      <4>1. CASE EnterHandler(h)
        BY <4>1 DEF EnterHandler
      <4>2. CASE PrintStats(h) \/ HandlerCloses(h)
        <5>1. handlers[h] # "idle" /\ do_shutdown' = do_shutdown
          BY <2>3, <4>2 DEF PrintStats, HandlerCloses
        <5>2. do_shutdown \in BOOLEAN
          BY DEF MbufsAccounted, TypeOK
        <5>3. ~OpenFileInv
          BY <5>1 DEF OpenFileInv
        <5> QED
          BY <5>1, <5>2, <5>3 DEF PartInv
      <4> QED
        BY <2>1, <2>3, <4>1, <4>2 DEF sig_handler
    <3> QED
      BY <3>1, <3>2, ShutdownPart
  <2> QED
    BY <2>2, <2>3
<1>5. CASE alarm_routine \/ SecondProducer
  BY <1>1, <1>5 DEF alarm_routine, PrintStatsFails, SecondProducer
<1>6. CASE Second \/ UNCHANGED vars
  BY <1>6, ShutdownPart DEF Second, vars, endVars, ringVars
<1> QED
  BY <1>2, <1>3, <1>4, <1>5, <1>6 DEF Next

\* For any number of packets, of rotations and of seconds, and a clock that may
\* be set back at any time, as long as one lcore produces and every packet so
\* far fits its mbuf: what the numbered files hold is what was dumped, in
\* capture order, and no file spans more than -G seconds.
THEOREM FilesCorrect == Spec => []FilesPartition
<1>1. PartInv => FilesPartition
  BY DEF PartInv
<1> QED
  BY <1>1, InitAccounted, InitLimits, InitPart, StepAccounted, StepLimits, StepPart, PTL DEF Spec
=============================================================================
