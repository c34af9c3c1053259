------------------------- MODULE DumpPipelineProofs -------------------------
(***************************************************************************)
(* What holds of the DPDK dumper for every pool, every ring and every      *)
(* number of packets.  MbufsAccounted is not inductive: one has to know in *)
(* which steps a lcore has an mbuf in its hands, and that the packet being *)
(* enqueued was not lost before.  The files come after the mbufs.          *)
(***************************************************************************)
EXTENDS DumpPipeline, TLAPS, SequenceTheorems, FiniteSetTheorems

Hands ==
  /\ filling = IF producer = "enqueue" THEN <<PcapHdr>> ELSE <<>>
  /\ IF consumer \in {"start", "dequeue"} THEN m = <<>> ELSE Len(m) = 1
  /\ producer \in {"alloc", "enqueue"} => PcapHdr \in Packet /\ PcapHdr.n \notin leaked
  /\ leaked \subseteq 1..PcapHdr.n

Dumper == dumper \in [state : {"none", "open", "closed"}, to : (0..MaxTime) \X BOOLEAN]

IInv == MbufsAccounted /\ Hands /\ Dumper

\* What the sum is made of.
LEMMA Lengths ==
  ASSUME IInv
  PROVE  /\ Len(filling) \in Nat /\ Len(ring) \in Nat /\ Len(m) \in Nat
         /\ filling \in Seq(Packet) /\ ring \in Seq(Packet) /\ m \in Seq(Packet)
         /\ pool \in Nat /\ PoolSize \in Nat
         /\ IsFiniteSet(leaked) /\ Cardinality(leaked) \in Nat
<1>1. filling \in Seq(Packet) /\ ring \in Seq(Packet) /\ m \in Seq(Packet)
  BY DEF IInv, MbufsAccounted, TypeOK
<1>2. PoolSize \in Nat /\ MaxPackets \in Nat
  BY SizeAssumption DEF SizeAssumption
<1>3. pool \in Nat
  BY <1>2 DEF IInv, MbufsAccounted, TypeOK
<1>4. IsFiniteSet(1..MaxPackets)
  BY <1>2, FS_Interval
<1>5. IsFiniteSet(leaked)
  BY <1>4, FS_Subset DEF IInv, MbufsAccounted, TypeOK
<1> QED
  BY <1>1, <1>2, <1>3, <1>5, FS_CardinalityType

LEMMA InitIInv == Init => IInv
<1> SUFFICES ASSUME Init PROVE IInv
  OBVIOUS
<1>1. PoolSize \in Nat /\ MaxTime \in Nat /\ data_room \in Nat
  <2>1. PICK asked \in DataRooms : data_room = asked % Word
    BY DEF Init
  <2>2. asked \in Nat /\ Word \in Nat \ {0} /\ PoolSize \in Nat /\ MaxTime \in Nat
    BY SizeAssumption DEF SizeAssumption
  <2> QED
    BY <2>1, <2>2
<1>2. filling = <<>> /\ ring = <<>> /\ m = <<>> /\ leaked = {} /\ pool = PoolSize
  BY DEF Init
<1>3. DOMAIN files = {}
  BY DEF Init
<1>4. Dumper /\ dumper.state = "none"
  <2>1. 0 \in 0..MaxTime /\ FALSE \in BOOLEAN
    BY <1>1
  <2>2. <<0, FALSE>> \in (0..MaxTime) \X BOOLEAN
    BY <2>1
  <2>3. dumper = [state |-> "none", to |-> <<0, FALSE>>]
    BY DEF Init
  <2> QED
    BY <2>2, <2>3 DEF Dumper
<1>5. Hands
  BY <1>2 DEF Init, Hands
<1>6. TypeOK
  <2>1. \A s \in {filling, ring, m} : s \in Seq(Packet)
    <3>1. <<>> \in Seq(Packet)
      OBVIOUS
    <3> QED
      BY <1>2, <3>1
  <2>2. handlers \in [{"signal", "limit"} -> {"idle", "stats", "close", "rename", "exit"}]
    BY DEF Init
  <2>3. now \in 0..MaxTime /\ {last_rotation, file} \subseteq 0..MaxTime
    BY <1>1 DEF Init
  <2>4. {nb_rotations, nb_dumped_packets, sz_dumped_file} \subseteq Nat
    BY DEF Init
  <2>5. PcapHdr \in Packet \cup {NoPacket} /\ pool \in 0..PoolSize
    BY <1>1 DEF Init
  <2> QED
    BY <1>1, <1>2, <1>3, <1>4, <2>1, <2>2, <2>3, <2>4, <2>5 DEF Init, TypeOK
<1>7. MbufsAccounted
  BY <1>1, <1>2, <1>6, FS_EmptySet DEF MbufsAccounted
<1> QED
  BY <1>4, <1>5, <1>7 DEF IInv

\* A step that ends the process moves nothing.
LEMMA StopIInv ==
  ASSUME IInv, NEW how \in {"exited", "crashed", "undefined"}, Stop(how)
  PROVE  IInv'
<1> USE DEF Stop, producerVars, ringVars, consumerVars, rotationVars, countVars, fileVars
<1>1. TypeOK'
  BY DEF IInv, MbufsAccounted, TypeOK
<1>2. Hands' /\ Dumper'
  BY DEF IInv, Hands, Dumper
<1>3. UNCHANGED <<pool, filling, ring, m, leaked>>
  OBVIOUS
<1> QED
  BY <1>1, <1>2, <1>3 DEF IInv, MbufsAccounted

\* The producer lcore: an mbuf goes from the pool into its hands, and on to
\* the ring or, if that is full, out of the program's reach.
LEMMA ProducerIInv ==
  ASSUME IInv, packet_producer
  PROVE  IInv'
<1> USE DEF endVars, ringVars, consumerVars, rotationVars, countVars, fileVars
<1>0. /\ TypeOK /\ Hands /\ Dumper
      /\ pool + Len(filling) + Len(ring) + Len(m) + Cardinality(leaked) = PoolSize
      /\ PoolSize <= RingCapacity => leaked = {}
  BY DEF IInv, MbufsAccounted
<1>1. CASE \E how \in {"exited", "crashed", "undefined"} : Stop(how)
  BY <1>1, StopIInv
<1>2. CASE PcapStartUp /\ producer' = "next" /\
           UNCHANGED <<endVars, now, PcapHdr, clockSetBack, filling, ringVars, consumerVars, fileVars>>
  <2>1. TypeOK'
    BY <1>0, <1>2 DEF TypeOK
  <2>2. Hands' /\ Dumper'
    BY <1>0, <1>2 DEF Hands, PcapStartUp, Dumper
  <2> QED
    BY <1>0, <1>2, <2>1, <2>2 DEF IInv, MbufsAccounted
<1>3. CASE /\ producer = "next" /\ PcapHdr.n < MaxPackets
           /\ \E ts \in 0..now, size \in Sizes :
                /\ PcapHdr' = [n |-> PcapHdr.n + 1, ts |-> ts, size |-> size]
                /\ clockSetBack' = (clockSetBack \/ ts < PcapHdr.ts)
                /\ producer' = IF size > buf_size THEN "next" ELSE "alloc"
           /\ UNCHANGED <<endVars, now, filling, ringVars, consumerVars, fileVars>>
  <2>1. PICK ts \in 0..now, size \in Sizes :
          /\ PcapHdr' = [n |-> PcapHdr.n + 1, ts |-> ts, size |-> size]
          /\ clockSetBack' = (clockSetBack \/ ts < PcapHdr.ts)
          /\ producer' = IF size > buf_size THEN "next" ELSE "alloc"
    BY <1>3
  <2>2. PcapHdr.n \in 0..MaxPackets /\ PcapHdr.ts \in 0..MaxTime /\ MaxPackets \in Nat /\ MaxTime \in Nat
    <3>1. MaxPackets \in Nat /\ MaxTime \in Nat
      BY SizeAssumption DEF SizeAssumption
    <3>2. PcapHdr \in Packet \/ PcapHdr = NoPacket
      BY <1>0 DEF TypeOK
    <3>3. CASE PcapHdr \in Packet
      BY <3>1, <3>3 DEF Packet
    <3>4. CASE PcapHdr = NoPacket
      BY <3>1, <3>4 DEF NoPacket
    <3> QED
      BY <3>1, <3>2, <3>3, <3>4
  <2>3. PcapHdr.n + 1 \in 1..MaxPackets /\ ts \in 0..MaxTime
    <3>1. now \in 0..MaxTime
      BY <1>0 DEF TypeOK
    <3>2. PcapHdr.n < MaxPackets
      BY <1>3
    <3> QED
      BY <2>2, <3>1, <3>2
  <2>4. PcapHdr' \in Packet /\ PcapHdr'.n = PcapHdr.n + 1
    BY <2>1, <2>3 DEF Packet
  <2>5. PcapHdr.n + 1 \notin leaked /\ leaked \subseteq 1..PcapHdr.n + 1
    BY <1>0, <2>2 DEF Hands
  <2>6. TypeOK'
    <3>1. clockSetBack' \in BOOLEAN
      BY <2>1, Zenon
    <3>2. producer' \in {"start", "next", "alloc", "enqueue"}
      BY <2>1
    <3> QED
      BY <1>0, <1>3, <2>4, <3>1, <3>2 DEF TypeOK
  <2>7. Hands' /\ Dumper'
    BY <1>0, <1>3, <2>1, <2>4, <2>5 DEF Hands, Dumper
  <2> QED
    BY <1>0, <1>3, <2>6, <2>7 DEF IInv, MbufsAccounted
<1>4. CASE /\ producer = "alloc" /\ pool > 0
           /\ pool' = pool - 1 /\ filling' = <<PcapHdr>> /\ producer' = "enqueue"
           /\ UNCHANGED <<endVars, now, PcapHdr, clockSetBack, data_room, ring, leaked,
                          consumerVars, fileVars>>
  <2>1. /\ pool' = pool - 1 /\ filling' = <<PcapHdr>> /\ producer' = "enqueue"
        /\ UNCHANGED <<endVars, now, PcapHdr, clockSetBack, data_room, ring, leaked,
                       consumerVars, fileVars>>
        /\ producer = "alloc"
    BY <1>4
  <2>2. PcapHdr \in Packet /\ filling = <<>> /\ PcapHdr.n \notin leaked
    BY <1>0, <2>1 DEF Hands
  <2>3. filling' \in Seq(Packet) /\ Len(filling') = 1 /\ Len(filling) = 0
    BY <2>1, <2>2
  <2>4. pool' \in 0..PoolSize
    BY <1>0, <1>4, <2>1, SizeAssumption, SMTT(20) DEF TypeOK, SizeAssumption
  <2>5. TypeOK'
    BY <1>0, <2>1, <2>3, <2>4 DEF TypeOK
  <2>6. Hands' /\ Dumper'
    BY <1>0, <2>1, <2>2 DEF Hands, Dumper
  <2>7. (pool + Len(filling) + Len(ring) + Len(m) + Cardinality(leaked))' = PoolSize
    BY <1>0, <2>1, <2>3, Lengths
  <2> QED
    BY <1>0, <2>1, <2>5, <2>6, <2>7 DEF IInv, MbufsAccounted
<1>5. CASE Enqueue
  <2>1. filling = <<PcapHdr>> /\ PcapHdr \in Packet /\ PcapHdr.n \notin leaked
    BY <1>0, <1>5 DEF Enqueue, Hands
  <2>2. /\ filling' = <<>> /\ producer' = "next"
        /\ UNCHANGED <<endVars, now, PcapHdr, clockSetBack, data_room, pool, consumerVars, fileVars>>
    BY <1>5 DEF Enqueue
  <2>3. Len(filling) = 1 /\ filling[1] = PcapHdr /\ Len(filling') = 0 /\ filling' \in Seq(Packet)
    BY <2>1, <2>2
  <2>4. RingCapacity \in Nat
    BY SizeAssumption DEF SizeAssumption, RingCapacity
  <2>5. CASE Len(ring) < RingCapacity
    <3>1. ring' = ring \o filling /\ leaked' = leaked
      BY <1>5, <2>5 DEF Enqueue
    <3>2. ring' \in Seq(Packet) /\ Len(ring') = Len(ring) + 1
      <4>1. ring \in Seq(Packet) /\ filling \in Seq(Packet)
        BY Lengths
      <4>2. /\ ring \o filling \in Seq(Packet)
            /\ Len(ring \o filling) = Len(ring) + Len(filling)
        BY <4>1, ConcatProperties
      <4> QED
        BY <2>3, <3>1, <4>2
    <3>3. TypeOK'
      BY <1>0, <2>2, <2>3, <3>1, <3>2 DEF TypeOK
    <3>4. Hands' /\ Dumper'
      BY <1>0, <2>2, <3>1 DEF Hands, Dumper
    <3>5. (pool + Len(filling) + Len(ring) + Len(m) + Cardinality(leaked))' = PoolSize
      BY <1>0, <2>2, <2>3, <3>1, <3>2, Lengths
    <3> QED
      BY <1>0, <3>1, <3>3, <3>4, <3>5 DEF IInv, MbufsAccounted, RingCapacity
  <2>6. CASE ~(Len(ring) < RingCapacity)
    <3>1. leaked' = leaked \cup {PcapHdr.n} /\ ring' = ring
      BY <1>5, <2>3, <2>6 DEF Enqueue
    <3>2. Cardinality(leaked') = Cardinality(leaked) + 1
      BY <2>1, <3>1, Lengths, FS_AddElement
    <3>3. PcapHdr.n \in 1..MaxPackets
      BY <2>1 DEF Packet
    <3>4. leaked' \subseteq 1..MaxPackets /\ leaked' \subseteq 1..PcapHdr.n
      <4>1. leaked \subseteq 1..MaxPackets /\ leaked \subseteq 1..PcapHdr.n
        BY <1>0 DEF TypeOK, Hands
      <4>2. PcapHdr.n \in 1..PcapHdr.n
        BY <3>3
      <4> QED
        BY <3>1, <3>3, <4>1, <4>2
    <3>5. TypeOK'
      BY <1>0, <2>2, <2>3, <3>1, <3>4 DEF TypeOK
    <3>6. Hands' /\ Dumper'
      BY <1>0, <2>2, <3>4 DEF Hands, Dumper
    <3>7. (pool + Len(filling) + Len(ring) + Len(m) + Cardinality(leaked))' = PoolSize
      BY <1>0, <2>2, <2>3, <3>1, <3>2, Lengths
    <3>8. ~(PoolSize <= RingCapacity)
      BY <1>0, <2>3, <2>4, <2>6, Lengths
    <3> QED
      BY <3>5, <3>6, <3>7, <3>8 DEF IInv, MbufsAccounted, RingCapacity
  <2> QED
    BY <2>5, <2>6
<1> QED
  BY <1>1, <1>2, <1>3, <1>4, <1>5 DEF packet_producer, PcapStartUp, PcapNextEx, Alloc

-----------------------------------------------------------------------------
(* The file a dumper writes is there, whatever is closed, renamed, opened. *)

Writes ==
  /\ Dumper
  /\ DOMAIN files \subseteq (0..MaxTime) \X BOOLEAN
  /\ dumper.state # "none" => dumper.to \in DOMAIN files

LEMMA OpenWrites ==
  ASSUME Writes, NEW t \in 0..MaxTime, OpenFile(t)
  PROVE  Writes' /\ file' = t
<1>1. <<t, FALSE>> \in (0..MaxTime) \X BOOLEAN
  OBVIOUS
<1>2. dumper' = [state |-> "open", to |-> <<t, FALSE>>] /\ file' = t
  BY DEF OpenFile
<1>3. DOMAIN files' = DOMAIN files \cup {<<t, FALSE>>}
  BY DEF OpenFile
<1> QED
  BY <1>1, <1>2, <1>3 DEF Writes, Dumper

LEMMA CloseWrites ==
  ASSUME Writes, CloseDumper, UNCHANGED files, process \in {"running", "exited", "crashed", "undefined"}
  PROVE  Writes' /\ process' \in {"running", "exited", "crashed", "undefined"}
<1>1. CASE dumper.state # "none" /\ dumper' = [dumper EXCEPT !.state = "closed"] /\ UNCHANGED process
  <2>1. dumper' \in [state : {"none", "open", "closed"}, to : (0..MaxTime) \X BOOLEAN]
    BY <1>1 DEF Writes, Dumper
  <2>2. dumper'.to = dumper.to
    BY <1>1 DEF Writes, Dumper
  <2> QED
    BY <1>1, <2>1, <2>2 DEF Writes, Dumper
<1>2. CASE process' = "crashed" /\ UNCHANGED dumper
  BY <1>2 DEF Writes, Dumper
<1> QED
  BY <1>1, <1>2 DEF CloseDumper

LEMMA RenameWrites ==
  ASSUME Writes, Rename, file \in 0..MaxTime
  PROVE  Writes'
<1> DEFINE from == <<file, FALSE>>
           ready == <<file, TRUE>>
<1>1. from \in (0..MaxTime) \X BOOLEAN /\ ready \in (0..MaxTime) \X BOOLEAN
  OBVIOUS
<1>2. CASE from \in DOMAIN files
  <2>1. DOMAIN files' = (DOMAIN files \ {from}) \cup {ready}
    BY <1>2 DEF Rename
  <2>2. dumper' = [dumper EXCEPT !.to = IF dumper.to = from THEN ready ELSE dumper.to]
    BY <1>2 DEF Rename
  <2> HIDE DEF from, ready
  <2>3. /\ dumper' \in [state : {"none", "open", "closed"}, to : (0..MaxTime) \X BOOLEAN]
        /\ dumper'.state = dumper.state
        /\ dumper'.to = IF dumper.to = from THEN ready ELSE dumper.to
    BY <1>1, <2>2 DEF Writes, Dumper
  <2> QED
    BY <1>1, <2>1, <2>3 DEF Writes, Dumper
<1>3. CASE from \notin DOMAIN files
  BY <1>3 DEF Rename, Writes, Dumper
<1> QED
  BY <1>2, <1>3

\* Past its dequeue the consumer holds a packet.
LEMMA ConsumersPacket ==
  ASSUME IInv, consumer \notin {"start", "dequeue"}
  PROVE  Len(m) = 1 /\ m[1] \in Packet
<1>1. Len(m) = 1 /\ m \in Seq(Packet)
  BY DEF IInv, MbufsAccounted, Hands, TypeOK
<1> QED
  BY <1>1, ElementOfSeq

\* Whoever moves no mbuf keeps the sum, if it keeps the types and the hands.
LEMMA NothingMoved ==
  ASSUME IInv, UNCHANGED <<producerVars, ringVars, m>>,
         process' \in {"running", "exited", "crashed", "undefined"}, do_shutdown' \in BOOLEAN,
         handlers' \in [{"signal", "limit"} -> {"idle", "stats", "close", "rename", "exit"}],
         now' \in 0..MaxTime,
         consumer' \in {"start", "dequeue", "rotate", "close", "rename", "reopen", "dump",
                        "free", "limit"},
         consumer \in {"start", "dequeue"} <=> consumer' \in {"start", "dequeue"},
         last_rotation' \in 0..MaxTime, file' \in 0..MaxTime,
         nb_rotations' \in Nat, nb_dumped_packets' \in Nat, sz_dumped_file' \in Nat,
         Writes'
  PROVE  IInv'
<1> USE DEF producerVars, ringVars
<1>1. TypeOK'
  <2>1. dumper'.state \in {"none", "open", "closed"}
    BY DEF Writes, Dumper
  <2> QED
    BY <2>1 DEF IInv, MbufsAccounted, TypeOK, Writes
<1>2. Hands' /\ Dumper'
  BY DEF IInv, Hands, Writes
<1> QED
  BY <1>1, <1>2 DEF IInv, MbufsAccounted

\* The consumer lcore: the mbuf comes off the ring and goes back to the pool,
\* whichever way the loop takes meanwhile.
LEMMA ConsumerIInv ==
  ASSUME IInv, packet_consumer
  PROVE  IInv'
<1> USE DEF endVars, producerVars, ringVars, rotationVars, countVars, fileVars
<1>0. /\ TypeOK /\ Hands /\ Dumper /\ Writes
      /\ pool + Len(filling) + Len(ring) + Len(m) + Cardinality(leaked) = PoolSize
      /\ PoolSize <= RingCapacity => leaked = {}
  BY DEF IInv, MbufsAccounted, TypeOK, Writes
<1>t. /\ process \in {"running", "exited", "crashed", "undefined"} /\ do_shutdown \in BOOLEAN
      /\ handlers \in [{"signal", "limit"} -> {"idle", "stats", "close", "rename", "exit"}]
      /\ now \in 0..MaxTime /\ last_rotation \in 0..MaxTime /\ file \in 0..MaxTime
      /\ nb_rotations \in Nat /\ nb_dumped_packets \in Nat /\ sz_dumped_file \in Nat
  BY <1>0 DEF TypeOK
<1>1. ASSUME NEW how \in {"exited", "crashed", "undefined"}, Stop(how) PROVE IInv'
  BY <1>1, StopIInv
<1>2. CASE StartConsumer
  <2>1. CASE /\ last_rotation' = now /\ OpenFile(now) /\ consumer' = "dequeue"
             /\ UNCHANGED <<endVars, now, producerVars, ringVars, m, nb_rotations, countVars>>
    <3>1. Writes' /\ file' = now
      BY <1>0, <1>t, <2>1, OpenWrites
    <3> QED
      BY <1>2, <1>t, <2>1, <3>1, NothingMoved DEF StartConsumer
  <2> QED
    BY <1>1, <1>2, <2>1 DEF StartConsumer
<1>3. CASE Dequeue
  <2>1. /\ m' = <<Head(ring)>> /\ ring' = Tail(ring) /\ consumer' = "rotate" /\ ring # <<>>
        /\ UNCHANGED <<endVars, now, producerVars, data_room, pool, leaked, rotationVars, countVars,
                       fileVars>>
    BY <1>3 DEF Dequeue
  <2>2. ring \in Seq(Packet)
    BY Lengths
  <2>3. Head(ring) \in Packet /\ Tail(ring) \in Seq(Packet) /\ Len(Tail(ring)) = Len(ring) - 1
    BY <2>1, <2>2, HeadTailProperties
  <2>4. m' \in Seq(Packet) /\ Len(m') = 1 /\ Len(m) = 0
    BY <1>0, <1>3, <2>1, <2>3 DEF Dequeue, Hands
  <2>5. TypeOK'
    BY <1>0, <2>1, <2>3, <2>4 DEF TypeOK
  <2>6. Hands' /\ Dumper'
    BY <1>0, <2>1, <2>4 DEF Hands, Dumper
  <2>7. (pool + Len(filling) + Len(ring) + Len(m) + Cardinality(leaked))' = PoolSize
    BY <1>0, <2>1, <2>3, <2>4, Lengths
  <2> QED
    BY <1>0, <2>1, <2>5, <2>6, <2>7 DEF IInv, MbufsAccounted
<1>4. CASE CheckRotation
  <2>1. m[1].ts \in 0..MaxTime
    BY <1>4, ConsumersPacket DEF CheckRotation, Packet
  <2>2. /\ consumer = "rotate" /\ consumer' \in {"limit", "close", "dump"}
        /\ last_rotation' \in 0..MaxTime /\ nb_rotations' \in Nat
        /\ UNCHANGED <<endVars, now, producerVars, ringVars, m, countVars, fileVars>>
    BY <1>4, <1>t, <2>1 DEF CheckRotation
  <2>3. Writes'
    BY <1>0, <2>2 DEF Writes, Dumper
  <2> QED
    BY <1>t, <2>2, <2>3, NothingMoved
<1>5. CASE CloseFile
  <2>1. /\ consumer = "close" /\ consumer' = "rename" /\ CloseDumper
        /\ UNCHANGED <<do_shutdown, handlers, now, producerVars, ringVars, m, rotationVars,
                       countVars, file, files>>
    BY <1>5 DEF CloseFile
  <2>2. Writes' /\ process' \in {"running", "exited", "crashed", "undefined"}
    BY <1>0, <1>t, <2>1, CloseWrites
  <2> QED
    BY <1>t, <2>1, <2>2, NothingMoved
<1>6. CASE RenameFile
  <2>1. /\ consumer = "rename" /\ consumer' = "reopen" /\ Rename
        /\ UNCHANGED <<endVars, now, producerVars, ringVars, m, rotationVars, countVars, file>>
    BY <1>6 DEF RenameFile
  <2>2. Writes'
    BY <1>0, <1>t, <2>1, RenameWrites
  <2> QED
    BY <1>t, <2>1, <2>2, NothingMoved
<1>7. CASE ReopenFile
  <2>1. CASE /\ OpenFile(last_rotation) /\ consumer' = "dump"
             /\ UNCHANGED <<endVars, now, producerVars, ringVars, m, rotationVars, countVars>>
    <3>1. Writes' /\ file' = last_rotation
      BY <1>0, <1>t, <2>1, OpenWrites
    <3> QED
      BY <1>7, <1>t, <2>1, <3>1, NothingMoved DEF ReopenFile
  <2> QED
    BY <1>1, <1>7, <2>1 DEF ReopenFile
<1>8. CASE Dump
  <2>1. CASE dumper.state # "open" /\ Stop("crashed")
    BY <1>1, <2>1
  <2>2. CASE ~(dumper.state # "open" /\ Stop("crashed"))
    <3>1. m[1].size \in Nat /\ HeaderSize \in Nat
      BY <1>8, ConsumersPacket, SizeAssumption DEF Dump, Packet, SizeAssumption
    <3>2. /\ consumer = "dump" /\ consumer' = IF LimitReached THEN "limit" ELSE "free"
          /\ nb_dumped_packets' = nb_dumped_packets + 1
          /\ sz_dumped_file' = sz_dumped_file + m[1].size + HeaderSize
          /\ UNCHANGED <<endVars, now, producerVars, ringVars, m, rotationVars, file, dumper>>
          /\ DOMAIN files' = DOMAIN files
      BY <1>8, <2>2 DEF Dump
    <3>3. Writes'
      BY <1>0, <3>2 DEF Writes, Dumper
    <3>4. nb_dumped_packets' \in Nat /\ sz_dumped_file' \in Nat /\ consumer' \in {"limit", "free"}
      BY <1>t, <3>1, <3>2
    <3> QED
      BY <1>t, <3>2, <3>3, <3>4, NothingMoved
  <2> QED
    BY <2>1, <2>2
<1>9. CASE Free
  <2>1. /\ consumer = "free" /\ consumer' = "dequeue" /\ pool' = pool + 1 /\ m' = <<>>
        /\ UNCHANGED <<endVars, now, producerVars, data_room, ring, leaked, rotationVars, countVars,
                       fileVars>>
    BY <1>9 DEF Free
  <2>2. Len(m) = 1 /\ m' \in Seq(Packet) /\ Len(m') = 0
    BY <1>0, <2>1 DEF Hands
  <2>3. (pool + Len(filling) + Len(ring) + Len(m) + Cardinality(leaked))' = PoolSize
    BY <1>0, <2>1, <2>2, Lengths
  <2>4. pool' \in 0..PoolSize
    BY <1>0, <2>1, <2>2, Lengths
  <2>5. TypeOK'
    BY <1>0, <2>1, <2>2, <2>4 DEF TypeOK
  <2>6. Hands' /\ Dumper'
    BY <1>0, <2>1 DEF Hands, Dumper
  <2> QED
    BY <1>0, <2>1, <2>3, <2>5, <2>6 DEF IInv, MbufsAccounted
<1> QED
  BY <1>2, <1>3, <1>4, <1>5, <1>6, <1>7, <1>8, <1>9 DEF packet_consumer

\* Signals move no mbuf, whatever they do to the file.
LEMMA SignalIInv ==
  ASSUME IInv, NEW h \in {"signal", "limit"}, sig_handler(h)
  PROVE  IInv'
<1> USE DEF producerVars, ringVars, consumerVars, rotationVars, countVars
<1>0. /\ process \in {"running", "exited", "crashed", "undefined"} /\ do_shutdown \in BOOLEAN
      /\ handlers \in [{"signal", "limit"} -> {"idle", "stats", "close", "rename", "exit"}]
      /\ now \in 0..MaxTime /\ last_rotation \in 0..MaxTime /\ file \in 0..MaxTime
      /\ nb_rotations \in Nat /\ nb_dumped_packets \in Nat /\ sz_dumped_file \in Nat
      /\ consumer \in {"start", "dequeue", "rotate", "close", "rename", "reopen", "dump",
                       "free", "limit"}
      /\ Writes
  BY DEF IInv, MbufsAccounted, TypeOK, Writes
<1>1. CASE PrintStatsFails \/ HandlerExits(h)
  BY <1>1, StopIInv DEF PrintStatsFails, HandlerExits
<1>2. CASE ~(PrintStatsFails \/ HandlerExits(h))
  <2>1. UNCHANGED <<now, producerVars, ringVars, consumerVars, file>> /\ do_shutdown' \in BOOLEAN
    BY <1>0, <1>2 DEF sig_handler, EnterHandler, PrintStats, HandlerCloses, HandlerRenames, fileVars
  <2>2. handlers' \in [{"signal", "limit"} -> {"idle", "stats", "close", "rename", "exit"}]
    BY <1>0, <1>2 DEF sig_handler, EnterHandler, PrintStats, HandlerCloses, HandlerRenames
  <2>3. Writes' /\ process' \in {"running", "exited", "crashed", "undefined"}
    <3>1. CASE EnterHandler(h) \/ PrintStats(h)
      BY <1>0, <1>2, <3>1 DEF EnterHandler, PrintStats, fileVars, Writes, Dumper
    <3>2. CASE HandlerCloses(h)
      BY <1>0, <3>2, CloseWrites DEF HandlerCloses
    <3>3. CASE HandlerRenames(h)
      BY <1>0, <3>3, RenameWrites DEF HandlerRenames
    <3> QED
      BY <1>2, <3>1, <3>2, <3>3 DEF sig_handler
  <2> QED
    BY <1>0, <2>1, <2>2, <2>3, NothingMoved
<1> QED
  BY <1>1, <1>2

LEMMA StepIInv == IInv /\ [Next]_vars => IInv'
<1> SUFFICES ASSUME IInv, [Next]_vars PROVE IInv'
  OBVIOUS
<1>1. CASE packet_producer
  BY <1>1, ProducerIInv
<1>2. CASE packet_consumer
  BY <1>2, ConsumerIInv
<1>3. CASE \E h \in {"signal", "limit"} : sig_handler(h)
  BY <1>3, SignalIInv
<1>4. CASE Alarm
  BY <1>4, StopIInv DEF Alarm, PrintStatsFails
<1>5. CASE Second \/ UNCHANGED vars
  <2>1. UNCHANGED <<endVars, producerVars, ringVars, consumerVars, fileVars>>
    BY <1>5 DEF Second, vars
  <2>2. now' \in 0..MaxTime
    BY <1>5, SizeAssumption, SMTT(20) DEF Second, vars, IInv, MbufsAccounted, TypeOK, SizeAssumption
  <2>3. Writes'
    BY <2>1 DEF IInv, MbufsAccounted, TypeOK, fileVars, Writes, Dumper
  <2>4. TypeOK'
    BY <2>1, <2>2 DEF IInv, MbufsAccounted, TypeOK, endVars, producerVars, ringVars,
                      consumerVars, rotationVars, countVars, fileVars
  <2>5. Hands' /\ UNCHANGED <<pool, filling, ring, m, leaked>>
    BY <2>1 DEF IInv, Hands, producerVars, ringVars, consumerVars
  <2> QED
    BY <2>3, <2>4, <2>5 DEF IInv, MbufsAccounted, Writes
<1> QED
  BY <1>1, <1>2, <1>3, <1>4, <1>5 DEF Next

\* As long as every packet so far fits its mbuf: for every pool and ring no mbuf is freed twice or forgotten but those of
\* packets the full ring refuses, and with a pool no larger than what the ring
\* holds it refuses none (main_dump.c:113-118 and 179).
THEOREM MbufsCorrect == Spec => []MbufsAccounted
<1>1. IInv => MbufsAccounted
  BY DEF IInv
<1> QED
  BY <1>1, InitIInv, StepIInv, PTL DEF Spec
-----------------------------------------------------------------------------
(***************************************************************************)
(* The files of the DPDK dumper.  From libpcap's header to the files the   *)
(* packets are one queue, and until the clock is set back their times      *)
(* never go back along it.  The only rotation backwards is therefore from  *)
(* the empty file the consumer started with, and until a shutdown begins a *)
(* file name that is used again is that of an empty file.                  *)
(***************************************************************************)

\* Until a shutdown begins each packet is in one file, in capture order.
InOrder ==
  ~do_shutdown =>
    /\ Cardinality(Stored) = nb_dumped_packets
    /\ \A f, g \in DOMAIN files :
         /\ Increasing(files[f])
         /\ f[1] < g[1] => Before(files[f], files[g])

\* The packets up to Delivered have left the producer's hands.
Delivered == IF producer \in {"alloc", "enqueue"} THEN PcapHdr.n - 1 ELSE PcapHdr.n

Holding == consumer \notin {"start", "dequeue"}

PipeOrder ==
  /\ \A i \in DOMAIN ring : ring[i].n <= Delivered /\ ring[i].ts <= PcapHdr.ts
  /\ \A i, j \in DOMAIN ring : i < j => ring[i].n < ring[j].n /\ ring[i].ts <= ring[j].ts
  /\ Holding =>
       /\ m[1].n <= Delivered /\ m[1].ts <= PcapHdr.ts
       /\ \A i \in DOMAIN ring : m[1].n < ring[i].n /\ m[1].ts <= ring[i].ts
  /\ \A d \in Stored :
       /\ d <= Delivered
       /\ \A i \in DOMAIN ring : d < ring[i].n
       /\ consumer \in {"rotate", "close", "rename", "reopen", "dump"} => d < m[1].n

\* Once a packet is in a file no packet is older than the last rotation.
NoWayBack ==
  /\ Stored # {} =>
       /\ last_rotation <= PcapHdr.ts
       /\ \A i \in DOMAIN ring : last_rotation <= ring[i].ts
       /\ Holding => last_rotation <= m[1].ts
  /\ consumer \in {"close", "rename", "reopen", "dump", "free"} => last_rotation <= m[1].ts

\* Files with packets are older than t, but for the one that is written.
Older(t, but) == \A f \in DOMAIN files : files[f] # <<>> => f[1] < t \/ f = but

OpenFileInv ==
  /\ \A h \in {"signal", "limit"} : handlers[h] = "idle"
  /\ consumer = "start" => DOMAIN files = {}
  /\ consumer \in {"dequeue", "rotate", "dump", "free"} =>
       /\ file = last_rotation /\ dumper = [state |-> "open", to |-> <<file, FALSE>>]
       /\ Older(last_rotation, <<file, FALSE>>)
  /\ consumer \in {"close", "rename"} =>
       /\ dumper = [state |-> IF consumer = "close" THEN "open" ELSE "closed",
                    to |-> <<file, FALSE>>]
       /\ Older(file, <<file, FALSE>>)
  /\ consumer \in {"close", "rename", "reopen"} =>
       \A f \in DOMAIN files : files[f] # <<>> => f[1] < last_rotation

FilesInv ==
  /\ \A f \in DOMAIN files : files[f] \in Seq(Packet)
  /\ IsFiniteSet(Stored)

OrderInv ==
  /\ FilesInv /\ PipeOrder /\ InOrder
  /\ ~do_shutdown => OpenFileInv
  /\ ~do_shutdown /\ seconds_rotation > 0 => NoWayBack

\* Everything that is compared is a number.
LEMMA OrderTypes ==
  ASSUME IInv, FilesInv
  PROVE  /\ PcapHdr.n \in Nat /\ PcapHdr.ts \in Nat /\ Delivered \in Int
         /\ ring \in Seq(Packet) /\ DOMAIN ring = 1..Len(ring) /\ Len(ring) \in Nat
         /\ \A i \in DOMAIN ring : ring[i].n \in Nat /\ ring[i].ts \in Nat
         /\ Stored \subseteq Nat
         /\ Holding => m[1].n \in Nat /\ m[1].ts \in Nat
         /\ now \in Nat /\ last_rotation \in Nat /\ file \in Nat /\ seconds_rotation \in Nat
         /\ DOMAIN files \subseteq (0..MaxTime) \X BOOLEAN
         /\ \A f \in DOMAIN files : f[1] \in Nat
<1>0. MaxPackets \in Nat /\ MaxTime \in Nat /\ seconds_rotation \in Nat
  BY SizeAssumption DEF SizeAssumption
<1>1. \A p \in Packet : p.n \in Nat /\ p.ts \in Nat
  BY <1>0 DEF Packet
<1>2. PcapHdr.n \in Nat /\ PcapHdr.ts \in Nat
  BY <1>1 DEF IInv, MbufsAccounted, TypeOK, NoPacket
<1>3. Delivered \in Int
  BY <1>2 DEF Delivered
<1>4. ring \in Seq(Packet)
  BY Lengths
<1>5. ASSUME NEW s \in Seq(Packet), NEW i \in DOMAIN s PROVE s[i].n \in Nat /\ s[i].ts \in Nat
  BY <1>1, <1>5, ElementOfSeq, LenProperties
<1>6. Stored \subseteq Nat
  BY <1>5 DEF FilesInv, Stored, Numbers
<1>7. Holding => m[1].n \in Nat /\ m[1].ts \in Nat
  BY <1>1, ConsumersPacket DEF Holding
<1>8. /\ now \in Nat /\ last_rotation \in Nat /\ file \in Nat
      /\ DOMAIN files \subseteq (0..MaxTime) \X BOOLEAN
  BY <1>0 DEF IInv, MbufsAccounted, TypeOK
<1>9. \A f \in DOMAIN files : f[1] \in Nat
  BY <1>0, <1>8
<1> QED
  BY <1>0, <1>2, <1>3, <1>4, <1>5, <1>6, <1>7, <1>8, <1>9, LenProperties

LEMMA InitOrder == Init => OrderInv
<1> SUFFICES ASSUME Init PROVE OrderInv
  OBVIOUS
<1>1. DOMAIN files = {} /\ Stored = {} /\ DOMAIN ring = {}
  BY DEF Init, Stored
<1>2. PipeOrder
  BY <1>1 DEF Init, PipeOrder, Holding
<1>3. OpenFileInv
  BY <1>1 DEF Init, OpenFileInv
<1>4. InOrder /\ FilesInv
  BY <1>1, FS_EmptySet DEF Init, InOrder, FilesInv
<1>5. NoWayBack
  BY <1>1 DEF Init, NoWayBack
<1> QED
  BY <1>2, <1>3, <1>4, <1>5 DEF OrderInv

LEMMA FilesKept ==
  ASSUME FilesInv, UNCHANGED files
  PROVE  /\ FilesInv' /\ Stored' = Stored
         /\ InOrder /\ UNCHANGED nb_dumped_packets /\ do_shutdown' = do_shutdown => InOrder'
BY DEF FilesInv, InOrder, Stored, Numbers, Before, Increasing

\* Whoever leaves the packets where they are keeps their order; after a
\* shutdown has begun no more than that is claimed.
LEMMA ShutdownOrder ==
  ASSUME OrderInv, UNCHANGED <<producerVars, ring, consumer, m, files>>,
         do_shutdown' = TRUE \/
           UNCHANGED <<do_shutdown, handlers, rotationVars, nb_dumped_packets, file, dumper>>
  PROVE  OrderInv'
<1>1. FilesInv' /\ Stored' = Stored
  BY FilesKept DEF OrderInv
<1>2. PipeOrder'
  BY <1>1 DEF OrderInv, PipeOrder, Delivered, Holding, producerVars
<1>3. CASE do_shutdown' = TRUE
  BY <1>1, <1>2, <1>3 DEF OrderInv, InOrder
<1>4. CASE UNCHANGED <<do_shutdown, handlers, rotationVars, nb_dumped_packets, file, dumper>>
  <2>1. InOrder'
    BY <1>4, FilesKept DEF OrderInv
  <2>2. (~do_shutdown => OpenFileInv)'
    BY <1>4 DEF OrderInv, OpenFileInv, Older, rotationVars
  <2>3. (~do_shutdown /\ seconds_rotation > 0 => NoWayBack)'
    BY <1>1, <1>4 DEF OrderInv, NoWayBack, Holding, rotationVars, producerVars
  <2> QED
    BY <1>1, <1>2, <2>1, <2>2, <2>3 DEF OrderInv
<1> QED
  BY <1>3, <1>4

LEMMA StopOrder ==
  ASSUME OrderInv, NEW how, Stop(how)
  PROVE  OrderInv'
BY ShutdownOrder DEF Stop, ringVars, consumerVars, rotationVars, countVars, fileVars

\* The producer lcore puts a packet at the end of the ring, and none before it.
LEMMA ProducerOrder ==
  ASSUME IInv, OrderInv, packet_producer, ~clockSetBack'
  PROVE  OrderInv'
<1> USE DEF endVars, ringVars, consumerVars, rotationVars, countVars, fileVars
<1>0. FilesInv
  BY DEF OrderInv
<1>1. ASSUME UNCHANGED <<endVars, consumerVars, fileVars>>, PipeOrder',
             seconds_rotation > 0 /\ NoWayBack => NoWayBack'
      PROVE  OrderInv'
  <2>1. FilesInv' /\ InOrder'
    BY <1>1, FilesKept DEF OrderInv
  <2>2. (~do_shutdown => OpenFileInv)'
    BY <1>1 DEF OrderInv, OpenFileInv, Older
  <2> QED
    BY <1>1, <2>1, <2>2 DEF OrderInv
<1>2. ASSUME UNCHANGED <<endVars, ring, consumerVars, fileVars>>, Delivered <= Delivered',
             PcapHdr.ts <= PcapHdr'.ts, Delivered' \in Int, PcapHdr'.ts \in Nat
      PROVE  OrderInv'
  <2>1. Stored' = Stored
    BY <1>2 DEF Stored, Numbers
  <2>2. PipeOrder'
    BY <1>0, <1>2, <2>1, OrderTypes, SMTT(20) DEF OrderInv, PipeOrder, Holding
  <2>3. NoWayBack => NoWayBack'
    BY <1>0, <1>2, <2>1, OrderTypes DEF NoWayBack, Holding
  <2> QED
    BY <1>1, <1>2, <2>2, <2>3
<1>3. CASE PcapStartUp
  <2>1. CASE producer' = "next" /\
             UNCHANGED <<endVars, now, PcapHdr, clockSetBack, filling, ringVars,
                         consumerVars, fileVars>>
    <3>1. Delivered' = Delivered
      BY <1>3, <2>1 DEF PcapStartUp, Delivered
    <3> QED
      BY <1>0, <1>2, <2>1, <3>1, OrderTypes
  <2> QED
    BY <1>3, <2>1, StopOrder DEF PcapStartUp
<1>4. CASE PcapNextEx
  <2>1. CASE Stop("exited")
    BY <2>1, StopOrder
  <2>2. CASE ~Stop("exited")
    <3>1. PICK ts \in 0..now, size \in Sizes :
            /\ PcapHdr' = [n |-> PcapHdr.n + 1, ts |-> ts, size |-> size]
            /\ clockSetBack' = (clockSetBack \/ ts < PcapHdr.ts)
            /\ producer' = IF size > buf_size THEN "next" ELSE "alloc"
      BY <1>4, <2>2 DEF PcapNextEx
    <3>2. producer = "next" /\ UNCHANGED <<endVars, now, filling, ringVars, consumerVars, fileVars>>
      BY <1>4, <2>2 DEF PcapNextEx
    <3>t. ~(ts < PcapHdr.ts)
      BY <3>1, Zenon
    <3>3. PcapHdr'.n = PcapHdr.n + 1 /\ PcapHdr'.ts = ts /\ PcapHdr.ts <= ts /\ ts \in Nat
      BY <1>0, <3>1, <3>t, OrderTypes
    <3>4. Delivered <= Delivered' /\ Delivered' \in Int
      BY <1>0, <3>1, <3>2, <3>3, OrderTypes DEF Delivered
    <3> QED
      BY <1>2, <3>2, <3>3, <3>4
  <2> QED
    BY <2>1, <2>2
<1>5. CASE Alloc
  <2>1. CASE producer' = "enqueue" /\
             UNCHANGED <<endVars, now, PcapHdr, clockSetBack, data_room, ring, leaked,
                         consumerVars, fileVars>>
    <3>1. producer' = "enqueue" /\ producer = "alloc"
      BY <1>5, <2>1 DEF Alloc
    <3>2. Delivered' = Delivered
      BY <2>1, <3>1 DEF Delivered
    <3> QED
      BY <1>0, <1>2, <2>1, <3>2, OrderTypes
  <2> QED
    BY <1>5, <2>1, StopOrder DEF Alloc
<1>6. CASE Enqueue
  <2>1. /\ producer = "enqueue" /\ producer' = "next"
        /\ UNCHANGED <<endVars, PcapHdr, consumerVars, fileVars>>
        /\ ring' = ring \/ ring' = ring \o filling
    BY <1>6 DEF Enqueue
  <2>2. filling = <<PcapHdr>> /\ PcapHdr \in Packet
    BY <2>1 DEF IInv, Hands
  <2>3. Delivered = PcapHdr.n - 1 /\ Delivered' = PcapHdr.n
    BY <2>1 DEF Delivered
  <2>4. CASE ring' = ring
    BY <1>0, <1>2, <2>1, <2>3, <2>4, OrderTypes
  <2>5. CASE ring' = ring \o filling
    <3> DEFINE last == Len(ring) + 1
    <3>1. /\ DOMAIN ring' = 1..last /\ last \in Nat
          /\ \A i \in DOMAIN ring : ring'[i] = ring[i]
          /\ ring'[last] = PcapHdr
      <4>1. ring \in Seq(Packet) /\ filling \in Seq(Packet) /\ Len(filling) = 1 /\ filling[1] = PcapHdr
        BY <1>0, <2>2, OrderTypes
      <4>2. /\ Len(ring \o filling) = Len(ring) + Len(filling)
            /\ ring \o filling \in Seq(Packet)
            /\ \A i \in 1..Len(ring) + Len(filling) :
                 (ring \o filling)[i] = IF i <= Len(ring) THEN ring[i] ELSE filling[i - Len(ring)]
        BY <4>1, ConcatProperties
      <4>3. DOMAIN ring' = 1..Len(ring) + 1
        BY <2>5, <4>1, <4>2, LenProperties
      <4> QED
        BY <1>0, <2>5, <4>1, <4>2, <4>3, OrderTypes
    <3>2. /\ \A i \in DOMAIN ring' : i \in DOMAIN ring \/ i = last
          /\ \A i \in DOMAIN ring : i # last /\ i < last
      BY <1>0, <3>1, OrderTypes
    <3> HIDE DEF last
    <3>3. UNCHANGED <<consumer, m, last_rotation>> /\ Stored' = Stored
      BY <2>1 DEF Stored, Numbers
    <3>4. \A i \in DOMAIN ring' : ring'[i].n <= PcapHdr.n /\ ring'[i].ts <= PcapHdr.ts
      BY <1>0, <2>3, <3>1, <3>2, OrderTypes, SMTT(20) DEF OrderInv, PipeOrder
    <3>5. \A i, j \in DOMAIN ring' : i < j => ring'[i].n < ring'[j].n /\ ring'[i].ts <= ring'[j].ts
      <4> SUFFICES ASSUME NEW i \in DOMAIN ring', NEW j \in DOMAIN ring', i < j
                   PROVE  ring'[i].n < ring'[j].n /\ ring'[i].ts <= ring'[j].ts
        OBVIOUS
      <4>1. i \in DOMAIN ring
        BY <1>0, <3>1, <3>2, OrderTypes
      <4>2. CASE j \in DOMAIN ring
        BY <3>1, <4>1, <4>2 DEF OrderInv, PipeOrder
      <4>3. CASE j = last
        BY <1>0, <2>3, <3>1, <4>1, <4>3, OrderTypes DEF OrderInv, PipeOrder
      <4> QED
        BY <3>2, <4>2, <4>3
    <3>6. Holding =>
            /\ m[1].n <= PcapHdr.n /\ m[1].ts <= PcapHdr.ts
            /\ \A i \in DOMAIN ring' : m[1].n < ring'[i].n /\ m[1].ts <= ring'[i].ts
      BY <1>0, <2>3, <3>1, <3>2, OrderTypes, SMTT(20) DEF OrderInv, PipeOrder
    <3>7. \A d \in Stored :
            /\ d <= PcapHdr.n
            /\ \A i \in DOMAIN ring' : d < ring'[i].n
            /\ consumer \in {"rotate", "close", "rename", "reopen", "dump"} => d < m[1].n
      BY <1>0, <2>3, <3>1, <3>2, OrderTypes, SMTT(20) DEF OrderInv, PipeOrder
    <3>8. PipeOrder'
      BY <2>1, <2>3, <3>3, <3>4, <3>5, <3>6, <3>7 DEF PipeOrder, Holding
    <3>9. NoWayBack => NoWayBack'
      BY <2>1, <3>1, <3>2, <3>3 DEF NoWayBack, Holding
    <3> QED
      BY <1>1, <2>1, <3>8, <3>9
  <2> QED
    BY <2>1, <2>4, <2>5
<1> QED
  BY <1>3, <1>4, <1>5, <1>6 DEF packet_producer

LEMMA DequeueOrder ==
  ASSUME IInv, OrderInv, Dequeue
  PROVE  OrderInv'
<1>0. FilesInv
  BY DEF OrderInv
<1>1. /\ consumer = "dequeue" /\ ring # <<>> /\ consumer' = "rotate"
      /\ m' = <<Head(ring)>> /\ ring' = Tail(ring)
      /\ UNCHANGED <<endVars, producerVars, rotationVars, countVars, fileVars>>
  BY DEF Dequeue
<1>2. /\ m'[1] = ring[1] /\ 1 \in DOMAIN ring
      /\ \A i \in DOMAIN ring' : i + 1 \in DOMAIN ring /\ ring'[i] = ring[i + 1] /\ 1 < i + 1
      /\ DOMAIN ring' \subseteq Nat
  <2>0. ring \in Seq(Packet)
    BY <1>0, OrderTypes
  <2>1. /\ Head(ring) = ring[1] /\ Len(ring) \in Nat \ {0} /\ DOMAIN ring = 1..Len(ring)
        /\ Tail(ring) \in Seq(Packet) /\ Len(Tail(ring)) = Len(ring) - 1
        /\ \A i \in 1..Len(Tail(ring)) : Tail(ring)[i] = ring[i + 1]
    BY <1>1, <2>0, HeadTailProperties, EmptySeq, LenProperties
  <2>2. DOMAIN ring' = 1..Len(ring) - 1
    BY <1>1, <2>1, LenProperties
  <2> QED
    BY <1>1, <2>1, <2>2
<1>3. FilesInv' /\ InOrder' /\ Stored' = Stored /\ Delivered' = Delivered
  BY <1>1, FilesKept DEF OrderInv, fileVars, producerVars, countVars, endVars, Delivered
<1>4. PipeOrder'
  <2>1. \A i, j \in DOMAIN ring' : i < j => ring'[i].n < ring'[j].n /\ ring'[i].ts <= ring'[j].ts
    BY <1>2 DEF OrderInv, PipeOrder
  <2>2. \A i \in DOMAIN ring' :
          /\ ring'[i].n <= Delivered /\ ring'[i].ts <= PcapHdr.ts
          /\ m'[1].n < ring'[i].n /\ m'[1].ts <= ring'[i].ts
    BY <1>2 DEF OrderInv, PipeOrder
  <2>3. /\ m'[1].n <= Delivered /\ m'[1].ts <= PcapHdr.ts
        /\ \A d \in Stored : d <= Delivered /\ d < m'[1].n
    BY <1>2 DEF OrderInv, PipeOrder
  <2>4. \A d \in Stored : \A i \in DOMAIN ring' : d < ring'[i].n
    BY <1>2 DEF OrderInv, PipeOrder
  <2> QED
    BY <1>1, <1>3, <2>1, <2>2, <2>3, <2>4 DEF PipeOrder, producerVars
<1>5. (~do_shutdown => OpenFileInv)'
  BY <1>1 DEF OrderInv, OpenFileInv, Older, endVars, rotationVars, fileVars
<1>6. (~do_shutdown /\ seconds_rotation > 0 => NoWayBack)'
  BY <1>1, <1>2, <1>3 DEF OrderInv, NoWayBack, Holding, endVars, rotationVars, producerVars
<1> QED
  BY <1>3, <1>4, <1>5, <1>6 DEF OrderInv

LEMMA FilesStored ==
  ASSUME NEW f \in DOMAIN files
  PROVE  Numbers(files[f]) \subseteq Stored
BY DEF Stored

\* The consumer's place in the loop moves, its packet and the files do not.
LEMMA LoopOrder ==
  ASSUME OrderInv, UNCHANGED <<producerVars, ring, m, files, nb_dumped_packets, do_shutdown>>,
         consumer \in {"rotate", "close", "rename", "reopen", "dump"},
         consumer' \notin {"start", "dequeue"}
  PROVE  PipeOrder' /\ InOrder' /\ FilesInv' /\ Stored' = Stored
<1>1. InOrder' /\ FilesInv' /\ Stored' = Stored
  BY FilesKept DEF OrderInv
<1> QED
  BY <1>1 DEF OrderInv, PipeOrder, Holding, Delivered, producerVars

LEMMA RotationOrder ==
  ASSUME IInv, OrderInv, CheckRotation
  PROVE  OrderInv'
<1>0. FilesInv
  BY DEF OrderInv
<1>1. /\ consumer = "rotate" /\ consumer' \in {"dump", "close", "limit"}
      /\ UNCHANGED <<endVars, producerVars, ringVars, m, countVars, fileVars>>
  BY DEF CheckRotation
<1>2. PipeOrder' /\ InOrder' /\ FilesInv' /\ Stored' = Stored
  BY <1>1, LoopOrder DEF endVars, ringVars, countVars, fileVars
<1>3. /\ m[1].ts \in Nat /\ last_rotation \in Nat /\ seconds_rotation \in Nat
      /\ \A f \in DOMAIN files : f[1] \in Nat
  BY <1>0, <1>1, OrderTypes DEF Holding
<1>4. CASE consumer' = "dump"
  <2>1. UNCHANGED rotationVars /\ (seconds_rotation > 0 => ~Expired(m[1].ts))
    BY <1>4 DEF CheckRotation
  <2>2. (~do_shutdown => OpenFileInv)'
    BY <1>1, <1>4, <2>1 DEF OrderInv, OpenFileInv, Older, endVars, rotationVars, fileVars
  <2>3. seconds_rotation > 0 => last_rotation <= m[1].ts
    BY <1>3, <2>1 DEF Expired
  <2>4. (~do_shutdown /\ seconds_rotation > 0 => NoWayBack)'
    BY <1>1, <1>2, <1>4, <2>1, <2>3
       DEF OrderInv, NoWayBack, Holding, endVars, producerVars, ringVars, rotationVars
  <2> QED
    BY <1>2, <2>2, <2>4 DEF OrderInv
<1>5. CASE consumer' # "dump"
  <2>1. last_rotation' = m[1].ts /\ seconds_rotation > 0 /\ Expired(m[1].ts)
    BY <1>5 DEF CheckRotation
  <2>2. NoWayBack'
    <3>1. m[1].ts <= PcapHdr.ts /\ \A i \in DOMAIN ring : m[1].ts <= ring[i].ts
      BY <1>1 DEF OrderInv, PipeOrder, Holding
    <3> QED
      BY <1>1, <1>3, <2>1, <3>1 DEF NoWayBack, producerVars, ringVars
  <2>3. ASSUME ~do_shutdown PROVE OpenFileInv'
    <3>1. OpenFileInv /\ NoWayBack
      BY <2>1, <2>3 DEF OrderInv
    <3>2. \A f \in DOMAIN files : files[f] # <<>> => f[1] < m[1].ts
      <4> SUFFICES ASSUME NEW f \in DOMAIN files, files[f] # <<>> PROVE f[1] < m[1].ts
        OBVIOUS
      <4>1. Stored # {}
        <5>1. files[f] \in Seq(Packet)
          BY <1>0 DEF FilesInv
        <5>2. 1 \in DOMAIN files[f]
          BY <5>1, EmptySeq, LenProperties
        <5> QED
          BY <5>2, FilesStored DEF Numbers
      <4>2. last_rotation <= m[1].ts
        BY <1>1, <3>1, <4>1 DEF NoWayBack, Holding
      <4>3. last_rotation < m[1].ts
        BY <1>3, <2>1, <4>2 DEF Expired
      <4>4. f[1] <= last_rotation
        <5>1. f[1] < last_rotation \/ f = <<last_rotation, FALSE>>
          BY <1>1, <3>1 DEF OpenFileInv, Older
        <5>2. f[1] < last_rotation \/ f[1] = last_rotation
          <6> DEFINE cur == <<last_rotation, FALSE>>
          <6>1. cur[1] = last_rotation
            OBVIOUS
          <6>2. f[1] < last_rotation \/ f = cur
            BY <5>1
          <6> HIDE DEF cur
          <6> QED
            BY <6>1, <6>2
        <5>3. f[1] \in Nat /\ last_rotation \in Nat
          BY <1>3
        <5> QED
          BY <5>2, <5>3
      <4> QED
        BY <1>3, <4>3, <4>4
    <3> QED
      BY <1>1, <1>5, <2>1, <3>1, <3>2 DEF OpenFileInv, Older, endVars, fileVars
  <2> QED
    BY <1>1, <1>2, <2>2, <2>3 DEF OrderInv, endVars
<1> QED
  BY <1>4, <1>5

\* Renaming the file that is written moves its packets.
LEMMA RenameMoves ==
  ASSUME IInv, FilesInv, Rename
  PROVE  /\ FilesInv' /\ Stored' \subseteq Stored
         /\ OpenFileInv /\ consumer = "rename" => Stored' = Stored
<1> DEFINE from == <<file, FALSE>>
           ready == <<file, TRUE>>
<1>1. CASE from \in DOMAIN files
  <2>1. files' = [f \in (DOMAIN files \ {from}) \cup {ready} |->
                    IF f = ready THEN files[from] ELSE files[f]]
    BY <1>1 DEF Rename
  <2>2. from # ready /\ ready[1] = file /\ ready # <<file, FALSE>>
    OBVIOUS
  <2> HIDE DEF from, ready
  <2>3. /\ DOMAIN files' = (DOMAIN files \ {from}) \cup {ready}
        /\ \A f \in DOMAIN files' : files'[f] = IF f = ready THEN files[from] ELSE files[f]
    BY <2>1
  <2>4. Stored' \subseteq Stored
    <3>1. ASSUME NEW f \in DOMAIN files' PROVE Numbers(files'[f]) \subseteq Stored
      BY <1>1, <2>3, <3>1, FilesStored
    <3> QED
      BY <3>1 DEF Stored
  <2>5. FilesInv'
    <3>1. \A f \in DOMAIN files' : files'[f] \in Seq(Packet)
      BY <1>1, <2>3 DEF FilesInv
    <3> QED
      BY <2>4, <3>1, FS_Subset DEF FilesInv
  <2>6. ASSUME OpenFileInv, consumer = "rename" PROVE Stored \subseteq Stored'
    <3>1. ready \in DOMAIN files => files[ready] = <<>>
      <4>1. Older(file, <<file, FALSE>>) /\ file \in Nat
        BY <2>6, OrderTypes DEF OpenFileInv
      <4>2. ~(ready[1] < file)
        BY <2>2, <4>1
      <4> QED
        BY <2>2, <4>1, <4>2 DEF Older
    <3>2. \A f \in DOMAIN files' : Numbers(files'[f]) \subseteq Stored'
      BY DEF Stored
    <3>3. ASSUME NEW f \in DOMAIN files PROVE Numbers(files[f]) \subseteq Stored'
      <4>1. CASE f = ready
        BY <3>1, <4>1 DEF Numbers
      <4>2. CASE f = from
        <5>1. ready \in DOMAIN files' /\ files'[ready] = files[f]
          BY <2>3, <4>2
        <5> QED
          BY <3>2, <5>1
      <4>3. CASE f # from /\ f # ready
        <5>1. f \in DOMAIN files' /\ files'[f] = files[f]
          BY <2>3, <4>3
        <5> QED
          BY <3>2, <5>1
      <4> QED
        BY <4>1, <4>2, <4>3
    <3> QED
      BY <3>3 DEF Stored
  <2> QED
    BY <2>4, <2>5, <2>6
<1>2. CASE from \notin DOMAIN files
  BY <1>2, FilesKept DEF Rename
<1> QED
  BY <1>1, <1>2

LEMMA RenameOrder ==
  ASSUME IInv, OrderInv, RenameFile
  PROVE  OrderInv'
<1>0. FilesInv
  BY DEF OrderInv
<1>1. /\ consumer = "rename" /\ consumer' = "reopen" /\ Rename
      /\ UNCHANGED <<endVars, producerVars, ringVars, m, rotationVars, countVars, file>>
  BY DEF RenameFile
<1>2. /\ FilesInv' /\ Stored' \subseteq Stored
      /\ OpenFileInv => Stored' = Stored
  BY <1>0, <1>1, RenameMoves
<1>3. PipeOrder'
  BY <1>1, <1>2 DEF OrderInv, PipeOrder, Holding, Delivered, producerVars, ringVars
<1>4. (~do_shutdown /\ seconds_rotation > 0 => NoWayBack)'
  <2>1. NoWayBack => NoWayBack'
    BY <1>1, <1>2 DEF NoWayBack, Holding, producerVars, ringVars, rotationVars
  <2> QED
    BY <1>1, <2>1 DEF OrderInv, endVars
<1>5. ASSUME ~do_shutdown PROVE OpenFileInv' /\ InOrder'
  <2> DEFINE from == <<file, FALSE>>
             ready == <<file, TRUE>>
  <2>0. OpenFileInv
    BY <1>5 DEF OrderInv
  <2>1. from # ready /\ ready[1] = file /\ from[1] = file
    OBVIOUS
  <2>2. from \in DOMAIN files
        => files' = [f \in (DOMAIN files \ {from}) \cup {ready} |->
                       IF f = ready THEN files[from] ELSE files[f]]
    BY <1>1 DEF Rename
  <2>3. from \notin DOMAIN files => files' = files
    BY <1>1 DEF Rename
  <2> HIDE DEF from, ready
  <2>4. ASSUME NEW f \in DOMAIN files'
        PROVE  \E old \in DOMAIN files : files'[f] = files[old] /\ f[1] = old[1]
    BY <2>1, <2>2, <2>3
  <2>5. OpenFileInv'
    <3>1. \A f \in DOMAIN files : files[f] # <<>> => f[1] < last_rotation
      BY <1>1, <2>0 DEF OpenFileInv
    <3>2. \A f \in DOMAIN files' : files'[f] # <<>> => f[1] < last_rotation
      BY <2>4, <3>1
    <3> QED
      BY <1>1, <2>0, <3>2 DEF OpenFileInv, endVars, rotationVars
  <2>6. InOrder'
    <3>1. /\ Cardinality(Stored) = nb_dumped_packets
          /\ \A f, g \in DOMAIN files :
               /\ Increasing(files[f])
               /\ f[1] < g[1] => Before(files[f], files[g])
      BY <1>5 DEF OrderInv, InOrder
    <3>2. \A f, g \in DOMAIN files' :
               /\ Increasing(files'[f])
               /\ f[1] < g[1] => Before(files'[f], files'[g])
      BY <2>4, <3>1
    <3> QED
      BY <1>1, <1>2, <2>0, <3>1, <3>2 DEF InOrder, countVars
  <2> QED
    BY <2>5, <2>6
<1> QED
  BY <1>1, <1>2, <1>3, <1>4, <1>5 DEF OrderInv, InOrder, endVars

\* A file name that is new, or that of an empty file, can be opened.
LEMMA OpenMoves ==
  ASSUME FilesInv, NEW t \in Nat, OpenFile(t)
  PROVE  /\ FilesInv' /\ Stored' \subseteq Stored
         /\ /\ InOrder /\ \A f \in DOMAIN files : files[f] # <<>> => f[1] < t
            /\ UNCHANGED <<nb_dumped_packets, do_shutdown>>
            => /\ InOrder' /\ Stored' = Stored
               /\ \A f \in DOMAIN files' : files'[f] # <<>> => f[1] < t \/ f = <<t, FALSE>>
<1> DEFINE new == <<t, FALSE>>
<1>1. files' = [f \in DOMAIN files \cup {new} |-> IF f = new THEN <<>> ELSE files[f]]
  BY DEF OpenFile
<1>2. new[1] = t
  OBVIOUS
<1>n. new = <<t, FALSE>>
  OBVIOUS
<1> HIDE DEF new
<1>3. /\ DOMAIN files' = DOMAIN files \cup {new}
      /\ files'[new] = <<>> /\ DOMAIN files'[new] = {} /\ files'[new] \in Seq(Packet)
      /\ \A f \in DOMAIN files : f # new => files'[f] = files[f]
  BY <1>1
<1>4. Stored' \subseteq Stored
  <2>1. ASSUME NEW f \in DOMAIN files' PROVE Numbers(files'[f]) \subseteq Stored
    <3>1. CASE f = new
      BY <1>3, <3>1 DEF Numbers
    <3>2. CASE f # new
      BY <1>3, <3>2, FilesStored
    <3> QED
      BY <3>1, <3>2
  <2> QED
    BY <2>1 DEF Stored
<1>5. FilesInv'
  <2>1. \A f \in DOMAIN files' : files'[f] \in Seq(Packet)
    BY <1>3 DEF FilesInv
  <2> QED
    BY <1>4, <2>1, FS_Subset DEF FilesInv
<1>6. ASSUME InOrder, \A f \in DOMAIN files : files[f] # <<>> => f[1] < t,
             UNCHANGED <<nb_dumped_packets, do_shutdown>>
      PROVE  /\ InOrder' /\ Stored' = Stored
             /\ \A f \in DOMAIN files' : files'[f] # <<>> => f[1] < t \/ f = <<t, FALSE>>
  <2>1. new \in DOMAIN files => files[new] = <<>>
    BY <1>2, <1>6
  <2>2. \A f \in DOMAIN files : files'[f] = files[f]
    BY <1>3, <2>1
  <2>3. Stored' = Stored
    <3>1. ASSUME NEW f \in DOMAIN files PROVE Numbers(files[f]) \subseteq Stored'
      <4>1. f \in DOMAIN files' /\ Numbers(files[f]) = Numbers(files'[f])
        BY <1>3, <2>2
      <4> QED
        BY <4>1 DEF Stored
    <3> QED
      BY <1>4, <3>1 DEF Stored
  <2>4. \A f \in DOMAIN files' : files'[f] # <<>> => f[1] < t \/ f = <<t, FALSE>>
    BY <1>3, <1>6, <2>2, <1>n
  <2>5. ASSUME ~do_shutdown PROVE InOrder'
    <3>1. /\ Cardinality(Stored) = nb_dumped_packets
          /\ \A f, g \in DOMAIN files :
               /\ Increasing(files[f])
               /\ f[1] < g[1] => Before(files[f], files[g])
      BY <1>6, <2>5 DEF InOrder
    <3>2. ASSUME NEW f \in DOMAIN files', NEW g \in DOMAIN files'
          PROVE  /\ Increasing(files'[f])
                 /\ f[1] < g[1] => Before(files'[f], files'[g])
      <4>1. CASE f = new \/ g = new
        <5>1. f = new => Increasing(files'[f]) /\ Before(files'[f], files'[g])
          BY <1>3 DEF Increasing, Before
        <5>2. g = new => Before(files'[f], files'[g])
          BY <1>3 DEF Before
        <5>3. f # new => Increasing(files'[f])
          BY <1>3, <3>1
        <5> QED
          BY <4>1, <5>1, <5>2, <5>3
      <4>2. CASE f # new /\ g # new
        BY <1>3, <3>1, <4>2
      <4> QED
        BY <4>1, <4>2
    <3> QED
      BY <1>6, <2>3, <3>1, <3>2 DEF InOrder
  <2> QED
    BY <1>6, <2>3, <2>4, <2>5 DEF InOrder
<1> QED
  BY <1>4, <1>5, <1>6

LEMMA StartOrder ==
  ASSUME IInv, OrderInv, StartConsumer
  PROVE  OrderInv'
<1>1. CASE Stop("exited")
  BY <1>1, StopOrder
<1>2. CASE ~Stop("exited")
  <2>1. /\ consumer = "start" /\ consumer' = "dequeue"
        /\ last_rotation' = now /\ OpenFile(now)
        /\ UNCHANGED <<endVars, now, producerVars, ringVars, m, nb_rotations, countVars>>
    BY <1>2 DEF StartConsumer
  <2>2. now \in Nat
    BY OrderTypes DEF OrderInv
  <2>3. FilesInv' /\ Stored' \subseteq Stored
    BY <2>1, <2>2, OpenMoves DEF OrderInv
  <2>4. PipeOrder'
    BY <2>1, <2>3 DEF OrderInv, PipeOrder, Holding, Delivered, producerVars, ringVars
  <2>5. ASSUME ~do_shutdown PROVE OpenFileInv' /\ NoWayBack' /\ InOrder'
    <3>1. OpenFileInv /\ DOMAIN files = {}
      BY <2>1, <2>5 DEF OrderInv, OpenFileInv
    <3>2. /\ InOrder' /\ Stored' = Stored
          /\ \A f \in DOMAIN files' : files'[f] # <<>> => f[1] < now \/ f = <<now, FALSE>>
      BY <2>1, <2>2, <3>1, OpenMoves DEF OrderInv, endVars, countVars
    <3>3. OpenFileInv'
      BY <2>1, <3>1, <3>2 DEF OpenFileInv, OpenFile, Older, endVars
    <3>4. NoWayBack'
      BY <2>1, <3>1, <3>2 DEF NoWayBack, Stored
    <3> QED
      BY <3>2, <3>3, <3>4
  <2> QED
    BY <2>1, <2>3, <2>4, <2>5 DEF OrderInv, InOrder, endVars
<1> QED
  BY <1>1, <1>2

LEMMA ReopenOrder ==
  ASSUME IInv, OrderInv, ReopenFile
  PROVE  OrderInv'
<1>1. CASE Stop("exited")
  BY <1>1, StopOrder
<1>2. CASE ~Stop("exited")
  <2>1. /\ consumer = "reopen" /\ consumer' = "dump" /\ OpenFile(last_rotation)
        /\ UNCHANGED <<endVars, now, producerVars, ringVars, m, rotationVars, countVars>>
    BY <1>2 DEF ReopenFile
  <2>2. last_rotation \in Nat
    BY OrderTypes DEF OrderInv
  <2>3. FilesInv' /\ Stored' \subseteq Stored
    BY <2>1, <2>2, OpenMoves DEF OrderInv
  <2>4. PipeOrder'
    BY <2>1, <2>3 DEF OrderInv, PipeOrder, Holding, Delivered, producerVars, ringVars
  <2>5. ASSUME ~do_shutdown PROVE OpenFileInv' /\ InOrder'
    <3>1. OpenFileInv /\ \A f \in DOMAIN files : files[f] # <<>> => f[1] < last_rotation
      BY <2>1, <2>5 DEF OrderInv, OpenFileInv
    <3>2. /\ InOrder'
          /\ \A f \in DOMAIN files' : files'[f] # <<>>
               => f[1] < last_rotation \/ f = <<last_rotation, FALSE>>
      BY <2>1, <2>2, <3>1, OpenMoves DEF OrderInv, endVars, countVars
    <3>3. OpenFileInv'
      BY <2>1, <3>1, <3>2 DEF OpenFileInv, OpenFile, Older, endVars, rotationVars
    <3> QED
      BY <3>2, <3>3
  <2>6. NoWayBack => NoWayBack'
    BY <2>1, <2>3 DEF NoWayBack, Holding, producerVars, ringVars, rotationVars
  <2> QED
    BY <2>1, <2>3, <2>4, <2>5, <2>6 DEF OrderInv, InOrder, endVars
<1> QED
  BY <1>1, <1>2

LEMMA DumpMoves ==
  ASSUME IInv, FilesInv, Dump
  PROVE  /\ FilesInv' /\ Stored' \subseteq Stored \cup {m[1].n}
         /\ DOMAIN files' = DOMAIN files
<1>1. CASE dumper.state # "open" /\ Stop("crashed")
  BY <1>1, FilesKept DEF Stop, fileVars
<1>2. CASE ~(dumper.state # "open" /\ Stop("crashed"))
  <2>1. /\ consumer = "dump"
        /\ \/ dumper.state = "open" /\ files' = [files EXCEPT ![dumper.to] = @ \o m]
           \/ UNCHANGED files
    BY <1>2 DEF Dump
  <2>2. /\ Len(m) = 1 /\ m \in Seq(Packet)
        /\ \A f \in DOMAIN files : files[f] \in Seq(Packet)
    BY <2>1, ConsumersPacket, Lengths DEF FilesInv
  <2>3. /\ DOMAIN files' = DOMAIN files
        /\ \A f \in DOMAIN files : files'[f] = files[f] \/ files'[f] = files[f] \o m
    BY <2>1
  <2>4. ASSUME NEW f \in DOMAIN files PROVE Numbers(files'[f]) \subseteq Stored \cup {m[1].n}
    <3>1. CASE files'[f] = files[f]
      BY <3>1, FilesStored
    <3>2. CASE files'[f] = files[f] \o m
      <4>1. /\ files[f] \o m \in Seq(Packet) /\ Len(files[f] \o m) = Len(files[f]) + 1
            /\ \A i \in 1..Len(files[f]) + 1 :
                 (files[f] \o m)[i] = IF i <= Len(files[f]) THEN files[f][i]
                                      ELSE m[i - Len(files[f])]
        <5>1. /\ files[f] \in Seq(Packet) /\ m \in Seq(Packet) /\ Len(m) = 1
          BY <2>2
        <5>2. /\ files[f] \o m \in Seq(Packet) /\ Len(files[f] \o m) = Len(files[f]) + Len(m)
              /\ \A i \in 1..Len(files[f]) + Len(m) :
                   (files[f] \o m)[i] = IF i <= Len(files[f]) THEN files[f][i]
                                        ELSE m[i - Len(files[f])]
          BY <5>1, ConcatProperties
        <5> QED
          BY <5>1, <5>2
      <4>2. /\ DOMAIN (files[f] \o m) = 1..Len(files[f]) + 1
            /\ DOMAIN files[f] = 1..Len(files[f]) /\ Len(files[f]) \in Nat
        BY <2>2, <4>1, LenProperties
      <4>3. \A i \in DOMAIN (files[f] \o m) :
              \/ i \in DOMAIN files[f] /\ (files[f] \o m)[i] = files[f][i]
              \/ (files[f] \o m)[i] = m[1]
        BY <4>1, <4>2
      <4> QED
        BY <3>2, <4>3, FilesStored DEF Numbers
    <3> QED
      BY <2>3, <3>1, <3>2
  <2>5. Stored' \subseteq Stored \cup {m[1].n}
    BY <2>3, <2>4 DEF Stored
  <2>6. IsFiniteSet(Stored')
    BY <2>5, FS_AddElement, FS_Subset DEF FilesInv
  <2>7. \A f \in DOMAIN files : files'[f] \in Seq(Packet)
    BY <2>2, <2>3, ConcatProperties
  <2> QED
    BY <2>3, <2>5, <2>6, <2>7 DEF FilesInv
<1> QED
  BY <1>1, <1>2

LEMMA DumpOrder ==
  ASSUME IInv, OrderInv, Dump
  PROVE  OrderInv'
<1>0. FilesInv
  BY DEF OrderInv
<1>1. CASE dumper.state # "open" /\ Stop("crashed")
  BY <1>1, StopOrder
<1>2. CASE ~(dumper.state # "open" /\ Stop("crashed"))
  <2>1. /\ consumer = "dump" /\ consumer' \in {"limit", "free"}
        /\ nb_dumped_packets' = nb_dumped_packets + 1
        /\ UNCHANGED <<endVars, now, producerVars, ringVars, m, rotationVars, file, dumper>>
        /\ \/ dumper.state = "open" /\ files' = [files EXCEPT ![dumper.to] = @ \o m]
           \/ dumper.state # "open" /\ UNCHANGED files
    BY <1>2 DEF Dump
  <2>2. /\ Len(m) = 1 /\ m[1] \in Packet /\ m \in Seq(Packet) /\ m[1].n \in Nat
    BY <1>0, <2>1, ConsumersPacket, OrderTypes, Lengths DEF Holding
  <2>3. CASE dumper.state # "open"
    <3>1. FilesInv' /\ Stored' = Stored
      BY <1>0, <2>1, <2>3, FilesKept
    <3>2. PipeOrder'
      BY <2>1, <3>1 DEF OrderInv, PipeOrder, Holding, Delivered, producerVars, ringVars
    <3>3. do_shutdown'
      <4>1. OpenFileInv => dumper.state = "open"
        BY <2>1 DEF OpenFileInv
      <4> QED
        BY <2>1, <2>3, <4>1 DEF OrderInv, endVars, IInv, MbufsAccounted, TypeOK
    <3> QED
      BY <3>1, <3>2, <3>3 DEF OrderInv, InOrder
  <2>4. CASE dumper.state = "open"
    <3> DEFINE to == dumper.to
               old == files[to]
    <3>1. to \in DOMAIN files /\ old \in Seq(Packet)
      BY <1>0, <2>4 DEF FilesInv, IInv, MbufsAccounted, TypeOK
    <3>2. /\ DOMAIN files' = DOMAIN files /\ files'[to] = old \o m
          /\ \A f \in DOMAIN files : f # to => files'[f] = files[f]
      BY <2>1, <2>4, <3>1
    <3>3. /\ DOMAIN old = 1..Len(old) /\ Len(old) \in Nat
          /\ DOMAIN files'[to] = 1..Len(old) + 1 /\ files'[to] \in Seq(Packet)
          /\ \A i \in DOMAIN old : files'[to][i] = old[i]
          /\ files'[to][Len(old) + 1] = m[1]
      <4>1. /\ Len(old \o m) = Len(old) + Len(m) /\ old \o m \in Seq(Packet)
            /\ \A i \in 1..Len(old) + Len(m) :
                 (old \o m)[i] = IF i <= Len(old) THEN old[i] ELSE m[i - Len(old)]
        BY <2>2, <3>1, ConcatProperties
      <4>2. DOMAIN old = 1..Len(old) /\ Len(old) \in Nat /\ DOMAIN (old \o m) = 1..Len(old) + 1
        BY <2>2, <3>1, <4>1, LenProperties
      <4> QED
        BY <2>2, <3>2, <4>1, <4>2
    <3>d. old = files[to] /\ to = dumper.to
      OBVIOUS
    <3> HIDE DEF old, to
    <3>4. /\ \A i \in DOMAIN files'[to] : i \in DOMAIN old \/ i = Len(old) + 1
          /\ \A i \in DOMAIN old : i \in DOMAIN files'[to] /\ i < Len(old) + 1
          /\ Len(old) + 1 \in DOMAIN files'[to]
      BY <3>3
    <3>5. Numbers(files'[to]) = Numbers(old) \cup {m[1].n}
      BY <3>3, <3>4 DEF Numbers
    <3>6. Stored' = Stored \cup {m[1].n}
      <4>1. ASSUME NEW f \in DOMAIN files' PROVE Numbers(files'[f]) \subseteq Stored \cup {m[1].n}
        BY <3>1, <3>2, <3>5, <3>d, FilesStored
      <4>2. ASSUME NEW f \in DOMAIN files PROVE Numbers(files[f]) \subseteq Numbers(files'[f])
        BY <3>2, <3>5, <3>d
      <4>3. \A f \in DOMAIN files' : Numbers(files'[f]) \subseteq Stored'
        BY DEF Stored
      <4>4. m[1].n \in Stored'
        BY <3>1, <3>2, <3>5, <4>3
      <4>5. Stored \subseteq Stored'
        BY <3>2, <4>2, <4>3 DEF Stored
      <4>6. Stored' \subseteq Stored \cup {m[1].n}
        BY <4>1 DEF Stored
      <4> QED
        BY <4>4, <4>5, <4>6
    <3>7. FilesInv'
      BY <1>0, DumpMoves
    <3>8. /\ \A d \in Stored : d < m[1].n
          /\ m[1].n <= Delivered /\ m[1].ts <= PcapHdr.ts
          /\ \A i \in DOMAIN ring : m[1].n < ring[i].n /\ m[1].ts <= ring[i].ts
      BY <2>1 DEF OrderInv, PipeOrder, Holding
    <3>9. PipeOrder'
      BY <2>1, <3>6, <3>8 DEF OrderInv, PipeOrder, Holding, Delivered, producerVars, ringVars
    <3>10. NoWayBack => NoWayBack'
      <4>1. ASSUME NoWayBack
            PROVE  last_rotation <= PcapHdr.ts /\ \A i \in DOMAIN ring : last_rotation <= ring[i].ts
        <5>1. last_rotation <= m[1].ts
          BY <2>1, <4>1 DEF NoWayBack
        <5>2. /\ last_rotation \in Nat /\ PcapHdr.ts \in Nat /\ m[1].ts \in Nat
              /\ \A i \in DOMAIN ring : ring[i].ts \in Nat
          BY <1>0, <2>1, OrderTypes DEF Holding
        <5> QED
          BY <3>8, <5>1, <5>2
      <4> QED
        BY <2>1, <4>1 DEF NoWayBack, producerVars, ringVars, rotationVars
    <3>11. ASSUME ~do_shutdown PROVE OpenFileInv' /\ InOrder'
      <4>0. /\ OpenFileInv /\ file = last_rotation /\ to = <<last_rotation, FALSE>>
            /\ dumper = [state |-> "open", to |-> <<file, FALSE>>]
            /\ Older(last_rotation, to)
        <5>1. /\ OpenFileInv /\ file = last_rotation
              /\ dumper = [state |-> "open", to |-> <<file, FALSE>>]
              /\ Older(last_rotation, <<file, FALSE>>)
          BY <2>1, <3>11 DEF OrderInv, OpenFileInv
        <5>2. dumper.to = <<file, FALSE>>
          BY <5>1
        <5> QED
          BY <5>1, <5>2, <3>d
      <4>1. /\ Cardinality(Stored) = nb_dumped_packets
            /\ \A f, g \in DOMAIN files :
                 /\ Increasing(files[f])
                 /\ f[1] < g[1] => Before(files[f], files[g])
        BY <3>11 DEF OrderInv, InOrder
      <4>2. \A f \in DOMAIN files' : files'[f] # <<>> => f[1] < last_rotation \/ f = to
        BY <3>2, <4>0 DEF Older
      <4>3. OpenFileInv'
        BY <2>1, <4>0, <4>2 DEF OpenFileInv, Older, endVars, rotationVars
      <4>4. Cardinality(Stored') = nb_dumped_packets'
        <5>1. m[1].n \notin Stored /\ IsFiniteSet(Stored)
          BY <1>0, <2>2, <3>8, OrderTypes DEF FilesInv
        <5> QED
          BY <2>1, <3>6, <4>1, <5>1, FS_AddElement
      <4>5. ASSUME NEW f \in DOMAIN files, NEW i \in DOMAIN files[f] PROVE files[f][i].n < m[1].n
        BY <3>8, <4>5, FilesStored DEF Numbers
      <4>6. Increasing(files'[to])
        <5>1. Increasing(old) /\ \A i \in DOMAIN old : old[i].n < m[1].n
          BY <3>1, <3>d, <4>1, <4>5
        <5> SUFFICES ASSUME NEW i \in DOMAIN files'[to], NEW j \in DOMAIN files'[to], i < j
                     PROVE  files'[to][i].n < files'[to][j].n
          BY DEF Increasing
        <5>2. i \in DOMAIN old
          BY <3>3
        <5>3. CASE j \in DOMAIN old
          BY <3>3, <5>1, <5>2, <5>3 DEF Increasing
        <5>4. CASE j = Len(old) + 1
          BY <3>3, <5>1, <5>2, <5>4
        <5> QED
          BY <3>4, <5>3, <5>4
      <4>7. ASSUME NEW f \in DOMAIN files, NEW g \in DOMAIN files, f[1] < g[1]
            PROVE  Before(files'[f], files'[g])
        <5>t. /\ last_rotation \in Nat /\ \A h \in DOMAIN files : h[1] \in Nat
              /\ to[1] = last_rotation
          BY <1>0, <4>0, OrderTypes
        <5>1. CASE f = to
          <6>1. g # to /\ files[g] = <<>>
            <7>1. g # to /\ ~(g[1] < last_rotation)
              BY <4>7, <5>1, <5>t
            <7> QED
              BY <4>0, <7>1 DEF Older
          <6> QED
            BY <3>2, <6>1 DEF Before
        <5>2. CASE f # to /\ g # to
          BY <3>2, <4>1, <4>7, <5>2
        <5>3. CASE f # to /\ g = to
          <6>1. Before(files[f], old)
            BY <3>1, <3>d, <4>1, <4>7, <5>3
          <6>2. files'[f] = files[f]
            BY <3>2, <5>3
          <6> SUFFICES ASSUME NEW i \in DOMAIN files[f], NEW j \in DOMAIN files'[to]
                       PROVE  files[f][i].n < files'[to][j].n
            BY <5>3, <6>2 DEF Before
          <6>3. CASE j \in DOMAIN old
            BY <3>3, <6>1, <6>3 DEF Before
          <6>4. CASE j = Len(old) + 1
            BY <3>3, <4>5, <6>4
          <6> QED
            BY <3>4, <6>3, <6>4
        <5> QED
          BY <5>1, <5>2, <5>3
      <4>8. \A f \in DOMAIN files : Increasing(files'[f])
        BY <3>2, <4>1, <4>6
      <4>9. InOrder'
        BY <3>2, <4>4, <4>7, <4>8 DEF InOrder
      <4> QED
        BY <4>3, <4>9
    <3> QED
      BY <2>1, <3>7, <3>9, <3>10, <3>11 DEF OrderInv, InOrder, endVars
  <2> QED
    BY <2>3, <2>4
<1> QED
  BY <1>1, <1>2

LEMMA ConsumerOrder ==
  ASSUME IInv, OrderInv, packet_consumer
  PROVE  OrderInv'
<1>1. CASE StartConsumer
  BY <1>1, StartOrder
<1>2. CASE Dequeue
  BY <1>2, DequeueOrder
<1>3. CASE CheckRotation
  BY <1>3, RotationOrder
<1>4. CASE CloseFile
  <2>1. /\ consumer = "close" /\ consumer' = "rename" /\ CloseDumper
        /\ UNCHANGED <<do_shutdown, handlers, now, producerVars, ringVars, m, rotationVars,
                       countVars, file, files>>
    BY <1>4 DEF CloseFile
  <2>2. PipeOrder' /\ InOrder' /\ FilesInv' /\ Stored' = Stored
    BY <2>1, LoopOrder DEF ringVars, countVars
  <2>3. ASSUME ~do_shutdown PROVE OpenFileInv'
    <3>1. OpenFileInv /\ dumper = [state |-> "open", to |-> <<file, FALSE>>]
      BY <2>1, <2>3 DEF OrderInv, OpenFileInv
    <3>2. dumper' = [state |-> "closed", to |-> <<file, FALSE>>]
      BY <2>1, <3>1 DEF CloseDumper
    <3> QED
      BY <2>1, <3>1, <3>2 DEF OpenFileInv, Older, rotationVars
  <2>4. (~do_shutdown /\ seconds_rotation > 0 => NoWayBack)'
    BY <2>1, <2>2 DEF OrderInv, NoWayBack, Holding, producerVars, ringVars, rotationVars
  <2> QED
    BY <2>1, <2>2, <2>3, <2>4 DEF OrderInv
<1>5. CASE RenameFile
  BY <1>5, RenameOrder
<1>6. CASE ReopenFile
  BY <1>6, ReopenOrder
<1>7. CASE Dump
  BY <1>7, DumpOrder
<1>8. CASE Free
  <2>1. /\ consumer = "free" /\ consumer' = "dequeue"
        /\ UNCHANGED <<endVars, producerVars, ring, rotationVars, countVars, fileVars>>
    BY <1>8 DEF Free
  <2>2. FilesInv' /\ InOrder' /\ Stored' = Stored
    BY <2>1, FilesKept DEF OrderInv, endVars, countVars, fileVars
  <2>3. PipeOrder'
    BY <2>1, <2>2 DEF OrderInv, PipeOrder, Holding, Delivered, producerVars
  <2>4. (~do_shutdown => OpenFileInv)'
    BY <2>1 DEF OrderInv, OpenFileInv, Older, endVars, rotationVars, fileVars
  <2>5. (~do_shutdown /\ seconds_rotation > 0 => NoWayBack)'
    BY <2>1, <2>2 DEF OrderInv, NoWayBack, Holding, endVars, producerVars, rotationVars
  <2> QED
    BY <2>2, <2>3, <2>4, <2>5 DEF OrderInv
<1> QED
  BY <1>1, <1>2, <1>3, <1>4, <1>5, <1>6, <1>7, <1>8 DEF packet_consumer

\* Every step of sig_handler begins a shutdown or is part of one.
LEMMA SignalOrder ==
  ASSUME IInv, OrderInv, NEW h \in {"signal", "limit"}, sig_handler(h)
  PROVE  OrderInv'
<1>1. CASE PrintStatsFails \/ HandlerExits(h)
  BY <1>1, StopOrder DEF PrintStatsFails, HandlerExits
<1>2. CASE ~(PrintStatsFails \/ HandlerExits(h))
  <2>1. UNCHANGED <<producerVars, ring, consumer, m>>
    BY <1>2 DEF sig_handler, EnterHandler, PrintStats, HandlerCloses, HandlerRenames,
                ringVars, consumerVars
  <2>2. do_shutdown' = TRUE
    <3>1. CASE EnterHandler(h)
      BY <3>1 DEF EnterHandler
    <3>2. CASE PrintStats(h) \/ HandlerCloses(h) \/ HandlerRenames(h)
      <4>1. handlers[h] # "idle" /\ do_shutdown' = do_shutdown
        BY <1>2, <3>2 DEF PrintStats, HandlerCloses, HandlerRenames
      <4>2. do_shutdown \in BOOLEAN
        BY DEF IInv, MbufsAccounted, TypeOK
      <4>3. ~OpenFileInv
        BY <4>1 DEF OpenFileInv
      <4> QED
        BY <4>1, <4>2, <4>3 DEF OrderInv
    <3> QED
      BY <1>2, <3>1, <3>2 DEF sig_handler
  <2>3. CASE HandlerRenames(h)
    <3>1. FilesInv' /\ Stored' \subseteq Stored
      BY <2>3, RenameMoves DEF OrderInv, HandlerRenames
    <3>2. PipeOrder'
      BY <2>1, <3>1 DEF OrderInv, PipeOrder, Holding, Delivered, producerVars
    <3> QED
      BY <2>2, <3>1, <3>2 DEF OrderInv, InOrder
  <2>4. CASE ~HandlerRenames(h)
    <3>1. UNCHANGED files
      BY <1>2, <2>4 DEF sig_handler, EnterHandler, PrintStats, HandlerCloses, fileVars
    <3> QED
      BY <2>1, <2>2, <3>1, ShutdownOrder
  <2> QED
    BY <2>3, <2>4
<1> QED
  BY <1>1, <1>2

LEMMA StepOrder ==
  ASSUME IInv, OrderInv, [Next]_vars, ~clockSetBack'
  PROVE  OrderInv'
<1>1. CASE packet_producer
  BY <1>1, ProducerOrder
<1>2. CASE packet_consumer
  BY <1>2, ConsumerOrder
<1>3. CASE \E h \in {"signal", "limit"} : sig_handler(h)
  BY <1>3, SignalOrder
<1>4. CASE Alarm
  BY <1>4, StopOrder DEF Alarm, PrintStatsFails
<1>5. CASE Second \/ UNCHANGED vars
  <2>1. UNCHANGED <<endVars, producerVars, ringVars, consumerVars, fileVars>>
    BY <1>5 DEF Second, vars
  <2> QED
    BY <2>1, ShutdownOrder DEF endVars, ringVars, consumerVars, countVars, fileVars
<1> QED
  BY <1>1, <1>2, <1>3, <1>4, <1>5 DEF Next

\* For any pool, ring and interval, and a clock that is not set back: until a
\* shutdown begins, every packet dumped is in one file, in the order it was
\* captured.
\* The files stay files whatever the clock does, and it is never put right.
LEMMA StepFiles ==
  ASSUME IInv, FilesInv, [Next]_vars
  PROVE  FilesInv' /\ (~clockSetBack' => ~clockSetBack)
<1>1. ~clockSetBack' => ~clockSetBack
  <2>1. CASE PcapNextEx
    BY <2>1, Zenon DEF PcapNextEx, Stop, producerVars
  <2>2. CASE ~PcapNextEx
    BY <2>2
       DEF Next, vars, producerVars, packet_producer, PcapStartUp, Alloc, Enqueue, Stop,
           packet_consumer, StartConsumer, Dequeue, CheckRotation, CloseFile, RenameFile,
           ReopenFile, Dump, Free, sig_handler, EnterHandler, PrintStats, PrintStatsFails,
           HandlerCloses, HandlerRenames, HandlerExits, Alarm, Second
  <2> QED
    BY <2>1, <2>2
<1>2. CASE UNCHANGED files
  BY <1>1, <1>2, FilesKept
<1>3. CASE Rename
  BY <1>1, <1>3, RenameMoves
<1>4. CASE Dump
  BY <1>1, <1>4, DumpMoves
<1>5. CASE StartConsumer \/ ReopenFile
  <2>1. now \in Nat /\ last_rotation \in Nat
    BY OrderTypes
  <2> QED
    BY <1>1, <1>2, <1>5, <2>1, OpenMoves DEF StartConsumer, ReopenFile, Stop, fileVars
<1>6. CASE ~UNCHANGED files
  <2>1. Dump \/ StartConsumer \/ ReopenFile \/ RenameFile
          \/ \E h \in {"signal", "limit"} : HandlerRenames(h)
    BY <1>6
       DEF Next, vars, fileVars, packet_producer, PcapStartUp, PcapNextEx, Alloc, Enqueue, Stop,
           packet_consumer, Dequeue, CheckRotation, CloseFile, Free, sig_handler, EnterHandler,
           PrintStats, PrintStatsFails, HandlerCloses, HandlerExits, Alarm, Second
  <2> QED
    BY <1>3, <1>4, <1>5, <2>1 DEF RenameFile, HandlerRenames
<1> QED
  BY <1>1, <1>2, <1>6

\* Until the clock is set back the order is kept, from then on the files are.
FileInv == FilesInv /\ (~clockSetBack => OrderInv)

LEMMA InitFiles == Init => FileInv
BY InitOrder DEF FileInv, OrderInv

LEMMA StepFileInv == IInv /\ FileInv /\ [Next]_vars => FileInv'
BY StepFiles, StepOrder DEF FileInv

THEOREM OrderCorrect == Spec => []DumpedInOrder
<1>1. FileInv => DumpedInOrder
  BY DEF FileInv, OrderInv, InOrder, DumpedInOrder
<1> QED
  BY <1>1, InitIInv, InitFiles, StepIInv, StepFileInv, PTL DEF Spec

\* What a step that is not part of a shutdown does to a file with packets that
\* has its final name.
LEMMA ReadyStep ==
  ASSUME IInv, OrderInv, [Next]_vars, ~do_shutdown',
         NEW f \in DOMAIN files, f[2], files[f] # <<>>
  PROVE  f \in DOMAIN files' /\ files'[f] = files[f]
<1>1. ~do_shutdown
  BY DEF Next, vars, endVars, packet_producer, PcapStartUp, PcapNextEx, Alloc, Enqueue, Stop,
         packet_consumer, StartConsumer, Dequeue, CheckRotation, CloseFile, RenameFile,
         ReopenFile, Dump, Free, sig_handler, EnterHandler, PrintStats, PrintStatsFails,
         HandlerCloses, HandlerRenames, HandlerExits, Alarm, Second
<1>2. OpenFileInv /\ file \in Nat
  BY <1>1, OrderTypes DEF OrderInv
<1>r. \A t : f # <<t, FALSE>>
  <2> SUFFICES ASSUME NEW t, f = <<t, FALSE>> PROVE FALSE
    OBVIOUS
  <2>1. <<t, FALSE>>[2] = FALSE
    OBVIOUS
  <2>2. f[2] = FALSE
    BY <2>1, Zenon
  <2> QED
    BY <2>2, Zenon
<1>3. CASE UNCHANGED files
  BY <1>3
<1>4. ASSUME NEW t, OpenFile(t) PROVE f \in DOMAIN files' /\ files'[f] = files[f]
  BY <1>4, <1>r DEF OpenFile
<1>5. CASE RenameFile
  <2> DEFINE from == <<file, FALSE>>
             ready == <<file, TRUE>>
  <2>1. from \in DOMAIN files
        => files' = [g \in (DOMAIN files \ {from}) \cup {ready} |->
                       IF g = ready THEN files[from] ELSE files[g]]
    BY <1>5 DEF RenameFile, Rename
  <2>2. from \notin DOMAIN files => files' = files
    BY <1>5 DEF RenameFile, Rename
  <2>3. f # from
    BY <1>r
  <2>4. f # ready
    <3>1. f[1] < file \/ f = from
      BY <1>2, <1>5 DEF OpenFileInv, RenameFile, Older
    <3>2. ready[1] = file
      OBVIOUS
    <3> HIDE DEF from, ready
    <3>3. f = ready => ~(f[1] < file)
      BY <1>2, <3>2
    <3> QED
      BY <2>3, <3>1, <3>3
  <2> HIDE DEF from, ready
  <2> QED
    BY <2>1, <2>2, <2>3, <2>4
<1>6. CASE Dump
  <2>1. dumper = [state |-> "open", to |-> <<file, FALSE>>]
    BY <1>2, <1>6 DEF Dump, OpenFileInv
  <2>2. f # dumper.to
    BY <1>r, <2>1
  <2> QED
    BY <1>6, <2>2 DEF Dump, Stop, fileVars
<1>7. CASE ~RenameFile /\ ~Dump /\ ~UNCHANGED files
  <2>1. ~(\E h \in {"signal", "limit"} : HandlerRenames(h))
    BY <1>2 DEF OpenFileInv, HandlerRenames
  <2>2. StartConsumer \/ ReopenFile
    BY <1>7, <2>1
       DEF Next, vars, fileVars, packet_producer, PcapStartUp, PcapNextEx, Alloc, Enqueue, Stop,
           packet_consumer, Dequeue, CheckRotation, CloseFile, Free, sig_handler, EnterHandler,
           PrintStats, PrintStatsFails, HandlerCloses, HandlerExits, Alarm, Second
  <2> QED
    BY <1>4, <1>7, <2>2 DEF StartConsumer, ReopenFile, Stop, fileVars
<1> QED
  BY <1>3, <1>5, <1>6, <1>7

\* Whoever waits for a "ready" file finds it complete: until a shutdown begins
\* or the clock is set back no step changes or removes one with packets.
THEOREM ReadyCorrect == Spec => ReadyIsFinal
<1>1. IInv /\ FileInv /\ [Next]_vars
        => [~do_shutdown' /\ ~clockSetBack' =>
              \A f \in DOMAIN files : f[2] /\ files[f] # <<>> =>
                f \in DOMAIN files' /\ files'[f] = files[f]]_vars
  BY ReadyStep, StepFiles DEF FileInv
<1>2. Spec => [](IInv /\ FileInv)
  BY InitIInv, InitFiles, StepIInv, StepFileInv, PTL DEF Spec
<1> QED
  BY <1>1, <1>2, PTL DEF Spec, ReadyIsFinal

-----------------------------------------------------------------------------
(* The limits.  A rotation opens at most one file and renaming makes none; *)
(* what is dumped is counted, and no step but a dump adds to a file.       *)

Counted ==
  /\ IsFiniteSet(DOMAIN files)
  /\ Cardinality(DOMAIN files) <=
       IF consumer \in {"start", "close", "rename", "reopen"}
       THEN nb_rotations ELSE nb_rotations + 1
  /\ IsFiniteSet(Stored) /\ Cardinality(Stored) <= nb_dumped_packets

AtLimits ==
  /\ max_packets # 0 => /\ nb_dumped_packets <= max_packets
                        /\ nb_dumped_packets < max_packets \/ consumer = "limit"
  /\ max_rotations # NoLimit => /\ Cardinality(DOMAIN files) <= max_rotations + 1
                                /\ nb_rotations <= max_rotations \/ consumer = "limit"

LimitInv == Counted /\ AtLimits

LEMMA InitLimits == Init => LimitInv
<1> SUFFICES ASSUME Init PROVE LimitInv
  OBVIOUS
<1>1. DOMAIN files = {} /\ Stored = {} /\ nb_rotations = 0 /\ nb_dumped_packets = 0
  BY DEF Init, Stored
<1>2. max_packets \in Nat /\ (max_rotations # NoLimit => max_rotations \in Nat)
  BY SizeAssumption DEF SizeAssumption
<1> QED
  BY <1>1, <1>2, FS_EmptySet DEF LimitInv, Counted, AtLimits

\* Fewer files with fewer packets are within the limits.
LEMMA LimitsKept ==
  ASSUME IInv, LimitInv, UNCHANGED <<nb_rotations, nb_dumped_packets>>,
         IsFiniteSet(DOMAIN files'), Cardinality(DOMAIN files') <= Cardinality(DOMAIN files),
         Stored' \subseteq Stored,
         consumer = "limit" => consumer' = "limit",
         consumer' \in {"start", "close", "rename", "reopen"}
           => consumer \in {"start", "close", "rename", "reopen"}
  PROVE  LimitInv'
<1>1. IsFiniteSet(Stored') /\ Cardinality(Stored') <= Cardinality(Stored)
  BY FS_Subset DEF LimitInv, Counted
<1>2. /\ Cardinality(Stored') \in Nat /\ Cardinality(Stored) \in Nat
      /\ Cardinality(DOMAIN files') \in Nat /\ Cardinality(DOMAIN files) \in Nat
      /\ nb_rotations \in Nat /\ nb_dumped_packets \in Nat
  BY <1>1, FS_CardinalityType DEF LimitInv, Counted, IInv, MbufsAccounted, TypeOK
<1>3. max_rotations # NoLimit => max_rotations \in Nat
  BY SizeAssumption DEF SizeAssumption
<1>4. Counted'
  BY <1>1, <1>2 DEF LimitInv, Counted
<1>5. AtLimits'
  BY <1>2, <1>3 DEF LimitInv, AtLimits
<1> QED
  BY <1>4, <1>5 DEF LimitInv

LEMMA SameLimits ==
  ASSUME IInv, LimitInv, UNCHANGED <<nb_rotations, nb_dumped_packets, files>>,
         consumer = "limit" => consumer' = "limit",
         consumer' \in {"start", "close", "rename", "reopen"}
           => consumer \in {"start", "close", "rename", "reopen"}
  PROVE  LimitInv'
<1>1. Stored' = Stored /\ DOMAIN files' = DOMAIN files
  BY DEF Stored, Numbers
<1>2. IsFiniteSet(DOMAIN files) /\ Cardinality(DOMAIN files) \in Nat
  BY FS_CardinalityType DEF LimitInv, Counted
<1> QED
  BY <1>1, <1>2, LimitsKept

LEMMA StopLimits ==
  ASSUME IInv, LimitInv, NEW how, Stop(how)
  PROVE  LimitInv'
BY SameLimits DEF Stop, consumerVars, rotationVars, countVars, fileVars

LEMMA RenameLimits ==
  ASSUME IInv, FilesInv, LimitInv, Rename, UNCHANGED <<nb_rotations, nb_dumped_packets>>,
         consumer = "limit" => consumer' = "limit",
         consumer' \in {"start", "close", "rename", "reopen"}
           => consumer \in {"start", "close", "rename", "reopen"}
  PROVE  LimitInv'
<1> DEFINE from == <<file, FALSE>>
           ready == <<file, TRUE>>
           D == DOMAIN files
<1>1. CASE from \in D
  <2>1. DOMAIN files' = (D \ {from}) \cup {ready}
    BY <1>1 DEF Rename
  <2> HIDE DEF from, ready
  <2>2. IsFiniteSet(D) /\ Cardinality(D) \in Nat
    BY FS_CardinalityType DEF LimitInv, Counted
  <2>3. IsFiniteSet(D \ {from}) /\ Cardinality(D \ {from}) = Cardinality(D) - 1
    BY <1>1, <2>2, FS_RemoveElement
  <2>4. /\ IsFiniteSet(DOMAIN files')
        /\ Cardinality(DOMAIN files') \in {Cardinality(D \ {from}), Cardinality(D \ {from}) + 1}
    BY <2>1, <2>3, FS_AddElement
  <2>5. Cardinality(DOMAIN files') <= Cardinality(D)
    BY <2>2, <2>3, <2>4
  <2> HIDE DEF D
  <2> QED
    BY <2>4, <2>5, RenameMoves, LimitsKept DEF D
<1>2. CASE from \notin D
  BY <1>2, SameLimits DEF Rename
<1> QED
  BY <1>1, <1>2

LEMMA OpenLimits ==
  ASSUME IInv, FilesInv, LimitInv, NEW t \in Nat, OpenFile(t),
         UNCHANGED <<nb_rotations, nb_dumped_packets>>,
         consumer \in {"start", "reopen"}, consumer' \notin {"start", "close", "rename", "reopen"}
  PROVE  LimitInv'
<1> DEFINE new == <<t, FALSE>>
           D == DOMAIN files
<1>1. DOMAIN files' = D \cup {new}
  BY DEF OpenFile
<1> HIDE DEF new
<1>2. IsFiniteSet(D) /\ Cardinality(D) \in Nat
  BY FS_CardinalityType DEF LimitInv, Counted
<1>3. /\ IsFiniteSet(DOMAIN files')
      /\ Cardinality(DOMAIN files') \in {Cardinality(D), Cardinality(D) + 1}
  BY <1>1, <1>2, FS_AddElement
<1>4. Stored' \subseteq Stored
  BY OpenMoves
<1>5. IsFiniteSet(Stored') /\ Cardinality(Stored') <= Cardinality(Stored)
  BY <1>4, FS_Subset DEF LimitInv, Counted
<1>6. /\ Cardinality(Stored') \in Nat /\ Cardinality(Stored) \in Nat
      /\ nb_rotations \in Nat /\ nb_dumped_packets \in Nat
  BY <1>5, FS_CardinalityType DEF LimitInv, Counted, IInv, MbufsAccounted, TypeOK
<1>7. max_rotations # NoLimit => max_rotations \in Nat
  BY SizeAssumption DEF SizeAssumption
<1>8. Cardinality(D) <= nb_rotations
  BY DEF LimitInv, Counted
<1>9. Counted'
  BY <1>2, <1>3, <1>5, <1>6, <1>8 DEF LimitInv, Counted
<1>10. AtLimits'
  BY <1>2, <1>3, <1>6, <1>7, <1>8 DEF LimitInv, AtLimits
<1> QED
  BY <1>9, <1>10 DEF LimitInv

LEMMA DumpLimits ==
  ASSUME IInv, FilesInv, LimitInv, Dump
  PROVE  LimitInv'
<1>1. CASE dumper.state # "open" /\ Stop("crashed")
  BY <1>1, StopLimits
<1>2. CASE ~(dumper.state # "open" /\ Stop("crashed"))
  <2>1. /\ consumer = "dump" /\ consumer' = IF LimitReached THEN "limit" ELSE "free"
        /\ nb_dumped_packets' = nb_dumped_packets + 1 /\ UNCHANGED nb_rotations
    BY <1>2 DEF Dump, rotationVars
  <2>5. Stored' \subseteq Stored \cup {m[1].n} /\ DOMAIN files' = DOMAIN files
    BY DumpMoves
  <2>6. /\ IsFiniteSet(Stored) /\ Cardinality(Stored) \in Nat
        /\ IsFiniteSet(Stored \cup {m[1].n})
        /\ Cardinality(Stored \cup {m[1].n}) \in {Cardinality(Stored), Cardinality(Stored) + 1}
    BY FS_AddElement, FS_CardinalityType DEF LimitInv, Counted
  <2>7. /\ IsFiniteSet(Stored') /\ Cardinality(Stored') \in Nat
        /\ Cardinality(Stored') <= Cardinality(Stored \cup {m[1].n})
    BY <2>5, <2>6, FS_Subset, FS_CardinalityType
  <2>8. nb_dumped_packets \in Nat /\ max_packets \in Nat /\ nb_rotations \in Nat
    BY SizeAssumption DEF SizeAssumption, IInv, MbufsAccounted, TypeOK
  <2>9. Cardinality(Stored') <= nb_dumped_packets'
    BY <2>1, <2>6, <2>7, <2>8 DEF LimitInv, Counted
  <2>10. Counted'
    BY <2>1, <2>5, <2>7, <2>9 DEF LimitInv, Counted
  <2>11. AtLimits'
    <3>1. max_packets # 0 => /\ nb_dumped_packets' <= max_packets
                             /\ nb_dumped_packets' < max_packets \/ consumer' = "limit"
      BY <2>1, <2>8 DEF LimitReached, LimitInv, AtLimits
    <3> QED
      BY <2>1, <2>5, <3>1 DEF LimitInv, AtLimits
  <2> QED
    BY <2>10, <2>11 DEF LimitInv
<1> QED
  BY <1>1, <1>2

LEMMA RotationLimits ==
  ASSUME IInv, LimitInv, CheckRotation
  PROVE  LimitInv'
<1>1. consumer = "rotate" /\ UNCHANGED <<nb_dumped_packets, files>>
  BY DEF CheckRotation, countVars, fileVars
<1>2. CASE consumer' = "dump"
  <2>1. UNCHANGED nb_rotations
    BY <1>2 DEF CheckRotation, rotationVars
  <2> QED
    BY <1>1, <1>2, <2>1, SameLimits
<1>3. CASE consumer' # "dump"
  <2>1. /\ nb_rotations' = nb_rotations + 1
        /\ consumer' = IF max_rotations # NoLimit /\ nb_rotations + 1 > max_rotations
                       THEN "limit" ELSE "close"
    BY <1>3 DEF CheckRotation
  <2>2. Stored' = Stored /\ DOMAIN files' = DOMAIN files
    BY <1>1 DEF Stored, Numbers
  <2>3. /\ nb_rotations \in Nat /\ Cardinality(DOMAIN files) \in Nat
        /\ max_rotations # NoLimit => max_rotations \in Nat
    BY SizeAssumption, FS_CardinalityType
       DEF SizeAssumption, IInv, MbufsAccounted, TypeOK, LimitInv, Counted
  <2>4. Counted'
    BY <1>1, <2>1, <2>2, <2>3 DEF LimitInv, Counted
  <2>5. AtLimits'
    BY <1>1, <2>1, <2>2, <2>3 DEF LimitInv, AtLimits
  <2> QED
    BY <2>4, <2>5 DEF LimitInv
<1> QED
  BY <1>2, <1>3

LEMMA StepLimits == IInv /\ FilesInv /\ LimitInv /\ [Next]_vars => LimitInv'
<1> SUFFICES ASSUME IInv, FilesInv, LimitInv, [Next]_vars PROVE LimitInv'
  OBVIOUS
<1> USE DEF consumerVars, rotationVars, countVars, fileVars
<1>1. CASE packet_producer
  <2>1. CASE UNCHANGED <<consumerVars, fileVars>>
    BY <2>1, SameLimits
  <2>2. CASE ~UNCHANGED <<consumerVars, fileVars>>
    BY <1>1, <2>2, StopLimits DEF packet_producer, PcapStartUp, PcapNextEx, Alloc, Enqueue
  <2> QED
    BY <2>1, <2>2
<1>2. CASE StartConsumer
  <2>1. now \in Nat
    BY OrderTypes
  <2> QED
    BY <1>2, <2>1, OpenLimits, StopLimits DEF StartConsumer
<1>3. CASE Dequeue \/ CloseFile \/ Free
  BY <1>3, SameLimits DEF Dequeue, CloseFile, Free
<1>4. CASE CheckRotation
  BY <1>4, RotationLimits
<1>5. CASE RenameFile
  BY <1>5, RenameLimits DEF RenameFile
<1>6. CASE ReopenFile
  <2>1. last_rotation \in Nat
    BY OrderTypes
  <2> QED
    BY <1>6, <2>1, OpenLimits, StopLimits DEF ReopenFile
<1>7. CASE Dump
  BY <1>7, DumpLimits
<1>8. CASE \E h \in {"signal", "limit"} : sig_handler(h)
  <2>1. PICK h \in {"signal", "limit"} : sig_handler(h)
    BY <1>8
  <2>2. CASE PrintStatsFails \/ HandlerExits(h)
    BY <2>2, StopLimits DEF PrintStatsFails, HandlerExits
  <2>3. CASE HandlerRenames(h)
    BY <2>3, RenameLimits DEF HandlerRenames
  <2>4. CASE ~(PrintStatsFails \/ HandlerExits(h) \/ HandlerRenames(h))
    <3>1. UNCHANGED <<consumer, nb_rotations, nb_dumped_packets, files>>
      BY <2>1, <2>4 DEF sig_handler, EnterHandler, PrintStats, HandlerCloses
    <3> QED
      BY <3>1, SameLimits
  <2> QED
    BY <2>2, <2>3, <2>4
<1>9. CASE Alarm
  BY <1>9, StopLimits DEF Alarm, PrintStatsFails
<1>10. CASE Second \/ UNCHANGED vars
  BY <1>10, SameLimits DEF Second, vars
<1> QED
  BY <1>1, <1>2, <1>3, <1>4, <1>5, <1>6, <1>7, <1>8, <1>9, <1>10 DEF Next, packet_consumer

\* For all limits, -c packets and -W rotations are never exceeded, however
\* long the consumer's own call of sig_handler takes to end the process.
THEOREM LimitsCorrect == Spec => []LimitsHold
<1>1. IInv /\ LimitInv => LimitsHold
  <2> SUFFICES ASSUME IInv, LimitInv PROVE LimitsHold
    OBVIOUS
  <2>1. ASSUME max_packets # 0 PROVE Cardinality(Stored) <= max_packets
    <3>1. Cardinality(Stored) <= nb_dumped_packets /\ nb_dumped_packets <= max_packets
      BY <2>1 DEF LimitInv, Counted, AtLimits
    <3>2. Cardinality(Stored) \in Nat /\ nb_dumped_packets \in Nat /\ max_packets \in Nat
      BY FS_CardinalityType, SizeAssumption
         DEF LimitInv, Counted, IInv, MbufsAccounted, TypeOK, SizeAssumption
    <3> QED
      BY <3>1, <3>2
  <2> QED
    BY <2>1 DEF LimitInv, AtLimits, LimitsHold
<1>2. FileInv => FilesInv
  BY DEF FileInv
<1> QED
  BY <1>1, <1>2, InitIInv, InitFiles, InitLimits, StepIInv, StepFileInv, StepLimits, PTL
     DEF Spec
=============================================================================
