-------------------------- MODULE IcisCaptureProofs --------------------------
(***************************************************************************)
(* The proofs about IcisCapture, for any lcores, ports, queues per lcore,  *)
(* sizes and limits, and any number of packets and seconds.                *)
(*                                                                         *)
(* Base is about the mbufs.  Its hard part is that the full ring refuses   *)
(* one packet at most: an lcore that finds it full holds an mbuf, the ring *)
(* holds buffer_size - 1, so none was lost before, and from then on one    *)
(* is.  Only one lcore at a time may be between the look and the loss.     *)
(*                                                                         *)
(* Order is about what one polling lcore and the master do until a         *)
(* shutdown begins: in the files, in the consumer's hands, on the ring, in *)
(* the burst, the packets lie in the order of their arrival, and a file    *)
(* that is opened has a number no file has.                                *)
(***************************************************************************)
EXTENDS IcisCapture, SequenceTheorems, FiniteSetTheorems, TLAPS

-----------------------------------------------------------------------------
(* The inductive invariant *)
\* TypeOK, but for the bounds on the mbufs and the file of an open dumper, which follow.
Types ==
  /\ process \in {"setup", "running", "exited", "crashed", "undefined"}
  /\ do_shutdown \in BOOLEAN /\ now \in 0..MaxTime /\ received \in 0..MaxPackets
  /\ handlers \in [Runs -> {"idle", "close", "exit"}]
  /\ enabled \in Masks /\ perLcore \in QueuesPerLcore
  /\ lcore \in [Lcores -> {"off", "poll", "stamp", "enqueue", "accepted", "refused"}]
  /\ burst \in [Lcores -> Seq(Packet)] /\ ring \in Seq(Packet) /\ m \in Seq(Packet)
  /\ pool \in Nat /\ unfreed \in Nat
  /\ refused \subseteq 1..MaxPackets
  /\ consumer \in {"start", "dequeue", "rotate", "close", "reopen", "dump", "free", "limit"}
  /\ last_rotation \in 0..MaxTime /\ {nb_rotations, nb_dumped_packets} \subseteq Nat
  /\ dumper \in {"none", "open", "closed"}

\* The consumer has a packet.
HasPacket == {"rotate", "close", "reopen", "dump", "free"}

\* An lcore that enqueues has a packet, and one lcore at a time is inside the ring.
LcoreShape ==
  /\ \A c \in Lcores : lcore[c] \in {"enqueue", "accepted", "refused"} => burst[c] # <<>>
  /\ \A c, d \in Lcores : Inside(c) /\ Inside(d) => c = d

\* Where the consumer is says what it holds.
ConsumerShape ==
  /\ consumer \in {"start", "dequeue"} => m = <<>>
  /\ consumer \in HasPacket => Len(m) = 1
  /\ consumer = "start" => nb_rotations = 0
  /\ dumper = "open" => nb_rotations \in DOMAIN files \/ consumer \in {"close", "limit"}

\* No mbuf is unaccounted for, and a second packet cannot be refused.
Accounted ==
  /\ pool + InBursts + Segments(ring) + Segments(m) + unfreed = buffer_size
  /\ refused # {} => unfreed >= 1
  /\ \A c \in Lcores : lcore[c] = "refused" => refused = {}
  /\ Cardinality(refused) <= 1

\* Only lcores that have ports poll, and only they have a burst.
Ranks ==
  \A c \in Lcores :
    /\ lcore[c] # "off" => c \in Polling /\ process # "setup"
    /\ burst[c] # <<>> => lcore[c] # "off"

\* The file a packet goes to is open, and no older one has its number.
FilesNumbered ==
  /\ consumer \in {"dequeue", "rotate", "close", "dump", "free"} => dumper = "open"
  /\ consumer = "start" => DOMAIN files = {}
  /\ DOMAIN files \subseteq 0..nb_rotations
  /\ consumer \in {"close", "reopen"} => nb_rotations \notin DOMAIN files
  /\ \A k \in DOMAIN files : files[k] \in Seq(1..MaxPackets)
  /\ files = [k \in DOMAIN files |-> files[k]]
  /\ IsFiniteSet(Places) /\ Cardinality(Places) = nb_dumped_packets

\* The packets received, from the oldest on: in the files, in the consumer's hands, on the
\* ring, in the burst.
DumpedBelow(n) == \A k \in DOMAIN files : \A i \in DOMAIN files[k] : files[k][i] < n
InHandBelow(n) == m # <<>> => m[1].n < n
OnRingBelow(n) == \A i \in DOMAIN ring : ring[i].n < n
InBurstBelow(c, n) == \A i \in DOMAIN burst[c] : burst[c][i].n < n

FilesInOrder ==
  \A k, l \in DOMAIN files : \A i \in DOMAIN files[k], j \in DOMAIN files[l] :
    k < l \/ (k = l /\ i < j) => files[k][i] < files[l][j]
HandInOrder == consumer \in HasPacket \ {"free"} => DumpedBelow(m[1].n)
RingInOrder ==
  \A i \in DOMAIN ring :
    /\ DumpedBelow(ring[i].n) /\ InHandBelow(ring[i].n)
    /\ \A j \in DOMAIN ring : i < j => ring[i].n < ring[j].n
BurstInOrder(c) ==
  \A i \in DOMAIN burst[c] :
    /\ DumpedBelow(burst[c][i].n) /\ InHandBelow(burst[c][i].n) /\ OnRingBelow(burst[c][i].n)
    /\ \A j \in DOMAIN burst[c] : i < j => burst[c][i].n < burst[c][j].n
Newest ==
  /\ DumpedBelow(received + 1) /\ InHandBelow(received + 1) /\ OnRingBelow(received + 1)
  /\ \A c \in Lcores : InBurstBelow(c, received + 1)
Line ==
  FilesInOrder /\ HandInOrder /\ RingInOrder /\ (\A c \in Lcores : BurstInOrder(c)) /\ Newest

\* What DumpedInOrder is about.
OneDumper == ~do_shutdown /\ Cardinality(Polling) <= 1
Order == OneDumper => FilesNumbered /\ Line

\* A handler that runs has set do_shutdown.
Shutdown == \A h \in Runs : handlers[h] # "idle" => do_shutdown

Base == Types /\ LcoreShape /\ ConsumerShape /\ Accounted

IInv == Base /\ Shutdown /\ Ranks /\ Order

-----------------------------------------------------------------------------
(* Mbufs *)
\* The constants, as the proofs use them.
LEMMA Parameters ==
  /\ IsFiniteSet(Lcores) /\ buffer_size \in Nat \ {0} /\ MaxSegments \in Nat \ {0}
  /\ MaxPackets \in Nat /\ MaxTime \in Nat /\ MAX_PKT_BURST \in Nat \ {0}
  /\ seconds_rotation \in Nat /\ max_packets \in Nat
BY ParameterAssumption DEF ParameterAssumption

\* The fields of a packet have their types.
LEMMA PacketFields ==
  ASSUME NEW p \in Packet
  PROVE  p.segments \in 1..MaxSegments /\ p.segments \in Nat /\ p.segments >= 1
         /\ p.n \in 1..MaxPackets /\ p.n \in Nat /\ p.ts \in 0..MaxTime
BY Parameters DEF Packet

\* There are k numbers up to k.
LEMMA CountTo ==
  ASSUME NEW k \in Nat
  PROVE  IsFiniteSet(1..k) /\ Cardinality(1..k) = k
<1>1. 1 \in Int /\ k \in Int
  OBVIOUS
<1>2. IsFiniteSet(1..k) /\ Cardinality(1..k) = IF 1 > k THEN 0 ELSE k - 1 + 1
  BY <1>1, FS_Interval
<1> QED
  BY <1>2

\* Two sets that have nothing in common.
LEMMA Together ==
  ASSUME NEW A, NEW B, IsFiniteSet(A), IsFiniteSet(B), A \cap B = {}
  PROVE  IsFiniteSet(A \cup B) /\ Cardinality(A \cup B) = Cardinality(A) + Cardinality(B)
<1>1. Cardinality({}) = 0
  BY FS_EmptySet
<1>2. Cardinality(A) \in Nat /\ Cardinality(B) \in Nat
  BY FS_CardinalityType
<1>3. /\ IsFiniteSet(A \cup B)
      /\ Cardinality(A \cup B) = Cardinality(A) + Cardinality(B) - Cardinality(A \cap B)
  BY FS_Union
<1>4. Cardinality(A \cap B) = 0
  BY <1>1
<1> QED
  BY <1>2, <1>3, <1>4

\* A set does not grow when each of its members gets the same label.
LEMMA Column ==
  ASSUME NEW x, NEW B, IsFiniteSet(B)
  PROVE  IsFiniteSet({x} \X B) /\ Cardinality({x} \X B) = Cardinality(B)
<1>1. IsFiniteSet({x}) /\ Cardinality({x}) = 1
  BY FS_Singleton
<1>2. Cardinality(B) \in Nat
  BY FS_CardinalityType
<1> QED
  BY <1>1, <1>2, FS_Product

\* A sequence of packets has at least one mbuf for each packet.
LEMMA MbufsCount ==
  ASSUME NEW s \in Seq(Packet)
  PROVE  IsFiniteSet(Mbufs(s)) /\ Segments(s) \in Nat /\ Len(s) <= Segments(s)
<1>1. Len(s) \in Nat /\ DOMAIN s = 1..Len(s) /\ MaxSegments \in Nat
  BY Parameters
<1>2. IsFiniteSet(1..Len(s)) /\ IsFiniteSet(1..MaxSegments) /\ Cardinality(1..Len(s)) = Len(s)
  BY <1>1, CountTo
<1>3. IsFiniteSet((DOMAIN s) \X (1..MaxSegments))
  BY <1>1, <1>2, FS_Product
<1>4. IsFiniteSet(Mbufs(s))
  BY <1>3, FS_Subset DEF Mbufs
<1> DEFINE f == [i \in 1..Len(s) |-> <<i, 1>>]
<1>5. f \in Injection(1..Len(s), Mbufs(s))
  <2>1. ASSUME NEW i \in 1..Len(s) PROVE <<i, 1>> \in Mbufs(s)
    <3>1. s[i] \in Packet /\ i \in DOMAIN s
      BY <1>1
    <3>2. s[i].segments \in Nat /\ s[i].segments >= 1 /\ 1 \in 1..MaxSegments
      BY <3>1, PacketFields, Parameters
    <3> QED
      BY <3>1, <3>2 DEF Mbufs
  <2>2. f \in [1..Len(s) -> Mbufs(s)]
    BY <2>1
  <2>3. \A i, j \in 1..Len(s) : f[i] = f[j] => i = j
    OBVIOUS
  <2> HIDE DEF f
  <2> QED
    BY <2>2, <2>3 DEF Injection, IsInjective
<1>6. Len(s) <= Segments(s)
  BY <1>2, <1>4, <1>5, FS_Injection DEF Segments
<1> QED
  BY <1>4, <1>6, FS_CardinalityType DEF Segments

\* No packet, no mbuf.
LEMMA NoMbufs == Segments(<<>>) = 0
<1>1. Mbufs(<<>>) = {}
  BY DEF Mbufs
<1> QED
  BY <1>1, FS_EmptySet DEF Segments

\* A packet at the end brings its mbufs.
LEMMA MbufsAppend ==
  ASSUME NEW s \in Seq(Packet), NEW p \in Packet
  PROVE  Segments(Append(s, p)) = Segments(s) + p.segments
<1> DEFINE n == Len(s)
           t == Append(s, p)
           P == {n + 1} \X (1..p.segments)
<1>1. n \in Nat /\ DOMAIN s = 1..n
  OBVIOUS
<1>2. /\ DOMAIN t = 1..(n + 1) /\ t[n + 1] = p
      /\ \A i \in 1..n : t[i] = s[i]
  BY AppendProperties
<1>3. p.segments \in Nat /\ p.segments \in 1..MaxSegments /\ MaxSegments \in Nat
  BY PacketFields, Parameters
<1>4. IsFiniteSet(P) /\ Cardinality(P) = p.segments
  BY <1>3, CountTo, Column
<1> HIDE DEF n, t
<1>5. Mbufs(t) = Mbufs(s) \cup P
  <2>1. ASSUME NEW i, NEW j PROVE <<i, j>> \in Mbufs(t) <=> <<i, j>> \in Mbufs(s) \cup P
    <3>1. <<i, j>> \in Mbufs(t) <=> i \in 1..(n + 1) /\ j \in 1..MaxSegments /\ j <= t[i].segments
      BY <1>2 DEF Mbufs
    <3>2. <<i, j>> \in Mbufs(s) <=> i \in 1..n /\ j \in 1..MaxSegments /\ j <= s[i].segments
      BY <1>1 DEF Mbufs
    <3>3. <<i, j>> \in P <=> i = n + 1 /\ j \in 1..MaxSegments /\ j <= p.segments
      BY <1>3
    <3>4. i \in 1..(n + 1) <=> i \in 1..n \/ i = n + 1
      BY <1>1
    <3>5. n + 1 \notin 1..n
      BY <1>1
    <3> QED
      BY <1>2, <3>1, <3>2, <3>3, <3>4, <3>5
  <2>2. \A x \in Mbufs(t) : x = <<x[1], x[2]>>
    BY DEF Mbufs
  <2>3. \A x \in Mbufs(s) \cup P : x = <<x[1], x[2]>>
    BY DEF Mbufs
  <2> HIDE DEF P
  <2> QED
    BY <2>1, <2>2, <2>3
<1>6. Mbufs(s) \cap P = {}
  <2>1. \A x \in Mbufs(s) : x[1] \in 1..n
    BY <1>1 DEF Mbufs
  <2>2. \A x \in P : x[1] = n + 1
    OBVIOUS
  <2>3. n + 1 \notin 1..n
    BY <1>1
  <2> HIDE DEF P
  <2> QED
    BY <2>1, <2>2, <2>3
<1> HIDE DEF P
<1> QED
  BY <1>4, <1>5, <1>6, MbufsCount, Together DEF Segments, t

\* A packet that leaves at the front takes its mbufs along.
LEMMA MbufsTail ==
  ASSUME NEW s \in Seq(Packet), s # <<>>
  PROVE  /\ Tail(s) \in Seq(Packet) /\ Head(s) \in Packet
         /\ Segments(s) = Head(s).segments + Segments(Tail(s))
<1> DEFINE n == Len(s)
           t == Tail(s)
           p == Head(s)
           P == {1} \X (1..p.segments)
           S == Mbufs(s) \ P
           f == [x \in Mbufs(t) |-> <<x[1] + 1, x[2]>>]
<1>1. n \in Nat /\ DOMAIN s = 1..n /\ n >= 1
  OBVIOUS
<1>2. /\ t \in Seq(Packet) /\ DOMAIN t = 1..(n - 1) /\ p = s[1] /\ p \in Packet
      /\ \A i \in 1..(n - 1) : t[i] = s[i + 1]
  BY <1>1
<1>3. p.segments \in Nat /\ p.segments \in 1..MaxSegments /\ MaxSegments \in Nat
  BY <1>2, PacketFields, Parameters
<1>4. IsFiniteSet(P) /\ Cardinality(P) = p.segments
  BY <1>3, CountTo, Column
<1> HIDE DEF n, t, p
<1>5. \A i, j : <<i, j>> \in Mbufs(s) <=> i \in 1..n /\ j \in 1..MaxSegments /\ j <= s[i].segments
  BY <1>1 DEF Mbufs
<1>6. \A i, j : <<i, j>> \in Mbufs(t) <=> i \in 1..(n - 1) /\ j \in 1..MaxSegments /\ j <= t[i].segments
  BY <1>2 DEF Mbufs
<1>7. \A i, j : <<i, j>> \in P <=> i = 1 /\ j \in 1..MaxSegments /\ j <= p.segments
  BY <1>3
<1>8. \A x \in Mbufs(s) \cup Mbufs(t) \cup P : x = <<x[1], x[2]>>
  BY DEF Mbufs
<1> HIDE DEF P
<1>9. P \subseteq Mbufs(s)
  <2>1. ASSUME NEW x \in P PROVE x \in Mbufs(s)
    <3>1. x = <<x[1], x[2]>> /\ x[1] = 1 /\ x[2] \in 1..MaxSegments /\ x[2] <= p.segments
      BY <1>7, <1>8
    <3>2. <<1, x[2]>> \in Mbufs(s)
      BY <1>1, <1>2, <1>5, <3>1
    <3> QED
      BY <3>1, <3>2
  <2> QED
    BY <2>1
<1>10. \A i, j : <<i, j>> \in S <=> i \in 2..n /\ j \in 1..MaxSegments /\ j <= s[i].segments
  <2>1. \A i : i \in 1..n /\ i # 1 <=> i \in 2..n
    BY <1>1
  <2> QED
    BY <1>2, <1>5, <1>7, <2>1
<1>11. f \in Bijection(Mbufs(t), S)
  <2>1. ASSUME NEW x \in Mbufs(t) PROVE <<x[1] + 1, x[2]>> \in S
    <3>1. x = <<x[1], x[2]>> /\ x[1] \in 1..(n - 1) /\ x[2] \in 1..MaxSegments
          /\ x[2] <= t[x[1]].segments
      BY <1>6, <1>8
    <3>2. x[1] + 1 \in 2..n /\ t[x[1]] = s[x[1] + 1]
      BY <1>1, <1>2, <3>1
    <3> QED
      BY <1>10, <3>1, <3>2
  <2>2. f \in [Mbufs(t) -> S]
    BY <2>1
  <2>3. \A x, y \in Mbufs(t) : f[x] = f[y] => x = y
    <3>1. \A x \in Mbufs(t) : x = <<x[1], x[2]>> /\ x[1] \in Nat
      BY <1>1, <1>6, <1>8
    <3> QED
      BY <3>1
  <2>4. ASSUME NEW y \in S PROVE \E x \in Mbufs(t) : f[x] = y
    <3>1. y = <<y[1], y[2]>> /\ y[1] \in 2..n /\ y[2] \in 1..MaxSegments
          /\ y[2] <= s[y[1]].segments
      BY <1>8, <1>10
    <3>2. y[1] - 1 \in 1..(n - 1) /\ t[y[1] - 1] = s[y[1]] /\ (y[1] - 1) + 1 = y[1]
      BY <1>1, <1>2, <3>1
    <3>3. <<y[1] - 1, y[2]>> \in Mbufs(t)
      BY <1>6, <3>1, <3>2
    <3> QED
      BY <3>1, <3>2, <3>3
  <2> HIDE DEF f, S
  <2> QED
    BY <2>2, <2>3, <2>4 DEF Bijection, Injection, Surjection, IsInjective
<1>12. IsFiniteSet(Mbufs(t)) /\ Cardinality(S) = Cardinality(Mbufs(t)) /\ IsFiniteSet(S)
  <2>1. IsFiniteSet(Mbufs(t))
    BY <1>2, MbufsCount
  <2> HIDE DEF f, S
  <2> QED
    BY <1>11, <2>1, FS_Bijection DEF ExistsBijection
<1>13. Mbufs(s) = P \cup S /\ P \cap S = {}
  BY <1>9
<1> HIDE DEF S
<1>14. Segments(s) = p.segments + Segments(t)
  <2>1. Cardinality(P \cup S) = Cardinality(P) + Cardinality(S)
    BY <1>4, <1>12, <1>13, Together
  <2>2. Cardinality(Mbufs(s)) = p.segments + Cardinality(Mbufs(t))
    BY <1>4, <1>12, <1>13, <2>1
  <2> QED
    BY <2>2 DEF Segments
<1> QED
  BY <1>2, <1>14 DEF t, p

\* The mbufs of a sequence of one packet are that packet's.
LEMMA OnePacket ==
  ASSUME NEW s \in Seq(Packet), Len(s) = 1
  PROVE  s[1] \in Packet /\ Segments(s) = s[1].segments
<1>1. s # <<>> /\ Head(s) = s[1]
  OBVIOUS
<1>4. Tail(s) = <<>>
  <2>1. Tail(s) \in Seq(Packet) /\ Len(Tail(s)) = 0
    BY <1>1
  <2> QED
    BY <2>1, EmptySeq
<1>2. Head(s) \in Packet /\ Segments(s) = Head(s).segments + Segments(Tail(s))
  BY <1>1, MbufsTail
<1>3. s[1].segments \in Nat
  BY <1>1, <1>2, PacketFields
<1> QED
  <2>1. Segments(Tail(s)) = 0
    BY <1>4, NoMbufs
  <2>2. Segments(s) = s[1].segments + Segments(Tail(s)) /\ s[1] \in Packet
    BY <1>1, <1>2
  <2> QED
    BY <1>3, <2>1, <2>2

\* The same, for a sequence made of one packet.
LEMMA SingleMbufs ==
  ASSUME NEW p \in Packet
  PROVE  <<p>> \in Seq(Packet) /\ Len(<<p>>) = 1 /\ Segments(<<p>>) = p.segments
<1>1. <<p>> \in Seq(Packet) /\ Len(<<p>>) = 1 /\ <<p>>[1] = p
  OBVIOUS
<1> QED
  BY <1>1, OnePacket

\* The time stamp of a packet is not one of its mbufs.
LEMMA StampedMbufs ==
  ASSUME NEW s \in Seq(Packet), s # <<>>, NEW t \in 0..MaxTime
  PROVE  LET r == [s EXCEPT ![1].ts = t]
         IN  /\ r \in Seq(Packet) /\ Len(r) = Len(s) /\ DOMAIN r = DOMAIN s
             /\ \A i \in DOMAIN s : r[i].n = s[i].n
             /\ Segments(r) = Segments(s)
<1> DEFINE p == [s[1] EXCEPT !.ts = t]
           r == [s EXCEPT ![1] = p]
<1>1. Len(s) \in Nat /\ DOMAIN s = 1..Len(s) /\ Len(s) >= 1 /\ s[1] \in Packet
  OBVIOUS
<1>2. p \in Packet /\ p.n = s[1].n /\ p.segments = s[1].segments
  BY <1>1 DEF Packet
<1> HIDE DEF p
<1>3. /\ r \in Seq(Packet) /\ Len(r) = Len(s) /\ DOMAIN r = DOMAIN s
      /\ r[1] = p /\ \A i \in DOMAIN s : i # 1 => r[i] = s[i]
  BY <1>1, <1>2
<1> HIDE DEF r
<1>4. \A i \in DOMAIN s : r[i].n = s[i].n /\ r[i].segments = s[i].segments
  BY <1>2, <1>3
<1>5. Mbufs(r) = Mbufs(s)
  BY <1>3, <1>4 DEF Mbufs
<1> QED
  BY <1>3, <1>4, <1>5 DEF Segments, r, p

-----------------------------------------------------------------------------
(* The bursts of all lcores *)
\* The mbufs of the bursts b of the lcores in S.
InAll(b, S) == UNION {{c} \X Mbufs(b[c]) : c \in S}

\* The lcores have finitely many mbufs.
LEMMA InAllFinite ==
  ASSUME NEW b, NEW S \in SUBSET Lcores, \A c \in S : b[c] \in Seq(Packet)
  PROVE  IsFiniteSet(InAll(b, S))
<1> DEFINE T == {{c} \X Mbufs(b[c]) : c \in S}
           f == [c \in S |-> {c} \X Mbufs(b[c])]
<1>1. IsFiniteSet(S)
  BY Parameters, FS_Subset
<1>2. f \in Surjection(S, T)
  BY DEF Surjection
<1>3. IsFiniteSet(T)
  BY <1>1, <1>2, FS_Surjection
<1>4. \A X \in T : IsFiniteSet(X)
  BY MbufsCount, Column
<1> QED
  BY <1>3, <1>4, FS_UNION DEF InAll

\* The mbufs of one lcore and those of the others are all of them.
LEMMA InAllSplit ==
  ASSUME NEW b \in [Lcores -> Seq(Packet)], NEW c \in Lcores
  PROVE  /\ Cardinality(InAll(b, Lcores)) = Segments(b[c]) + Cardinality(InAll(b, Lcores \ {c}))
         /\ Cardinality(InAll(b, Lcores)) \in Nat
         /\ Cardinality(InAll(b, Lcores \ {c})) \in Nat /\ Segments(b[c]) \in Nat
<1> DEFINE C == {c} \X Mbufs(b[c])
           R == InAll(b, Lcores \ {c})
<1>1. IsFiniteSet(InAll(b, Lcores)) /\ IsFiniteSet(R)
  BY InAllFinite
<1>2. IsFiniteSet(C) /\ Cardinality(C) = Segments(b[c]) /\ Segments(b[c]) \in Nat
  BY MbufsCount, Column DEF Segments
<1>3. InAll(b, Lcores) = C \cup R
  BY DEF InAll
<1>4. C \cap R = {}
  BY DEF InAll
<1> HIDE DEF C, R
<1>5. Cardinality(InAll(b, Lcores)) = Cardinality(C) + Cardinality(R)
  BY <1>1, <1>2, <1>3, <1>4, Together
<1>6. Cardinality(R) \in Nat /\ Cardinality(InAll(b, Lcores)) \in Nat
  BY <1>1, FS_CardinalityType
<1> QED
  BY <1>2, <1>5, <1>6 DEF R

\* When one burst changes, the mbufs of all change by the same number.
LEMMA InAllChange ==
  ASSUME NEW b \in [Lcores -> Seq(Packet)], NEW c \in Lcores, NEW d \in [Lcores -> Seq(Packet)],
         \A e \in Lcores : e # c => d[e] = b[e]
  PROVE  /\ Cardinality(InAll(b, Lcores)) \in Nat /\ Cardinality(InAll(d, Lcores)) \in Nat
         /\ Segments(b[c]) \in Nat /\ Segments(d[c]) \in Nat
         /\ Segments(b[c]) <= Cardinality(InAll(b, Lcores))
         /\ Cardinality(InAll(d, Lcores)) + Segments(b[c])
              = Cardinality(InAll(b, Lcores)) + Segments(d[c])
<1>1. InAll(d, Lcores \ {c}) = InAll(b, Lcores \ {c})
  BY DEF InAll
<1> DEFINE r == Cardinality(InAll(b, Lcores \ {c}))
           x == Cardinality(InAll(b, Lcores))
           y == Cardinality(InAll(d, Lcores))
<1>2. x = Segments(b[c]) + r /\ x \in Nat /\ r \in Nat /\ Segments(b[c]) \in Nat
  BY InAllSplit
<1>3. y = Segments(d[c]) + r /\ y \in Nat /\ Segments(d[c]) \in Nat
  BY <1>1, InAllSplit
<1> HIDE DEF r, x, y
<1>4. Segments(b[c]) <= x /\ y + Segments(b[c]) = x + Segments(d[c])
  BY <1>2, <1>3
<1> QED
  BY <1>2, <1>3, <1>4 DEF x, y

\* No lcore has a packet at first.
LEMMA NoBursts ==
  ASSUME NEW b, \A c \in Lcores : b[c] = <<>>
  PROVE  Cardinality(InAll(b, Lcores)) = 0
<1>1. Mbufs(<<>>) = {}
  BY DEF Mbufs
<1>2. \A c \in Lcores : {c} \X Mbufs(b[c]) = {}
  BY <1>1
<1>3. InAll(b, Lcores) = {}
  BY <1>2 DEF InAll
<1> QED
  BY <1>3, FS_EmptySet

\* Sums, as they occur in the steps.
LEMMA Plus ==
  ASSUME NEW a \in Nat, NEW b \in Nat, NEW x \in Nat, NEW y \in Nat, NEW k \in Nat,
         a + x = b + y
  PROVE  /\ y = x + k => a = b + k
         /\ x = k + y => a + k = b
OBVIOUS

\* k mbufs leave a burst for the ring, or get lost.
LEMMA Balance ==
  ASSUME NEW a \in Nat, NEW b \in Nat, NEW k \in Nat, a + k = b,
         NEW p \in Nat, NEW r \in Nat, NEW q \in Nat, NEW u \in Nat, NEW t,
         p + b + r + q + u = t
  PROVE  p + a + (r + k) + q + u = t /\ p + a + r + q + (u + k) = t
OBVIOUS

-----------------------------------------------------------------------------
(* What a step leaves alone *)
\* A step that leaves the packets and the pool alone keeps the accounts.
LEMMA SameAccounts ==
  ASSUME Accounted, UNCHANGED <<pool, burst, ring, m, unfreed, refused>>,
         \A c \in Lcores : lcore'[c] = "refused" => lcore[c] = "refused"
  PROVE  Accounted'
BY DEF Accounted, InBursts, Segments, Mbufs

\* A step that leaves the lcores alone keeps their shape.
LEMMA SameLcores ==
  ASSUME LcoreShape, UNCHANGED <<burst, lcore>>
  PROVE  LcoreShape'
BY DEF LcoreShape, Inside

\* A step that leaves the consumer alone keeps its shape.
LEMMA SameConsumer ==
  ASSUME ConsumerShape, UNCHANGED <<consumer, m, nb_rotations, dumper, files>>
  PROVE  ConsumerShape'
BY DEF ConsumerShape

\* InBursts in the present state, and in the next.
LEMMA InBurstsIs == InBursts = Cardinality(InAll(burst, Lcores))
BY DEF InBursts, InAll

\* InBursts in the next state.
LEMMA InBurstsWillBe == InBursts' = Cardinality(InAll(burst', Lcores))
BY DEF InBursts, InAll

\* The mbufs of the next ring and of the next m.
LEMMA SegmentsWillBe ==
  /\ Segments(ring)' = Segments(ring') /\ Segments(m)' = Segments(m')
BY DEF Segments, Mbufs

\* The accounts in numbers.
LEMMA Amounts ==
  ASSUME Types, Accounted
  PROVE  /\ Segments(ring) \in Nat /\ Segments(m) \in Nat /\ InBursts \in Nat
         /\ pool \in Nat /\ unfreed \in Nat
         /\ pool + InBursts + Segments(ring) + Segments(m) + unfreed = buffer_size
         /\ Len(ring) <= Segments(ring)
<1>1. burst \in [Lcores -> Seq(Packet)] /\ ring \in Seq(Packet) /\ m \in Seq(Packet)
      /\ pool \in Nat /\ unfreed \in Nat
  BY DEF Types
<1>2. InBursts \in Nat
  <2>1. IsFiniteSet(InAll(burst, Lcores))
    BY <1>1, InAllFinite
  <2> QED
    BY <2>1, FS_CardinalityType, InBurstsIs
<1> QED
  BY <1>1, <1>2, MbufsCount DEF Accounted

\* Only the burst of lcore c changes.
LEMMA BurstStep ==
  ASSUME Types, NEW c \in Lcores, NEW s \in Seq(Packet), burst' = [burst EXCEPT ![c] = s]
  PROVE  /\ burst' \in [Lcores -> Seq(Packet)] /\ burst'[c] = s
         /\ \A d \in Lcores : d # c => burst'[d] = burst[d]
         /\ InBursts' + Segments(burst[c]) = InBursts + Segments(s)
         /\ InBursts' \in Nat /\ InBursts \in Nat /\ Segments(burst[c]) \in Nat
         /\ Segments(s) \in Nat /\ Segments(burst[c]) <= InBursts
<1>1. burst \in [Lcores -> Seq(Packet)]
  BY DEF Types
<1>2. /\ burst' \in [Lcores -> Seq(Packet)] /\ burst'[c] = s
      /\ \A d \in Lcores : d # c => burst'[d] = burst[d]
  BY <1>1
<1> DEFINE b == burst
           d == burst'
<1>3. /\ Cardinality(InAll(b, Lcores)) \in Nat /\ Cardinality(InAll(d, Lcores)) \in Nat
      /\ Segments(b[c]) \in Nat /\ Segments(d[c]) \in Nat
      /\ Segments(b[c]) <= Cardinality(InAll(b, Lcores))
      /\ Cardinality(InAll(d, Lcores)) + Segments(b[c])
           = Cardinality(InAll(b, Lcores)) + Segments(d[c])
  <2> HIDE DEF b, d
  <2>1. b \in [Lcores -> Seq(Packet)] /\ d \in [Lcores -> Seq(Packet)]
        /\ \A e \in Lcores : e # c => d[e] = b[e]
    BY <1>1, <1>2 DEF b, d
  <2> QED
    BY <2>1, InAllChange
<1>4. Segments(d[c]) = Segments(s)
  BY <1>2
<1> HIDE DEF b, d
<1>5. Segments(burst[c]) = Segments(b[c])
  BY DEF b
<1> QED
  BY <1>2, <1>3, <1>4, <1>5, InBurstsIs, InBurstsWillBe DEF b, d

\* Only lcore c moves.
LEMMA LcoreStep ==
  ASSUME Types, NEW c \in Lcores,
         NEW x \in {"off", "poll", "stamp", "enqueue", "accepted", "refused"},
         lcore' = [lcore EXCEPT ![c] = x]
  PROVE  /\ lcore' \in [Lcores -> {"off", "poll", "stamp", "enqueue", "accepted", "refused"}]
         /\ lcore'[c] = x /\ \A d \in Lcores : d # c => lcore'[d] = lcore[d]
BY DEF Types

-----------------------------------------------------------------------------
(* The steps that keep the threads in shape and lose no mbuf *)
\* The end of the process, however it comes, changes nothing else.
LEMMA StopBase ==
  ASSUME Base, NEW how \in {"exited", "crashed", "undefined"}, Stop(how)
  PROVE  Base'
<1>1. process' = how
      /\ UNCHANGED <<do_shutdown, handlers, now, enabled, perLcore, received, lcore, burst,
                     pool, unfreed, refused, ring, consumer, m, last_rotation, nb_rotations,
                     nb_dumped_packets, dumper, files>>
  BY DEF Stop, setupVars, lcoreVars, mbufVars, countVars, fileVars
<1>2. Types'
  BY <1>1 DEF Base, Types
<1> QED
  BY <1>1, <1>2, SameAccounts, SameLcores, SameConsumer DEF Base

\* main launches the lcores with empty bursts.
LEMMA SetupBase ==
  ASSUME Base, Setup
  PROVE  Base'
<1>1. CASE Stop("exited")
  BY <1>1, StopBase
<1>2. CASE /\ process' = "running"
           /\ lcore' = [c \in Lcores |-> IF c \in Polling THEN "poll" ELSE "off"]
           /\ UNCHANGED <<do_shutdown, handlers, now, setupVars, received, burst, mbufVars,
                          ring, consumer, m, countVars, fileVars>>
  <2>1. UNCHANGED <<do_shutdown, handlers, now, enabled, perLcore, received, burst,
                     pool, unfreed, refused, ring, consumer, m, last_rotation, nb_rotations,
                     nb_dumped_packets, dumper, files>>
    BY <1>2 DEF setupVars, mbufVars, countVars, fileVars
  <2>2. \A c \in Lcores : lcore'[c] \in {"poll", "off"}
    BY <1>2
  <2>3. lcore' \in [Lcores -> {"off", "poll", "stamp", "enqueue", "accepted", "refused"}]
    BY <1>2
  <2>4. Types'
    BY <1>2, <2>1, <2>3 DEF Base, Types
  <2>5. LcoreShape'
    BY <2>2 DEF LcoreShape, Inside
  <2> QED
    BY <2>1, <2>2, <2>4, <2>5, SameAccounts, SameConsumer DEF Base
<1> QED
  BY <1>1, <1>2 DEF Setup

\* The mbufs of a packet come out of the pool, or all free ones are lost.
LEMMA RxPacketBase ==
  ASSUME Base, NEW c \in Lcores, RxPacket(c)
  PROVE  Base'
<1>0. Types /\ LcoreShape /\ ConsumerShape /\ Accounted
  BY DEF Base
<1>1. /\ lcore[c] = "poll" /\ received < MaxPackets /\ received' = received + 1
      /\ UNCHANGED <<process, do_shutdown, handlers, now, enabled, perLcore, refused, ring,
                     consumer, m, last_rotation, nb_rotations, nb_dumped_packets, dumper, files>>
  BY DEF RxPacket, endVars, setupVars, countVars, fileVars
<1>2. ConsumerShape'
  BY <1>0, <1>1, SameConsumer
<1>3. received' \in 0..MaxPackets
  BY <1>0, <1>1, Parameters DEF Types
<1>4. burst \in [Lcores -> Seq(Packet)] /\ burst[c] \in Seq(Packet)
  BY <1>0 DEF Types
<1>5. /\ Segments(ring) \in Nat /\ Segments(m) \in Nat /\ InBursts \in Nat
      /\ pool \in Nat /\ unfreed \in Nat
      /\ pool + InBursts + Segments(ring) + Segments(m) + unfreed = buffer_size
  BY <1>0, Amounts
<1>6. Segments(ring') = Segments(ring) /\ Segments(m') = Segments(m)
  BY <1>1
<1>7. PICK segments \in 1..MaxSegments :
       IF ChainFits(segments)
       THEN /\ pool' = pool - segments
            /\ burst' = [burst EXCEPT ![c] =
                 Append(@, [n |-> received + 1, segments |-> segments, ts |-> 0])]
            /\ UNCHANGED <<lcore, unfreed>>
       ELSE /\ pool' = 0 /\ unfreed' = unfreed + pool
            /\ lcore' = [lcore EXCEPT ![c] = "stamp"]
            /\ UNCHANGED burst
  BY DEF RxPacket
<1>8. CASE ChainFits(segments)
  <2> DEFINE p == [n |-> received + 1, segments |-> segments, ts |-> 0]
             s == Append(burst[c], p)
  <2>1. p \in Packet /\ p.segments = segments /\ segments \in Nat /\ segments <= pool
    BY <1>0, <1>1, <1>8, Parameters DEF Types, Packet, ChainFits
  <2>2. s \in Seq(Packet) /\ s # <<>> /\ Segments(s) = Segments(burst[c]) + segments
    <3> HIDE DEF p
    <3>1. Segments(s) = Segments(burst[c]) + segments
      BY <1>4, <2>1, MbufsAppend
    <3>2. s \in Seq(Packet) /\ Len(s) = Len(burst[c]) + 1 /\ Len(burst[c]) \in Nat
      BY <1>4, <2>1, AppendProperties
    <3> QED
      BY <3>1, <3>2
  <2>3. burst' = [burst EXCEPT ![c] = s] /\ pool' = pool - segments /\ UNCHANGED <<lcore, unfreed>>
    BY <1>7, <1>8
  <2> HIDE DEF s, p
  <2>4. /\ burst' \in [Lcores -> Seq(Packet)] /\ burst'[c] = s
        /\ \A d \in Lcores : d # c => burst'[d] = burst[d]
        /\ InBursts' + Segments(burst[c]) = InBursts + Segments(s)
        /\ InBursts' \in Nat /\ Segments(burst[c]) \in Nat
    BY <1>0, <2>2, <2>3, BurstStep
  <2>5. pool' \in Nat /\ pool' + InBursts' = pool + InBursts
    <3>1. pool' \in Nat /\ pool' + segments = pool
      BY <1>5, <2>1, <2>3
    <3>3. /\ InBursts' \in Nat /\ InBursts \in Nat /\ Segments(burst[c]) \in Nat
          /\ segments \in Nat /\ Segments(s) \in Nat
          /\ InBursts' + Segments(burst[c]) = InBursts + Segments(s)
          /\ Segments(s) = Segments(burst[c]) + segments
      BY <1>5, <2>1, <2>2, <2>4
    <3>2. InBursts' = InBursts + segments
      BY <3>3, Plus
    <3>4. pool \in Nat /\ pool' \in Nat /\ pool' + segments = pool
      BY <1>5, <3>1
    <3>6. InBursts \in Nat /\ InBursts' \in Nat /\ pool \in Nat /\ pool' \in Nat /\ segments \in Nat
      BY <3>3, <3>4
    <3>7. InBursts' = InBursts + segments /\ pool' + segments = pool
      BY <3>2, <3>4
    <3>5. pool' + InBursts' = pool + InBursts
      <4> DEFINE a == InBursts
                 b == InBursts'
                 q == pool'
      <4>1. a \in Nat /\ b \in Nat /\ pool \in Nat /\ q \in Nat /\ segments \in Nat
            /\ b = a + segments /\ q + segments = pool
        BY <3>6, <3>7
      <4> HIDE DEF a, b, q
      <4>2. q + b = pool + a
        BY <4>1
      <4> QED
        BY <4>2 DEF a, b, q
    <3> QED
      BY <3>4, <3>5
  <2>6. Accounted'
    <3>1. pool' + InBursts' + Segments(ring) + Segments(m) + unfreed = buffer_size
      BY <1>5, <2>4, <2>5
    <3> QED
      BY <1>0, <1>1, <1>6, <2>3, <3>1, SegmentsWillBe DEF Accounted
  <2>7. LcoreShape'
    BY <1>0, <2>2, <2>3, <2>4 DEF LcoreShape, Inside
  <2>8. Types'
    BY <1>0, <1>1, <1>3, <2>3, <2>4, <2>5 DEF Types
  <2> QED
    BY <1>2, <2>6, <2>7, <2>8 DEF Base
<1>9. CASE ~ChainFits(segments)
  <2>1. pool' = 0 /\ unfreed' = unfreed + pool /\ lcore' = [lcore EXCEPT ![c] = "stamp"] /\ burst' = burst
    BY <1>7, <1>9
  <2>2. /\ lcore' \in [Lcores -> {"off", "poll", "stamp", "enqueue", "accepted", "refused"}]
        /\ lcore'[c] = "stamp" /\ \A d \in Lcores : d # c => lcore'[d] = lcore[d]
    BY <1>0, <2>1, LcoreStep
  <2>3. Types'
    <3>1. pool' \in Nat /\ unfreed' \in Nat
      BY <1>5, <2>1
    <3> QED
      BY <1>0, <1>1, <1>3, <2>1, <2>2, <3>1 DEF Types
  <2>4. LcoreShape'
    BY <1>0, <2>1, <2>2 DEF LcoreShape, Inside
  <2>5. Accounted'
    <3>1. InBursts' = InBursts
      BY <2>1, InBurstsIs, InBurstsWillBe
    <3>2. pool' + InBursts' + Segments(ring) + Segments(m) + unfreed' = buffer_size
      BY <1>5, <2>1, <3>1
    <3>3. refused # {} => unfreed' >= 1
      BY <1>0, <1>5, <2>1 DEF Accounted
    <3> QED
      BY <1>0, <1>1, <1>6, <2>2, <3>2, <3>3, SegmentsWillBe DEF Accounted
  <2> QED
    BY <1>2, <2>3, <2>4, <2>5 DEF Base
<1> QED
  BY <1>8, <1>9

\* The end of a burst.
LEMMA RxEndBase ==
  ASSUME Base, NEW c \in Lcores, RxEnd(c)
  PROVE  Base'
<1>1. /\ lcore' = [lcore EXCEPT ![c] = "stamp"]
      /\ UNCHANGED <<process, do_shutdown, handlers, now, enabled, perLcore, received, burst,
                     pool, unfreed, refused, ring, consumer, m, last_rotation, nb_rotations,
                     nb_dumped_packets, dumper, files>>
  BY DEF RxEnd, endVars, setupVars, mbufVars, countVars, fileVars
<1>2. /\ lcore' \in [Lcores -> {"off", "poll", "stamp", "enqueue", "accepted", "refused"}]
      /\ lcore'[c] = "stamp" /\ \A d \in Lcores : d # c => lcore'[d] = lcore[d]
  BY <1>1, LcoreStep DEF Base
<1>3. Types'
  BY <1>1, <1>2 DEF Base, Types
<1>4. LcoreShape'
  BY <1>1, <1>2 DEF Base, LcoreShape, Inside
<1> QED
  BY <1>1, <1>2, <1>3, <1>4, SameAccounts, SameConsumer DEF Base

\* Stamping a packet changes no mbuf.
LEMMA StampBase ==
  ASSUME Base, NEW c \in Lcores, Stamp(c)
  PROVE  Base'
<1>0. Types /\ LcoreShape /\ ConsumerShape /\ Accounted
  BY DEF Base
<1>1. UNCHANGED <<process, do_shutdown, handlers, now, enabled, perLcore, received,
                  pool, unfreed, refused, ring, consumer, m, last_rotation, nb_rotations,
                  nb_dumped_packets, dumper, files>>
  BY DEF Stamp, endVars, setupVars, mbufVars, countVars, fileVars
<1>2. ConsumerShape'
  BY <1>0, <1>1, SameConsumer
<1>3. burst \in [Lcores -> Seq(Packet)] /\ burst[c] \in Seq(Packet) /\ now \in 0..MaxTime
  BY <1>0 DEF Types
<1>4. CASE burst[c] = <<>>
  <2>1. lcore' = [lcore EXCEPT ![c] = "poll"] /\ burst' = burst
    BY <1>4 DEF Stamp
  <2>2. /\ lcore' \in [Lcores -> {"off", "poll", "stamp", "enqueue", "accepted", "refused"}]
        /\ lcore'[c] = "poll" /\ \A d \in Lcores : d # c => lcore'[d] = lcore[d]
    BY <1>0, <2>1, LcoreStep
  <2>3. Types'
    BY <1>0, <1>1, <2>1, <2>2 DEF Types
  <2>4. LcoreShape'
    BY <1>0, <2>1, <2>2 DEF LcoreShape, Inside
  <2> QED
    BY <1>0, <1>1, <1>2, <2>1, <2>2, <2>3, <2>4, SameAccounts DEF Base
<1>5. CASE burst[c] # <<>>
  <2> DEFINE r == [burst[c] EXCEPT ![1].ts = now]
  <2>1. lcore' = [lcore EXCEPT ![c] = "enqueue"] /\ burst' = [burst EXCEPT ![c] = r]
    BY <1>5 DEF Stamp
  <2>2. /\ lcore' \in [Lcores -> {"off", "poll", "stamp", "enqueue", "accepted", "refused"}]
        /\ lcore'[c] = "enqueue" /\ \A d \in Lcores : d # c => lcore'[d] = lcore[d]
    BY <1>0, <2>1, LcoreStep
  <2>3. /\ r \in Seq(Packet) /\ Len(r) = Len(burst[c]) /\ Segments(r) = Segments(burst[c])
    BY <1>3, <1>5, StampedMbufs
  <2> HIDE DEF r
  <2>4. /\ burst' \in [Lcores -> Seq(Packet)] /\ burst'[c] = r
        /\ \A d \in Lcores : d # c => burst'[d] = burst[d]
        /\ InBursts' + Segments(burst[c]) = InBursts + Segments(r)
        /\ InBursts' \in Nat /\ InBursts \in Nat /\ Segments(burst[c]) \in Nat
    BY <1>0, <2>1, <2>3, BurstStep
  <2>5. InBursts' = InBursts
    BY <2>3, <2>4
  <2>6. r # <<>>
    BY <1>3, <1>5, <2>3
  <2>7. Types'
    BY <1>0, <1>1, <2>2, <2>4 DEF Types
  <2>8. LcoreShape'
    BY <1>0, <2>2, <2>4, <2>6 DEF LcoreShape, Inside
  <2>9. Accounted'
    <3>1. Segments(ring') = Segments(ring) /\ Segments(m') = Segments(m)
      BY <1>1
    <3> QED
      BY <1>0, <1>1, <2>2, <2>5, <3>1, SegmentsWillBe DEF Accounted
  <2> QED
    BY <1>2, <2>7, <2>8, <2>9 DEF Base
<1> QED
  BY <1>4, <1>5


\* An lcore that finds the ring full: nothing was lost before.
LEMMA RingLookBase ==
  ASSUME Base, NEW c \in Lcores, RingLook(c)
  PROVE  Base'
<1>0. Types /\ LcoreShape /\ ConsumerShape /\ Accounted
  BY DEF Base
<1>1. CASE Stop("undefined")
  BY <1>1, StopBase
<1>2. CASE /\ ~\E d \in Lcores \ {c} : Inside(d)
           /\ lcore[c] = "enqueue"
           /\ lcore' = [lcore EXCEPT ![c] =
                IF Len(ring) < buffer_size - 1 THEN "accepted" ELSE "refused"]
           /\ UNCHANGED <<endVars, now, setupVars, received, burst, mbufVars, ring, consumer,
                          m, countVars, fileVars>>
  <2> DEFINE x == IF Len(ring) < buffer_size - 1 THEN "accepted" ELSE "refused"
  <2>1. UNCHANGED <<process, do_shutdown, handlers, now, enabled, perLcore, received, burst,
                    pool, unfreed, refused, ring, consumer, m, last_rotation, nb_rotations,
                    nb_dumped_packets, dumper, files>>
    BY <1>2 DEF endVars, setupVars, mbufVars, countVars, fileVars
  <2>2. x \in {"accepted", "refused"} /\ lcore' = [lcore EXCEPT ![c] = x]
    BY <1>2
  <2>3. /\ lcore' \in [Lcores -> {"off", "poll", "stamp", "enqueue", "accepted", "refused"}]
        /\ lcore'[c] = x /\ \A d \in Lcores : d # c => lcore'[d] = lcore[d]
    <3> HIDE DEF x
    <3> QED
      BY <1>0, <2>2, LcoreStep
  <2>4. burst[c] # <<>> /\ burst \in [Lcores -> Seq(Packet)]
    BY <1>0, <1>2 DEF LcoreShape, Types
  <2>5. x = "refused" => refused = {}
    <3> SUFFICES ASSUME ~(Len(ring) < buffer_size - 1) PROVE refused = {}
      OBVIOUS
    <3>1. /\ Segments(ring) \in Nat /\ Segments(m) \in Nat /\ InBursts \in Nat
          /\ pool \in Nat /\ unfreed \in Nat /\ Len(ring) <= Segments(ring)
          /\ pool + InBursts + Segments(ring) + Segments(m) + unfreed = buffer_size
      BY <1>0, Amounts
    <3>2. InBursts >= 1
      <4>1. Len(burst[c]) \in Nat /\ Len(burst[c]) >= 1
        BY <2>4
      <4>2. Segments(burst[c]) \in Nat /\ Len(burst[c]) <= Segments(burst[c])
        BY <2>4, MbufsCount
      <4>3. /\ InBursts = Segments(burst[c]) + Cardinality(InAll(burst, Lcores \ {c}))
            /\ Cardinality(InAll(burst, Lcores \ {c})) \in Nat
        BY <2>4, InAllSplit, InBurstsIs
      <4> QED
        BY <4>1, <4>2, <4>3
    <3>3. Len(ring) \in Nat
      BY <1>0 DEF Types
    <3>4. unfreed = 0
      BY <3>1, <3>2, <3>3, Parameters
    <3> QED
      BY <1>0, <3>4 DEF Accounted
  <2> HIDE DEF x
  <2>6. Types'
    BY <1>0, <2>1, <2>3 DEF Types
  <2>7. LcoreShape'
    BY <1>0, <1>2, <2>1, <2>2, <2>3, <2>4 DEF LcoreShape, Inside
  <2>8. Accounted'
    <3>1. \A d \in Lcores : lcore'[d] = "refused" => refused = {}
      BY <1>0, <2>3, <2>5 DEF Accounted
    <3>2. InBursts' = InBursts /\ Segments(ring') = Segments(ring) /\ Segments(m') = Segments(m)
      BY <2>1, InBurstsIs, InBurstsWillBe
    <3> QED
      BY <1>0, <2>1, <3>1, <3>2, SegmentsWillBe DEF Accounted
  <2> QED
    BY <1>0, <2>1, <2>6, <2>7, <2>8, SameConsumer DEF Base
<1> QED
  BY <1>1, <1>2 DEF RingLook

\* A packet goes from the burst to the ring, or is refused and lost.
LEMMA RingTakeBase ==
  ASSUME Base, NEW c \in Lcores, RingTake(c)
  PROVE  Base'
<1>0. Types /\ LcoreShape /\ ConsumerShape /\ Accounted
  BY DEF Base
<1> DEFINE p == Head(burst[c])
           s == Tail(burst[c])
<1>1. /\ Inside(c) /\ burst' = [burst EXCEPT ![c] = s] /\ lcore' = [lcore EXCEPT ![c] = "stamp"]
      /\ UNCHANGED <<process, do_shutdown, handlers, now, enabled, perLcore, received,
                     pool, consumer, m, last_rotation, nb_rotations, nb_dumped_packets,
                     dumper, files>>
      /\ \/ lcore[c] = "accepted" /\ ring' = Append(ring, p) /\ UNCHANGED <<unfreed, refused>>
         \/ /\ lcore[c] = "refused"
            /\ unfreed' = unfreed + p.segments /\ refused' = refused \cup {p.n} /\ UNCHANGED ring
  BY DEF RingTake, Inside, endVars, setupVars, mbufVars, countVars, fileVars
<1>2. burst[c] # <<>> /\ burst[c] \in Seq(Packet) /\ ring \in Seq(Packet)
  BY <1>0, <1>1 DEF Inside, LcoreShape, Types
<1>3. /\ s \in Seq(Packet) /\ p \in Packet
      /\ Segments(burst[c]) = p.segments + Segments(s)
  BY <1>2, MbufsTail
<1> HIDE DEF p, s
<1>4. p.segments \in Nat /\ p.segments >= 1 /\ p.n \in 1..MaxPackets
  BY <1>3, PacketFields
<1>5. /\ burst' \in [Lcores -> Seq(Packet)] /\ burst'[c] = s
      /\ \A d \in Lcores : d # c => burst'[d] = burst[d]
      /\ InBursts' + Segments(burst[c]) = InBursts + Segments(s)
      /\ InBursts' \in Nat /\ InBursts \in Nat /\ Segments(burst[c]) \in Nat /\ Segments(s) \in Nat
  BY <1>0, <1>1, <1>3, BurstStep
<1>6. /\ lcore' \in [Lcores -> {"off", "poll", "stamp", "enqueue", "accepted", "refused"}]
      /\ lcore'[c] = "stamp" /\ \A d \in Lcores : d # c => lcore'[d] = lcore[d]
  BY <1>0, <1>1, LcoreStep
<1>7. InBursts' + p.segments = InBursts
  <2>1. /\ InBursts' \in Nat /\ InBursts \in Nat /\ Segments(burst[c]) \in Nat
        /\ p.segments \in Nat /\ Segments(s) \in Nat
        /\ InBursts' + Segments(burst[c]) = InBursts + Segments(s)
        /\ Segments(burst[c]) = p.segments + Segments(s)
    BY <1>3, <1>4, <1>5
  <2> QED
    BY <2>1, Plus
<1>8. /\ Segments(ring) \in Nat /\ Segments(m) \in Nat /\ pool \in Nat /\ unfreed \in Nat
      /\ pool + InBursts + Segments(ring) + Segments(m) + unfreed = buffer_size
  BY <1>0, Amounts
<1>13. /\ pool + InBursts' + (Segments(ring) + p.segments) + Segments(m) + unfreed = buffer_size
       /\ pool + InBursts' + Segments(ring) + Segments(m) + (unfreed + p.segments) = buffer_size
  <2>1. InBursts' \in Nat /\ InBursts \in Nat /\ p.segments \in Nat
    BY <1>4, <1>5
  <2> QED
    BY <1>7, <1>8, <2>1, Balance
<1>9. LcoreShape'
  BY <1>0, <1>5, <1>6 DEF LcoreShape, Inside
<1>10. \A d \in Lcores : lcore'[d] # "refused"
  BY <1>0, <1>1, <1>6 DEF LcoreShape, Inside
<1>11. CASE lcore[c] = "accepted" /\ ring' = Append(ring, p) /\ UNCHANGED <<unfreed, refused>>
  <2>1. ring' \in Seq(Packet) /\ Segments(ring') = Segments(ring) + p.segments
    BY <1>2, <1>3, <1>11, MbufsAppend
  <2>2. Types'
    BY <1>0, <1>1, <1>5, <1>6, <1>11, <2>1 DEF Types
  <2>3. Accounted'
    <3>1. pool + InBursts' + Segments(ring') + Segments(m) + unfreed = buffer_size
      BY <1>13, <2>1
    <3>2. Segments(m') = Segments(m)
      BY <1>1
    <3> QED
      BY <1>0, <1>1, <1>10, <1>11, <3>1, <3>2, SegmentsWillBe DEF Accounted
  <2> QED
    BY <1>0, <1>1, <1>9, <2>2, <2>3, SameConsumer DEF Base
<1>12. CASE /\ lcore[c] = "refused"
            /\ unfreed' = unfreed + p.segments /\ refused' = refused \cup {p.n} /\ UNCHANGED ring
  <2>1. Types'
    <3>2. unfreed' \in Nat
      BY <1>4, <1>8, <1>12
    <3>3. refused \subseteq 1..MaxPackets
      BY <1>0 DEF Types
    <3>1. unfreed' \in Nat /\ refused' \subseteq 1..MaxPackets
      BY <1>4, <1>12, <3>2, <3>3
    <3> QED
      BY <1>0, <1>1, <1>5, <1>6, <1>12, <3>1 DEF Types
  <2>2. refused' = {p.n}
    BY <1>0, <1>12 DEF Accounted
  <2>3. Accounted'
    <3>1. pool + InBursts' + Segments(ring) + Segments(m) + unfreed' = buffer_size
      BY <1>12, <1>13
    <3>2. Segments(m') = Segments(m) /\ Segments(ring') = Segments(ring)
      BY <1>1, <1>12
    <3>3. Cardinality(refused') = 1
      BY <2>2, FS_Singleton
    <3>4. unfreed' >= 1
      BY <1>4, <1>8, <1>12
    <3>5. Cardinality(refused') <= 1
      BY <3>3
    <3>6. pool' + InBursts' + Segments(ring') + Segments(m') + unfreed' = buffer_size
      BY <1>1, <3>1, <3>2
    <3> QED
      BY <1>10, <3>4, <3>5, <3>6, SegmentsWillBe DEF Accounted
  <2> QED
    BY <1>0, <1>1, <1>9, <2>1, <2>3, SameConsumer DEF Base
<1> QED
  BY <1>1, <1>11, <1>12

\* After OpenFile the dumper is open, and its file exists.
LEMMA OpenFileTypes ==
  ASSUME NEW k, OpenFile(k)
  PROVE  dumper' = "open" /\ k \in DOMAIN files'
BY DEF OpenFile

\* The consumer opens its first file.
LEMMA StartConsumerBase ==
  ASSUME Base, StartConsumer
  PROVE  Base'
<1>0. Types /\ LcoreShape /\ ConsumerShape /\ Accounted
  BY DEF Base
<1>1. CASE Stop("exited")
  BY <1>1, StopBase
<1>2. CASE /\ consumer = "start"
           /\ OpenFile(0) /\ last_rotation' = now /\ consumer' = "dequeue"
           /\ UNCHANGED <<endVars, now, setupVars, lcoreVars, mbufVars, ring, m, nb_rotations,
                          nb_dumped_packets>>
  <2>1. UNCHANGED <<process, do_shutdown, handlers, now, enabled, perLcore, received, lcore,
                    burst, pool, unfreed, refused, ring, m, nb_rotations, nb_dumped_packets>>
    BY <1>2 DEF endVars, setupVars, lcoreVars, mbufVars
  <2>2. dumper' = "open" /\ 0 \in DOMAIN files'
    BY <1>2, OpenFileTypes
  <2>3. Types'
    BY <1>0, <1>2, <2>1, <2>2 DEF Types
  <2>4. ConsumerShape'
    BY <1>0, <1>2, <2>1, <2>2 DEF ConsumerShape, HasPacket
  <2> QED
    BY <1>0, <2>1, <2>3, <2>4, SameAccounts, SameLcores DEF Base
<1> QED
  BY <1>1, <1>2 DEF StartConsumer

\* A packet goes from the ring to the consumer's hands.
LEMMA DequeueBase ==
  ASSUME Base, Dequeue
  PROVE  Base'
<1>0. Types /\ LcoreShape /\ ConsumerShape /\ Accounted
  BY DEF Base
<1> DEFINE p == Head(ring)
           s == Tail(ring)
<1>1. /\ consumer = "dequeue" /\ ring # <<>> /\ m' = <<p>> /\ ring' = s /\ consumer' = "rotate"
      /\ UNCHANGED <<process, do_shutdown, handlers, now, enabled, perLcore, received, lcore,
                     burst, pool, unfreed, refused, last_rotation, nb_rotations,
                     nb_dumped_packets, dumper, files>>
  BY DEF Dequeue, endVars, setupVars, lcoreVars, mbufVars, countVars, fileVars
<1>2. ring \in Seq(Packet) /\ m = <<>>
  BY <1>0, <1>1 DEF Types, ConsumerShape
<1>3. s \in Seq(Packet) /\ p \in Packet /\ Segments(ring) = p.segments + Segments(s)
  BY <1>1, <1>2, MbufsTail
<1> HIDE DEF p, s
<1>4. m' \in Seq(Packet) /\ Len(m') = 1 /\ Segments(m') = p.segments
  BY <1>1, <1>3, SingleMbufs
<1>5. Types'
  BY <1>0, <1>1, <1>3, <1>4 DEF Types
<1>6. ConsumerShape'
  BY <1>0, <1>1, <1>4 DEF ConsumerShape
<1>7. Accounted'
  <2>1. Segments(m) = 0
    BY <1>2, NoMbufs
  <2>2. InBursts' = InBursts
    BY <1>1, InBurstsIs, InBurstsWillBe
  <2>3. p.segments \in Nat /\ Segments(s) \in Nat
    BY <1>3, PacketFields, MbufsCount
  <2>4. /\ Segments(ring) \in Nat /\ InBursts \in Nat /\ pool \in Nat /\ unfreed \in Nat
        /\ pool + InBursts + Segments(ring) + Segments(m) + unfreed = buffer_size
    BY <1>0, Amounts
  <2>5. pool + InBursts + Segments(s) + p.segments + unfreed = buffer_size
    BY <1>3, <2>1, <2>3, <2>4
  <2>6. pool' + InBursts' + Segments(ring') + Segments(m') + unfreed' = buffer_size
    BY <1>1, <1>4, <2>2, <2>5
  <2> QED
    BY <1>0, <1>1, <2>6, SegmentsWillBe DEF Accounted
<1> QED
  BY <1>0, <1>1, <1>5, <1>6, <1>7, SameLcores DEF Base

\* A rotation moves no packet.
LEMMA CheckRotationBase ==
  ASSUME Base, CheckRotation
  PROVE  Base'
<1>0. Types /\ LcoreShape /\ ConsumerShape /\ Accounted
  BY DEF Base
<1>1. /\ consumer = "rotate"
      /\ UNCHANGED <<process, do_shutdown, handlers, now, enabled, perLcore, received, lcore,
                     burst, pool, unfreed, refused, ring, m, nb_dumped_packets, dumper, files>>
  BY DEF CheckRotation, endVars, setupVars, lcoreVars, mbufVars, fileVars
<1>2. m \in Seq(Packet) /\ Len(m) = 1
  BY <1>0, <1>1 DEF Types, ConsumerShape, HasPacket
<1>3. m[1].ts \in 0..MaxTime
  BY <1>2, OnePacket, PacketFields
<1>4. \/ consumer' = "dump" /\ UNCHANGED <<last_rotation, nb_rotations>>
      \/ /\ last_rotation' = m[1].ts /\ nb_rotations' = nb_rotations + 1
         /\ consumer' \in {"limit", "close"}
  BY DEF CheckRotation
<1>5. Types'
  BY <1>0, <1>1, <1>3, <1>4 DEF Types
<1>6. ConsumerShape'
  BY <1>0, <1>1, <1>2, <1>4 DEF ConsumerShape, HasPacket
<1> QED
  BY <1>0, <1>1, <1>5, <1>6, SameAccounts, SameLcores DEF Base

\* Closing a file moves no packet.
LEMMA CloseFileBase ==
  ASSUME Base, CloseFile
  PROVE  Base'
<1>0. Types /\ LcoreShape /\ ConsumerShape /\ Accounted
  BY DEF Base
<1>1. /\ consumer = "close" /\ consumer' = "reopen"
      /\ UNCHANGED <<do_shutdown, handlers, now, enabled, perLcore, received, lcore,
                     burst, pool, unfreed, refused, ring, m, last_rotation, nb_rotations,
                     nb_dumped_packets, files>>
  BY DEF CloseFile, setupVars, lcoreVars, mbufVars, countVars
<1>2. /\ dumper' \in {"none", "closed"} /\ process' \in {process, "crashed"}
  BY <1>0 DEF CloseFile, CloseDumper, Types
<1>3. Types'
  BY <1>0, <1>1, <1>2 DEF Types
<1>4. ConsumerShape'
  BY <1>0, <1>1, <1>2 DEF ConsumerShape, HasPacket
<1> QED
  BY <1>0, <1>1, <1>3, <1>4, SameAccounts, SameLcores DEF Base

\* Opening the next file moves no packet.
LEMMA ReopenFileBase ==
  ASSUME Base, ReopenFile
  PROVE  Base'
<1>0. Types /\ LcoreShape /\ ConsumerShape /\ Accounted
  BY DEF Base
<1>1. CASE Stop("exited")
  BY <1>1, StopBase
<1>2. CASE /\ consumer = "reopen" /\ OpenFile(nb_rotations) /\ consumer' = "dump"
           /\ UNCHANGED <<endVars, now, setupVars, lcoreVars, mbufVars, ring, m, countVars>>
  <2>1. UNCHANGED <<process, do_shutdown, handlers, now, enabled, perLcore, received, lcore,
                    burst, pool, unfreed, refused, ring, m, last_rotation, nb_rotations,
                    nb_dumped_packets>>
    BY <1>2 DEF endVars, setupVars, lcoreVars, mbufVars, countVars
  <2>2. dumper' = "open" /\ nb_rotations \in DOMAIN files'
    BY <1>2, OpenFileTypes
  <2>3. Types'
    BY <1>0, <1>2, <2>1, <2>2 DEF Types
  <2>4. ConsumerShape'
    BY <1>0, <1>2, <2>1, <2>2 DEF ConsumerShape, HasPacket
  <2> QED
    BY <1>0, <2>1, <2>3, <2>4, SameAccounts, SameLcores DEF Base
<1> QED
  BY <1>1, <1>2 DEF ReopenFile

\* Dumping a packet leaves it in the consumer's hands.
LEMMA DumpBase ==
  ASSUME Base, Dump
  PROVE  Base'
<1>0. Types /\ LcoreShape /\ ConsumerShape /\ Accounted
  BY DEF Base
<1>1. CASE Stop("crashed")
  BY <1>1, StopBase
<1>2. CASE /\ consumer = "dump"
           /\ \/ files' = [files EXCEPT ![nb_rotations] = Append(@, m[1].n)]
              \/ files' = files
           /\ nb_dumped_packets' = nb_dumped_packets + 1
           /\ consumer' \in {"limit", "free"}
           /\ UNCHANGED <<endVars, now, setupVars, lcoreVars, mbufVars, ring, m, last_rotation,
                          nb_rotations, dumper>>
  <2>1. UNCHANGED <<process, do_shutdown, handlers, now, enabled, perLcore, received, lcore,
                    burst, pool, unfreed, refused, ring, m, last_rotation, nb_rotations, dumper>>
    BY <1>2 DEF endVars, setupVars, lcoreVars, mbufVars
  <2>2. DOMAIN files' = DOMAIN files
    BY <1>2
  <2>3. Types'
    BY <1>0, <1>2, <2>1 DEF Types
  <2>4. ConsumerShape'
    BY <1>0, <1>2, <2>1, <2>2 DEF ConsumerShape, HasPacket
  <2> QED
    BY <1>0, <2>1, <2>3, <2>4, SameAccounts, SameLcores DEF Base
<1> QED
  BY <1>1, <1>2 DEF Dump

\* The whole chain goes back to the pool.
LEMMA FreeBase ==
  ASSUME Base, Free
  PROVE  Base'
<1>0. Types /\ LcoreShape /\ ConsumerShape /\ Accounted
  BY DEF Base
<1>1. /\ consumer = "free" /\ consumer' = "dequeue" /\ pool' = pool + m[1].segments /\ m' = <<>>
      /\ UNCHANGED <<process, do_shutdown, handlers, now, enabled, perLcore, received, lcore,
                     burst, unfreed, refused, ring, last_rotation, nb_rotations,
                     nb_dumped_packets, dumper, files>>
  BY DEF Free, endVars, setupVars, lcoreVars, countVars, fileVars
<1>2. m \in Seq(Packet) /\ Len(m) = 1
  BY <1>0, <1>1 DEF Types, ConsumerShape, HasPacket
<1>3. m[1].segments \in Nat /\ Segments(m) = m[1].segments
  BY <1>2, OnePacket, PacketFields
<1>4. Types'
  <2>1. m' \in Seq(Packet) /\ pool' \in Nat
    BY <1>0, <1>1, <1>3 DEF Types
  <2> QED
    BY <1>0, <1>1, <2>1 DEF Types
<1>5. ConsumerShape'
  BY <1>0, <1>1 DEF ConsumerShape, HasPacket
<1>6. Accounted'
  <2>1. Segments(m') = 0
    BY <1>1, NoMbufs
  <2>2. InBursts' = InBursts
    BY <1>1, InBurstsIs, InBurstsWillBe
  <2>3. /\ Segments(ring) \in Nat /\ InBursts \in Nat /\ pool \in Nat /\ unfreed \in Nat
        /\ pool + InBursts + Segments(ring) + Segments(m) + unfreed = buffer_size
    BY <1>0, Amounts
  <2>4. pool' + InBursts + Segments(ring) + 0 + unfreed = buffer_size
    <3> DEFINE k == m[1].segments
               a == InBursts
               r == Segments(ring)
    <3>1. /\ k \in Nat /\ r \in Nat /\ a \in Nat /\ pool \in Nat /\ unfreed \in Nat
          /\ pool + a + r + k + unfreed = buffer_size /\ pool' = pool + k
      BY <1>1, <1>3, <2>3
    <3> HIDE DEF k, a, r
    <3>2. pool' + a + r + 0 + unfreed = buffer_size
      BY <3>1
    <3> QED
      BY <3>2 DEF a, r
  <2>5. pool' + InBursts' + Segments(ring') + Segments(m') + unfreed' = buffer_size
    BY <1>1, <2>1, <2>2, <2>4
  <2> QED
    BY <1>0, <1>1, <2>5, SegmentsWillBe DEF Accounted
<1> QED
  BY <1>0, <1>1, <1>4, <1>5, <1>6, SameLcores DEF Base

\* The signal handler touches no packet.
LEMMA HandlerBase ==
  ASSUME Base, NEW h \in Runs, sig_handler(h)
  PROVE  Base'
<1>0. Types /\ LcoreShape /\ ConsumerShape /\ Accounted
  BY DEF Base
<1>1. CASE EnterHandler(h)
  <2>1. /\ do_shutdown' = TRUE /\ handlers' = [handlers EXCEPT ![h] = "close"]
        /\ UNCHANGED <<process, now, enabled, perLcore, received, lcore, burst, pool, unfreed,
                       refused, ring, consumer, m, last_rotation, nb_rotations,
                       nb_dumped_packets, dumper, files>>
    BY <1>1 DEF EnterHandler, setupVars, lcoreVars, mbufVars, countVars, fileVars
  <2>2. Types'
    BY <1>0, <2>1 DEF Types
  <2> QED
    BY <1>0, <2>1, <2>2, SameAccounts, SameLcores, SameConsumer DEF Base
<1>2. CASE HandlerCloses(h)
  <2>1. /\ handlers' = [handlers EXCEPT ![h] = "exit"]
        /\ UNCHANGED <<do_shutdown, now, enabled, perLcore, received, lcore, burst, pool, unfreed,
                       refused, ring, consumer, m, last_rotation, nb_rotations,
                       nb_dumped_packets, files>>
    BY <1>2 DEF HandlerCloses, setupVars, lcoreVars, mbufVars, countVars
  <2>2. /\ dumper' \in {"none", "closed"} /\ process' \in {process, "crashed"}
    BY <1>0, <1>2 DEF HandlerCloses, CloseDumper, Types
  <2>3. Types'
    BY <1>0, <2>1, <2>2 DEF Types
  <2>4. ConsumerShape'
    BY <1>0, <2>1, <2>2 DEF ConsumerShape
  <2> QED
    BY <1>0, <2>1, <2>3, <2>4, SameAccounts, SameLcores DEF Base
<1>3. CASE HandlerExits(h)
  BY <1>3, StopBase DEF HandlerExits
<1> QED
  BY <1>1, <1>2, <1>3 DEF sig_handler

\* The clock touches no packet.
LEMMA SecondBase ==
  ASSUME Base, Second
  PROVE  Base'
<1>1. /\ now < MaxTime /\ now' = now + 1
      /\ UNCHANGED <<process, do_shutdown, handlers, enabled, perLcore, received, lcore, burst,
                     pool, unfreed, refused, ring, consumer, m, last_rotation, nb_rotations,
                     nb_dumped_packets, dumper, files>>
  BY DEF Second, endVars, setupVars, lcoreVars, mbufVars, countVars, fileVars
<1>2. Types'
  <2>1. now' \in 0..MaxTime
    BY <1>1, Parameters DEF Base, Types
  <2> QED
    BY <1>1, <2>1 DEF Base, Types
<1> QED
  BY <1>1, <1>2, SameAccounts, SameLcores, SameConsumer DEF Base

\* At first all mbufs are in the pool.
LEMMA BaseInit == Init => Base
<1> SUFFICES ASSUME Init PROVE Base
  OBVIOUS
<1>1. Types
  <2>1. /\ process \in {"setup", "running", "exited", "crashed", "undefined"}
        /\ do_shutdown \in BOOLEAN /\ now \in 0..MaxTime /\ received \in 0..MaxPackets
        /\ last_rotation \in 0..MaxTime
    <3>1. 0 \in 0..MaxTime /\ 0 \in 0..MaxPackets
      BY Parameters
    <3> QED
      BY <3>1 DEF Init
  <2>2. /\ handlers \in [Runs -> {"idle", "close", "exit"}]
        /\ enabled \in Masks /\ perLcore \in QueuesPerLcore
        /\ lcore \in [Lcores -> {"off", "poll", "stamp", "enqueue", "accepted", "refused"}]
    BY DEF Init
  <2>3. burst \in [Lcores -> Seq(Packet)] /\ ring \in Seq(Packet) /\ m \in Seq(Packet)
    BY DEF Init
  <2>4. /\ pool \in Nat /\ unfreed \in Nat /\ refused \subseteq 1..MaxPackets
        /\ {nb_rotations, nb_dumped_packets} \subseteq Nat
    BY Parameters DEF Init
  <2>5. /\ consumer \in {"start", "dequeue", "rotate", "close", "reopen", "dump", "free", "limit"}
        /\ dumper \in {"none", "open", "closed"}
    BY DEF Init
  <2> QED
    BY <2>1, <2>2, <2>3, <2>4, <2>5 DEF Types
<1>2. LcoreShape
  BY DEF Init, LcoreShape, Inside
<1>3. ConsumerShape
  BY DEF Init, ConsumerShape, HasPacket
<1>4. Accounted
  <2>1. InBursts = 0
    BY NoBursts, InBurstsIs DEF Init
  <2>2. Segments(ring) = 0 /\ Segments(m) = 0
    BY NoMbufs DEF Init
  <2>3. Cardinality(refused) = 0
    BY FS_EmptySet DEF Init
  <2>4. pool = buffer_size /\ unfreed = 0 /\ refused = {}
    BY DEF Init
  <2> QED
    BY <2>1, <2>2, <2>3, <2>4, Parameters DEF Accounted
<1> QED
  BY <1>1, <1>2, <1>3, <1>4 DEF Base

\* Every step keeps Base.
LEMMA BaseNext == Base /\ [Next]_vars => Base'
<1> SUFFICES ASSUME Base, [Next]_vars PROVE Base'
  OBVIOUS
<1>1. CASE UNCHANGED vars
  <2>1. UNCHANGED <<process, do_shutdown, handlers, now, enabled, perLcore, received, lcore,
                    burst, pool, unfreed, refused, ring, consumer, m, last_rotation,
                    nb_rotations, nb_dumped_packets, dumper, files>>
    BY <1>1 DEF vars, endVars, setupVars, lcoreVars, mbufVars, countVars, fileVars
  <2>2. Types'
    BY <2>1 DEF Base, Types
  <2> QED
    BY <2>1, <2>2, SameAccounts, SameLcores, SameConsumer DEF Base
<1>2. CASE Setup
  BY <1>2, SetupBase
<1>3. CASE (\E h \in Runs : sig_handler(h)) \/ Second
  BY <1>3, HandlerBase, SecondBase
<1>4. ASSUME NEW c \in Lcores, packet_producer(c) PROVE Base'
  BY <1>4, RxPacketBase, RxEndBase, StampBase, RingLookBase, RingTakeBase DEF packet_producer
<1>5. CASE packet_consumer
  BY <1>5, StartConsumerBase, DequeueBase, CheckRotationBase, CloseFileBase, ReopenFileBase,
     DumpBase, FreeBase DEF packet_consumer
<1> QED
  BY <1>1, <1>2, <1>3, <1>4, <1>5 DEF Next

-----------------------------------------------------------------------------
(* Who polls *)
\* The ports an lcore polls are settled before it starts.
LEMMA SamePolling ==
  ASSUME UNCHANGED <<enabled, perLcore>>
  PROVE  Polling' = Polling
BY DEF Polling, PortsOf

\* A step that leaves the lcores alone keeps Ranks.
LEMMA SameRanks ==
  ASSUME Ranks, UNCHANGED <<enabled, perLcore, lcore, burst>>, process' # "setup" \/ process' = process
  PROVE  Ranks'
BY SamePolling DEF Ranks

\* So does the end of the process.
LEMMA StopRanks ==
  ASSUME Ranks, NEW how \in {"exited", "crashed", "undefined"}, Stop(how)
  PROVE  Ranks'
BY SameRanks DEF Stop, setupVars, lcoreVars

\* One lcore's step.
LEMMA LcoreRanks ==
  ASSUME Base, Ranks, NEW c \in Lcores, lcore[c] # "off",
         UNCHANGED <<process, enabled, perLcore>>,
         \A d \in Lcores : d # c => lcore'[d] = lcore[d] /\ burst'[d] = burst[d],
         lcore'[c] # "off"
  PROVE  Ranks'
BY SamePolling DEF Ranks

\* No step of packet_producer wakes another lcore or fills its burst.
LEMMA ProducerRanks ==
  ASSUME Base, Ranks, NEW c \in Lcores, packet_producer(c)
  PROVE  Ranks'
<1>1. /\ lcore \in [Lcores -> {"off", "poll", "stamp", "enqueue", "accepted", "refused"}]
      /\ burst \in [Lcores -> Seq(Packet)]
  BY DEF Base, Types
<1>2. CASE RingLook(c) /\ Stop("undefined")
  BY <1>2, StopRanks
<1>3. CASE ~(RingLook(c) /\ Stop("undefined"))
  <2>1. lcore[c] # "off" /\ UNCHANGED <<process, enabled, perLcore>>
    BY <1>3 DEF packet_producer, RxPacket, RxEnd, Stamp, RingLook, RingTake, Inside, endVars, setupVars
  <2>2. \/ UNCHANGED burst
        \/ \E s : burst' = [burst EXCEPT ![c] = s]
    <3>1. CASE RxPacket(c)
      BY <3>1 DEF RxPacket
    <3>2. CASE RxEnd(c) \/ RingLook(c)
      BY <3>2 DEF RxEnd, RingLook, Stop, lcoreVars
    <3>3. CASE Stamp(c)
      <4> DEFINE r == [burst[c] EXCEPT ![1].ts = now]
      <4>1. UNCHANGED burst \/ burst' = [burst EXCEPT ![c] = r]
        BY <3>3 DEF Stamp
      <4> HIDE DEF r
      <4> QED
        BY <4>1
    <3>4. CASE RingTake(c)
      BY <3>4 DEF RingTake
    <3> QED
      BY <3>1, <3>2, <3>3, <3>4 DEF packet_producer
  <2>3. \/ UNCHANGED lcore
        \/ \E x \in {"poll", "stamp", "enqueue", "accepted", "refused"} : lcore' = [lcore EXCEPT ![c] = x]
    <3>1. CASE RxPacket(c)
      BY <3>1 DEF RxPacket
    <3>2. CASE RxEnd(c)
      BY <3>2 DEF RxEnd
    <3>3. CASE Stamp(c)
      BY <3>3 DEF Stamp
    <3>4. CASE RingTake(c)
      BY <3>4 DEF RingTake
    <3>5. CASE RingLook(c)
      <4> DEFINE x == IF Len(ring) < buffer_size - 1 THEN "accepted" ELSE "refused"
      <4>1. lcore' = [lcore EXCEPT ![c] = x] /\ x \in {"accepted", "refused"}
        BY <1>3, <3>5 DEF RingLook
      <4> HIDE DEF x
      <4> QED
        BY <4>1
    <3> QED
      BY <3>1, <3>2, <3>3, <3>4, <3>5 DEF packet_producer
  <2>4. \A d \in Lcores : d # c => lcore'[d] = lcore[d] /\ burst'[d] = burst[d]
    BY <1>1, <2>2, <2>3
  <2>5. lcore'[c] # "off"
    BY <1>1, <2>1, <2>3
  <2> QED
    BY <2>1, <2>4, <2>5, LcoreRanks
<1> QED
  BY <1>2, <1>3

\* main launches the lcores that have ports.
LEMMA SetupRanks ==
  ASSUME Base, Ranks, Setup
  PROVE  Ranks'
<1>1. CASE Stop("exited")
  BY <1>1, StopRanks
<1>2. CASE /\ process = "setup" /\ process' = "running"
           /\ lcore' = [c \in Lcores |-> IF c \in Polling THEN "poll" ELSE "off"]
           /\ UNCHANGED <<setupVars, burst>>
  <2>1. Polling' = Polling /\ burst' = burst
    BY <1>2, SamePolling DEF setupVars
  <2>2. \A c \in Lcores : burst[c] = <<>>
    BY <1>2 DEF Ranks
  <2> QED
    BY <1>2, <2>1, <2>2 DEF Ranks
<1> QED
  BY <1>1, <1>2 DEF Setup

\* The master, the handler and the clock leave the lcores alone.
LEMMA OtherRanks ==
  ASSUME Base, Ranks, packet_consumer \/ Second \/ \E h \in Runs : sig_handler(h)
  PROVE  Ranks'
<1>1. UNCHANGED <<enabled, perLcore, lcore, burst>> /\ (process' # "setup" \/ process' = process)
  BY DEF packet_consumer, StartConsumer, Dequeue, CheckRotation, CloseFile, ReopenFile, Dump, Free,
         CloseDumper, Second, sig_handler, EnterHandler, HandlerCloses, HandlerExits, Stop,
         endVars, setupVars, lcoreVars
<1> QED
  BY <1>1, SameRanks

\* Every step keeps Ranks.
LEMMA RanksNext == Base /\ Ranks /\ [Next]_vars => Ranks'
<1> SUFFICES ASSUME Base, Ranks, [Next]_vars PROVE Ranks'
  OBVIOUS
<1>1. CASE UNCHANGED vars
  BY <1>1, SameRanks DEF vars, setupVars, lcoreVars, endVars
<1> QED
  BY <1>1, SetupRanks, ProducerRanks, OtherRanks DEF Next

\* At most one lcore polls: the others have no packet.
LEMMA OnlyOne ==
  ASSUME Ranks, Cardinality(Polling) <= 1, NEW c \in Lcores, NEW d \in Lcores, c # d, lcore[c] # "off"
  PROVE  lcore[d] = "off" /\ burst[d] = <<>>
<1>1. SUFFICES ASSUME lcore[d] # "off" PROVE FALSE
  BY DEF Ranks
<1>2. {c, d} \subseteq Polling
  BY <1>1 DEF Ranks
<1>3. IsFiniteSet(Polling)
  <2>1. Polling \subseteq Lcores
    BY DEF Polling
  <2> QED
    BY <2>1, Parameters, FS_Subset
<1>4. Cardinality({c, d}) <= Cardinality(Polling)
  BY <1>2, <1>3, FS_Subset
<1>5. Cardinality({c, d}) = 2
  <2>1. IsFiniteSet({c}) /\ Cardinality({c}) = 1
    BY FS_Singleton
  <2>2. Cardinality({c} \cup {d}) = Cardinality({c}) + 1
    BY <2>1, FS_AddElement
  <2>3. {c} \cup {d} = {c, d}
    OBVIOUS
  <2>4. Cardinality({c, d}) = 1 + 1
    BY <2>1, <2>2, <2>3
  <2> QED
    BY <2>4
<1>6. Cardinality(Polling) \in Nat
  BY <1>3, FS_CardinalityType
<1> QED
  BY <1>4, <1>5, <1>6

-----------------------------------------------------------------------------
(* The order of the packets *)
\* The numbers that are compared are numbers.
LEMMA Numbers ==
  ASSUME Types, FilesNumbered
  PROVE  /\ received \in Nat /\ nb_rotations \in Nat /\ nb_dumped_packets \in Nat
         /\ \A i \in DOMAIN ring : ring[i].n \in Nat
         /\ \A c \in Lcores : \A i \in DOMAIN burst[c] : burst[c][i].n \in Nat
         /\ m # <<>> => m[1].n \in Nat /\ m[1].n \in 1..MaxPackets
         /\ \A k \in DOMAIN files : \A i \in DOMAIN files[k] : files[k][i] \in Nat
         /\ \A k \in DOMAIN files : k \in Nat /\ k <= nb_rotations
<1>1. /\ burst \in [Lcores -> Seq(Packet)] /\ ring \in Seq(Packet) /\ m \in Seq(Packet)
      /\ received \in 0..MaxPackets /\ nb_rotations \in Nat /\ nb_dumped_packets \in Nat
  BY DEF Types
<1>2. \A s \in Seq(Packet) : \A i \in DOMAIN s : s[i] \in Packet
  OBVIOUS
<1>3. \A i \in DOMAIN ring : ring[i].n \in Nat
  BY <1>1, <1>2, PacketFields
<1>4. \A c \in Lcores : \A i \in DOMAIN burst[c] : burst[c][i].n \in Nat
  BY <1>1, <1>2, PacketFields
<1>5. m # <<>> => m[1].n \in Nat /\ m[1].n \in 1..MaxPackets
  <2>1. m # <<>> => m[1] \in Packet
    BY <1>1
  <2> QED
    BY <2>1, PacketFields
<1>6. \A k \in DOMAIN files : \A i \in DOMAIN files[k] : files[k][i] \in Nat
  BY Parameters DEF FilesNumbered
<1>7. \A k \in DOMAIN files : k \in Nat /\ k <= nb_rotations
  BY <1>1 DEF FilesNumbered
<1> QED
  BY <1>1, <1>3, <1>4, <1>5, <1>6, <1>7, Parameters

\* The numbers in the bursts stay what they are.
LEMMA SameLine ==
  ASSUME Line, UNCHANGED <<received, ring, consumer, m, files>>,
         \A c \in Lcores : /\ DOMAIN burst'[c] = DOMAIN burst[c]
                           /\ \A i \in DOMAIN burst[c] : burst'[c][i].n = burst[c][i].n
  PROVE  Line'
<1>1. FilesInOrder' /\ HandInOrder' /\ RingInOrder'
  BY DEF Line, FilesInOrder, HandInOrder, RingInOrder, DumpedBelow, InHandBelow
<1>2. ASSUME NEW c \in Lcores PROVE BurstInOrder(c)'
  BY DEF Line, BurstInOrder, DumpedBelow, InHandBelow, OnRingBelow
<1>3. Newest'
  BY DEF Line, Newest, DumpedBelow, InHandBelow, OnRingBelow, InBurstBelow
<1> QED
  BY <1>1, <1>2, <1>3 DEF Line

\* A step that leaves the files and the consumer alone.
LEMMA SameFiles ==
  ASSUME FilesNumbered, UNCHANGED <<consumer, dumper, files, nb_rotations, nb_dumped_packets>>
  PROVE  FilesNumbered'
BY DEF FilesNumbered, Places

\* The packet received is newer than all others.
LEMMA RxPacketOrder ==
  ASSUME Base, FilesNumbered, Line, NEW c \in Lcores, RxPacket(c)
  PROVE  FilesNumbered' /\ Line'
<1>1. /\ received' = received + 1 /\ lcore[c] = "poll"
      /\ UNCHANGED <<ring, consumer, m, nb_rotations, nb_dumped_packets, dumper, files>>
  BY DEF RxPacket, countVars, fileVars
<1>2. FilesNumbered'
  BY <1>1, SameFiles
<1>3. Types /\ burst \in [Lcores -> Seq(Packet)] /\ burst[c] \in Seq(Packet)
  BY DEF Base, Types
<1>4. FilesInOrder' /\ HandInOrder' /\ RingInOrder'
  BY <1>1 DEF Line, FilesInOrder, HandInOrder, RingInOrder, DumpedBelow, InHandBelow
<1>5. /\ received \in Nat
      /\ \A i \in DOMAIN ring : ring[i].n \in Nat
      /\ \A d \in Lcores : \A i \in DOMAIN burst[d] : burst[d][i].n \in Nat
      /\ m # <<>> => m[1].n \in Nat
      /\ \A k \in DOMAIN files : \A i \in DOMAIN files[k] : files[k][i] \in Nat
  BY <1>3, Numbers
<1>6. /\ DumpedBelow(received + 1) /\ InHandBelow(received + 1) /\ OnRingBelow(received + 1)
      /\ \A d \in Lcores : BurstInOrder(d) /\ InBurstBelow(d, received + 1)
  BY DEF Line, Newest
<1>7. DumpedBelow(received + 1)' /\ InHandBelow(received + 1)' /\ OnRingBelow(received + 1)'
  BY <1>1, <1>5, <1>6 DEF DumpedBelow, InHandBelow, OnRingBelow
<1>8. (\A d \in Lcores : BurstInOrder(d))' /\ (\A d \in Lcores : InBurstBelow(d, received + 1))'
  <2>1. CASE UNCHANGED burst
    BY <1>1, <1>5, <1>6, <2>1 DEF BurstInOrder, InBurstBelow, DumpedBelow, InHandBelow, OnRingBelow
  <2>2. CASE \E segments \in 1..MaxSegments : burst' = [burst EXCEPT ![c] =
                 Append(@, [n |-> received + 1, segments |-> segments, ts |-> 0])]
    <3> PICK segments \in 1..MaxSegments : burst' = [burst EXCEPT ![c] =
                 Append(@, [n |-> received + 1, segments |-> segments, ts |-> 0])]
      BY <2>2
    <3>1. PICK p, s, k : p.n = received + 1 /\ s = Append(burst[c], p) /\ k = Len(burst[c])
                         /\ burst' = [burst EXCEPT ![c] = s]
      <4> DEFINE p == [n |-> received + 1, segments |-> segments, ts |-> 0]
      <4>1. burst' = [burst EXCEPT ![c] = Append(@, p)] /\ p.n = received + 1
        OBVIOUS
      <4> HIDE DEF p
      <4> QED
        BY <4>1
    <3>2. /\ k \in Nat /\ DOMAIN burst[c] = 1..k /\ DOMAIN s = 1..(k + 1) /\ s[k + 1] = p
          /\ \A i \in 1..k : s[i] = burst[c][i]
      BY <1>3, <3>1
    <3>3. burst'[c] = s /\ \A d \in Lcores : d # c => burst'[d] = burst[d]
      BY <1>3, <3>1
    <3>4. \A d \in Lcores : d # c => BurstInOrder(d)' /\ InBurstBelow(d, received + 1)'
      BY <1>1, <1>5, <1>6, <3>3 DEF BurstInOrder, InBurstBelow, DumpedBelow, InHandBelow, OnRingBelow
    <3>5. \A i \in 1..(k + 1) : i \in 1..k \/ i = k + 1
      BY <3>2
    <3>6. BurstInOrder(c)'
      <4>1. ASSUME NEW i \in 1..(k + 1)
            PROVE  DumpedBelow(s[i].n)' /\ InHandBelow(s[i].n)' /\ OnRingBelow(s[i].n)'
        <5>1. CASE i \in 1..k
          BY <1>1, <1>6, <3>2, <3>3, <5>1 DEF BurstInOrder, DumpedBelow, InHandBelow, OnRingBelow
        <5>2. CASE i = k + 1
          BY <1>1, <1>6, <3>1, <3>2, <3>3, <5>2 DEF DumpedBelow, InHandBelow, OnRingBelow
        <5> QED
          BY <3>5, <5>1, <5>2
      <4>2. ASSUME NEW i \in 1..(k + 1), NEW j \in 1..(k + 1), i < j PROVE s[i].n < s[j].n
        <5>1. i \in 1..k
          BY <3>2, <4>2
        <5>2. CASE j \in 1..k
          BY <1>6, <3>2, <4>2, <5>1, <5>2 DEF BurstInOrder
        <5>3. CASE j = k + 1
          BY <1>6, <3>1, <3>2, <5>1, <5>3 DEF InBurstBelow
        <5> QED
          BY <3>5, <5>2, <5>3
      <4> QED
        BY <3>2, <3>3, <4>1, <4>2 DEF BurstInOrder, DumpedBelow, InHandBelow, OnRingBelow
    <3>7. InBurstBelow(c, received + 1)'
      <4>1. ASSUME NEW i \in 1..(k + 1) PROVE s[i].n < received + 1 + 1
        <5>1. CASE i \in 1..k
          <6>1. s[i].n \in Nat /\ s[i].n < received + 1
            BY <1>5, <1>6, <3>2, <5>1 DEF InBurstBelow
          <6> QED
            BY <1>5, <6>1
        <5>2. CASE i = k + 1
          BY <1>5, <3>1, <3>2, <5>2
        <5> QED
          BY <3>5, <5>1, <5>2
      <4> QED
        BY <1>1, <3>2, <3>3, <4>1 DEF InBurstBelow
    <3> QED
      BY <3>4, <3>6, <3>7
  <2> QED
    BY <2>1, <2>2 DEF RxPacket
<1> QED
  BY <1>2, <1>4, <1>7, <1>8 DEF Line, Newest

\* The steps of an lcore that leave the numbers in its burst alone.
LEMMA LcoreOrder ==
  ASSUME Base, FilesNumbered, Line, NEW c \in Lcores, RxEnd(c) \/ Stamp(c) \/ RingLook(c)
  PROVE  FilesNumbered' /\ Line'
<1>1. UNCHANGED <<received, ring, consumer, m, nb_rotations, nb_dumped_packets, dumper, files>>
  BY DEF RxEnd, Stamp, RingLook, Stop, lcoreVars, countVars, fileVars
<1>2. burst \in [Lcores -> Seq(Packet)] /\ now \in 0..MaxTime
  BY DEF Base, Types
<1>3. \A d \in Lcores : /\ DOMAIN burst'[d] = DOMAIN burst[d]
                        /\ \A i \in DOMAIN burst[d] : burst'[d][i].n = burst[d][i].n
  <2>1. CASE UNCHANGED burst
    BY <2>1
  <2>2. CASE Stamp(c) /\ burst[c] # <<>>
    <3> DEFINE r == [burst[c] EXCEPT ![1].ts = now]
    <3>1. burst' = [burst EXCEPT ![c] = r]
      BY <2>2 DEF Stamp
    <3>2. DOMAIN r = DOMAIN burst[c] /\ \A i \in DOMAIN burst[c] : r[i].n = burst[c][i].n
      BY <1>2, <2>2, StampedMbufs
    <3> HIDE DEF r
    <3> QED
      BY <1>2, <3>1, <3>2
  <2>3. CASE RxEnd(c) \/ RingLook(c) \/ (Stamp(c) /\ burst[c] = <<>>)
    BY <2>1, <2>3 DEF RxEnd, Stamp, RingLook, Stop, lcoreVars
  <2> QED
    BY <2>2, <2>3
<1> QED
  BY <1>1, <1>3, SameFiles, SameLine

\* The oldest packet of the only burst goes behind the ring, or is lost.
LEMMA RingTakeOrder ==
  ASSUME Base, Ranks, FilesNumbered, Line, Cardinality(Polling) <= 1,
         NEW c \in Lcores, RingTake(c)
  PROVE  FilesNumbered' /\ Line'
<1>1. /\ Inside(c) /\ burst' = [burst EXCEPT ![c] = Tail(@)]
      /\ UNCHANGED <<received, consumer, m, nb_rotations, nb_dumped_packets, dumper, files>>
      /\ ring' = Append(ring, Head(burst[c])) \/ ring' = ring
  BY DEF RingTake, countVars, fileVars
<1>2. FilesNumbered'
  BY <1>1, SameFiles
<1>3. /\ Types /\ ring \in Seq(Packet) /\ burst \in [Lcores -> Seq(Packet)]
      /\ burst[c] \in Seq(Packet) /\ burst[c] # <<>> /\ lcore[c] # "off"
  BY <1>1 DEF Base, Types, LcoreShape, Inside
<1>4. PICK s, t, p, k : s = burst[c] /\ t = Tail(s) /\ p = s[1] /\ k = Len(s)
  OBVIOUS
<1>5. /\ k \in Nat /\ k >= 1 /\ DOMAIN s = 1..k /\ DOMAIN t = 1..(k - 1) /\ p = Head(s)
      /\ \A i \in 1..(k - 1) : t[i] = s[i + 1] /\ i + 1 \in 1..k /\ 1 < i + 1
  BY <1>3, <1>4
<1>6. burst'[c] = t /\ \A d \in Lcores : d # c => burst'[d] = burst[d]
  BY <1>1, <1>3, <1>4
<1>7. \A d \in Lcores : d # c => burst'[d] = <<>>
  BY <1>3, <1>6, OnlyOne
<1>8. /\ received \in Nat
      /\ \A i \in DOMAIN ring : ring[i].n \in Nat
      /\ \A d \in Lcores : \A i \in DOMAIN burst[d] : burst[d][i].n \in Nat
  BY <1>3, Numbers
<1>9. BurstInOrder(c) /\ InBurstBelow(c, received + 1) /\ RingInOrder /\ OnRingBelow(received + 1)
  BY DEF Line, Newest
<1>10. FilesInOrder' /\ HandInOrder' /\ DumpedBelow(received + 1)' /\ InHandBelow(received + 1)'
  BY <1>1 DEF Line, Newest, FilesInOrder, HandInOrder, DumpedBelow, InHandBelow
<1>11. (\A d \in Lcores : InBurstBelow(d, received + 1))'
  <2>1. \A i \in 1..(k - 1) : t[i].n < received + 1
    BY <1>4, <1>5, <1>9 DEF InBurstBelow
  <2> QED
    BY <1>1, <1>5, <1>6, <1>7, <2>1 DEF InBurstBelow
<1>12. ASSUME NEW d \in Lcores, d # c PROVE BurstInOrder(d)'
  BY <1>7, <1>12 DEF BurstInOrder
<1>13. /\ \A i \in 1..k : DumpedBelow(s[i].n) /\ InHandBelow(s[i].n) /\ OnRingBelow(s[i].n)
       /\ \A i, j \in 1..k : i < j => s[i].n < s[j].n
       /\ \A i \in 1..k : s[i].n < received + 1
  BY <1>4, <1>5, <1>9 DEF BurstInOrder, InBurstBelow
<1>14. \A i \in 1..k : DumpedBelow(s[i].n)' /\ InHandBelow(s[i].n)'
  BY <1>1, <1>13 DEF DumpedBelow, InHandBelow
<1>15. \A i \in 1..(k - 1) : p.n < t[i].n
  BY <1>4, <1>5, <1>13
<1>16. ASSUME NEW i \in 1..(k - 1), NEW j \in 1..(k - 1), i < j PROVE t[i].n < t[j].n
  <2>1. i + 1 < j + 1
    BY <1>5, <1>16
  <2> QED
    BY <1>5, <1>13, <2>1
<1>17. CASE ring' = ring
  <2>1. RingInOrder'
    BY <1>1, <1>9, <1>17 DEF RingInOrder, DumpedBelow, InHandBelow
  <2>2. OnRingBelow(received + 1)'
    BY <1>1, <1>9, <1>17 DEF OnRingBelow
  <2>3. \A i \in 1..k : OnRingBelow(s[i].n)'
    BY <1>13, <1>17 DEF OnRingBelow
  <2>4. BurstInOrder(c)'
    <3>1. \A i \in 1..(k - 1) : DumpedBelow(t[i].n)' /\ InHandBelow(t[i].n)' /\ OnRingBelow(t[i].n)'
      BY <1>5, <1>14, <2>3
    <3> QED
      BY <1>5, <1>6, <1>16, <3>1 DEF BurstInOrder, DumpedBelow, InHandBelow, OnRingBelow
  <2> QED
    BY <1>2, <1>10, <1>11, <1>12, <2>1, <2>2, <2>4 DEF Line, Newest
<1>18. CASE ring' = Append(ring, p)
  <2>1. PICK r, l : r = ring' /\ l = Len(ring)
    OBVIOUS
  <2>2. /\ l \in Nat /\ DOMAIN ring = 1..l /\ DOMAIN r = 1..(l + 1) /\ r[l + 1] = p
        /\ \A i \in 1..l : r[i] = ring[i]
        /\ \A i \in 1..(l + 1) : i \in 1..l \/ i = l + 1
    BY <1>3, <1>18, <2>1
  <2>3. 1 \in 1..k
    BY <1>5
  <2>4. \A i \in 1..l : r[i].n < p.n
    BY <1>4, <1>13, <2>2, <2>3 DEF OnRingBelow
  <2>5. RingInOrder'
    <3>1. ASSUME NEW i \in 1..(l + 1) PROVE DumpedBelow(r[i].n)' /\ InHandBelow(r[i].n)'
      <4>1. CASE i \in 1..l
        BY <1>1, <1>9, <2>2, <4>1 DEF RingInOrder, DumpedBelow, InHandBelow
      <4>2. CASE i = l + 1
        BY <1>4, <1>14, <2>2, <2>3, <4>2
      <4> QED
        BY <2>2, <4>1, <4>2
    <3>2. ASSUME NEW i \in 1..(l + 1), NEW j \in 1..(l + 1), i < j PROVE r[i].n < r[j].n
      <4>1. i \in 1..l
        BY <2>2, <3>2
      <4>2. CASE j \in 1..l
        BY <1>9, <2>2, <3>2, <4>1, <4>2 DEF RingInOrder
      <4>3. CASE j = l + 1
        BY <2>2, <2>4, <4>1, <4>3
      <4> QED
        BY <2>2, <4>2, <4>3
    <3> QED
      BY <2>1, <2>2, <3>1, <3>2 DEF RingInOrder, DumpedBelow, InHandBelow
  <2>6. OnRingBelow(received + 1)'
    <3>1. \A i \in 1..(l + 1) : r[i].n < received + 1
      BY <1>4, <1>9, <1>13, <2>2, <2>3 DEF OnRingBelow
    <3> QED
      BY <1>1, <2>1, <2>2, <3>1 DEF OnRingBelow
  <2>7. BurstInOrder(c)'
    <3>1. ASSUME NEW i \in 1..(k - 1) PROVE DumpedBelow(t[i].n)' /\ InHandBelow(t[i].n)'
      BY <1>5, <1>14
    <3>2. ASSUME NEW i \in 1..(k - 1), NEW j \in 1..(l + 1) PROVE r[j].n < t[i].n
      <4>1. CASE j \in 1..l
        BY <1>5, <1>13, <2>2, <4>1 DEF OnRingBelow
      <4>2. CASE j = l + 1
        BY <1>15, <2>2, <4>2
      <4> QED
        BY <2>2, <4>1, <4>2
    <3> QED
      BY <1>5, <1>6, <1>16, <2>1, <2>2, <3>1, <3>2 DEF BurstInOrder, DumpedBelow, InHandBelow, OnRingBelow
  <2> QED
    BY <1>2, <1>10, <1>11, <1>12, <2>5, <2>6, <2>7 DEF Line, Newest
<1> QED
  BY <1>1, <1>4, <1>5, <1>17, <1>18

\* The oldest packet of the ring goes to the consumer's hands.
LEMMA DequeueOrder ==
  ASSUME Base, FilesNumbered, Line, Dequeue
  PROVE  FilesNumbered' /\ Line'
<1>1. /\ consumer = "dequeue" /\ ring # <<>> /\ m' = <<Head(ring)>> /\ ring' = Tail(ring)
      /\ consumer' = "rotate"
      /\ UNCHANGED <<received, burst, nb_rotations, nb_dumped_packets, dumper, files>>
  BY DEF Dequeue, lcoreVars, countVars, fileVars
<1>2. FilesNumbered'
  BY <1>1 DEF FilesNumbered, Places
<1>3. Types /\ ring \in Seq(Packet)
  BY DEF Base, Types
<1>4. PICK s, t, p, k : s = ring /\ t = Tail(s) /\ p = s[1] /\ k = Len(s)
  OBVIOUS
<1>5. /\ k \in Nat /\ k >= 1 /\ DOMAIN s = 1..k /\ DOMAIN t = 1..(k - 1) /\ p = Head(s)
      /\ \A i \in 1..(k - 1) : t[i] = s[i + 1] /\ i + 1 \in 1..k /\ 1 < i + 1
      /\ 1 \in 1..k
  BY <1>1, <1>3, <1>4
<1>6. m' = <<p>> /\ m'[1] = p /\ ring' = t
  BY <1>1, <1>4, <1>5
<1>7. /\ \A i \in 1..k : DumpedBelow(s[i].n) /\ s[i].n < received + 1
      /\ \A i, j \in 1..k : i < j => s[i].n < s[j].n
  BY <1>4, <1>5 DEF Line, RingInOrder, Newest, OnRingBelow
<1>8. FilesInOrder' /\ DumpedBelow(received + 1)' /\ (\A c \in Lcores : InBurstBelow(c, received + 1))'
  BY <1>1 DEF Line, Newest, FilesInOrder, DumpedBelow, InBurstBelow
<1>9. \A i \in 1..k : DumpedBelow(s[i].n)'
  BY <1>1, <1>7 DEF DumpedBelow
<1>10. HandInOrder'
  BY <1>4, <1>5, <1>6, <1>9 DEF HandInOrder, DumpedBelow
<1>11. ASSUME NEW i \in 1..(k - 1), NEW j \in 1..(k - 1), i < j PROVE t[i].n < t[j].n
  <2>1. i + 1 < j + 1
    BY <1>5, <1>11
  <2> QED
    BY <1>5, <1>7, <2>1
<1>12. \A i \in 1..(k - 1) : p.n < t[i].n
  BY <1>4, <1>5, <1>7
<1>13. RingInOrder'
  <2>1. \A i \in 1..(k - 1) : DumpedBelow(t[i].n)'
    BY <1>5, <1>9
  <2> QED
    BY <1>5, <1>6, <1>11, <1>12, <2>1 DEF RingInOrder, DumpedBelow, InHandBelow
<1>14. InHandBelow(received + 1)' /\ OnRingBelow(received + 1)'
  BY <1>1, <1>4, <1>5, <1>6, <1>7 DEF InHandBelow, OnRingBelow
<1>15. ASSUME NEW c \in Lcores PROVE BurstInOrder(c)'
  <2>1. PICK b : b = burst[c]
    OBVIOUS
  <2>2. \A i \in DOMAIN b : /\ DumpedBelow(b[i].n) /\ OnRingBelow(b[i].n)
                            /\ \A j \in DOMAIN b : i < j => b[i].n < b[j].n
    BY <2>1 DEF Line, BurstInOrder
  <2>3. ASSUME NEW i \in DOMAIN b
        PROVE  DumpedBelow(b[i].n)' /\ InHandBelow(b[i].n)' /\ OnRingBelow(b[i].n)'
    <3>1. \A j \in 1..k : s[j].n < b[i].n
      BY <1>4, <1>5, <2>2 DEF OnRingBelow
    <3>2. DumpedBelow(b[i].n)'
      BY <1>1, <2>2 DEF DumpedBelow
    <3> QED
      BY <1>4, <1>5, <1>6, <3>1, <3>2 DEF InHandBelow, OnRingBelow
  <2> QED
    BY <1>1, <2>1, <2>2, <2>3 DEF BurstInOrder, DumpedBelow, InHandBelow, OnRingBelow
<1> QED
  BY <1>2, <1>8, <1>10, <1>13, <1>14, <1>15 DEF Line, Newest

\* The steps of the consumer that take no packet and open no file.
LEMMA ConsumerOrder ==
  ASSUME Base, FilesNumbered, Line, CheckRotation \/ CloseFile \/ Free
  PROVE  FilesNumbered' /\ Line'
<1>1. /\ UNCHANGED <<received, burst, ring, nb_dumped_packets, files>>
      /\ m' = m \/ (m' = <<>> /\ consumer' = "dequeue")
      /\ consumer' \in HasPacket \ {"free"} => consumer \in HasPacket \ {"free"} /\ m' = m
  BY DEF CheckRotation, CloseFile, Free, HasPacket, lcoreVars, countVars, fileVars
<1>2. FilesNumbered'
  <2>1. CASE CheckRotation
    <3>1. /\ consumer = "rotate" /\ dumper' = dumper /\ files' = files
          /\ nb_dumped_packets' = nb_dumped_packets
          /\ \/ consumer' = "dump" /\ nb_rotations' = nb_rotations
             \/ consumer' \in {"close", "limit"} /\ nb_rotations' = nb_rotations + 1
      BY <2>1 DEF CheckRotation, fileVars
    <3>2. nb_rotations \in Nat
      BY DEF Base, Types
    <3>3. DOMAIN files \subseteq 0..nb_rotations' /\ nb_rotations + 1 \notin DOMAIN files
      BY <3>1, <3>2 DEF FilesNumbered
    <3> QED
      BY <3>1, <3>3 DEF FilesNumbered, Places
  <2>2. CASE CloseFile
    BY <2>2 DEF CloseFile, countVars, FilesNumbered, Places
  <2>3. CASE Free
    BY <2>3 DEF Free, countVars, fileVars, FilesNumbered, Places
  <2> QED
    BY <2>1, <2>2, <2>3
<1>3. FilesInOrder' /\ HandInOrder' /\ RingInOrder' /\ Newest'
  BY <1>1 DEF Line, FilesInOrder, HandInOrder, RingInOrder, Newest, DumpedBelow, InHandBelow,
     OnRingBelow, InBurstBelow
<1>4. ASSUME NEW c \in Lcores PROVE BurstInOrder(c)'
  BY <1>1 DEF Line, BurstInOrder, DumpedBelow, InHandBelow, OnRingBelow
<1> QED
  BY <1>2, <1>3, <1>4 DEF Line

\* A new file is empty: no packet changes its place.
LEMMA OpenFileOrder ==
  ASSUME FilesNumbered, Line, NEW k \in 0..nb_rotations, OpenFile(k), k \notin DOMAIN files,
         UNCHANGED <<received, burst, ring, m>>,
         consumer' \in HasPacket \ {"free"} => consumer \in HasPacket \ {"free"}
  PROVE  /\ Line' /\ dumper' = "open" /\ Places' = Places
         /\ DOMAIN files' \subseteq 0..nb_rotations
         /\ \A l \in DOMAIN files' : files'[l] \in Seq(1..MaxPackets)
         /\ files' = [l \in DOMAIN files' |-> files'[l]]
<1>1. /\ dumper' = "open" /\ DOMAIN files' = DOMAIN files \cup {k}
      /\ files'[k] = <<>> /\ \A l \in DOMAIN files : files'[l] = files[l]
      /\ files' = [l \in DOMAIN files' |-> files'[l]]
  BY DEF OpenFile
<1>2. DOMAIN <<>> = {} /\ <<>> \in Seq(1..MaxPackets)
  OBVIOUS
<1>4. \A n : DumpedBelow(n) => \A l \in DOMAIN files' : \A i \in DOMAIN files'[l] : files'[l][i] < n
  BY <1>1, <1>2 DEF DumpedBelow
<1>5. FilesInOrder'
  BY <1>1, <1>2 DEF Line, FilesInOrder
<1>6. HandInOrder'
  BY <1>4 DEF Line, HandInOrder, DumpedBelow
<1>7. RingInOrder'
  BY <1>4 DEF Line, RingInOrder, DumpedBelow, InHandBelow
<1>8. ASSUME NEW c \in Lcores PROVE BurstInOrder(c)'
  BY <1>4 DEF Line, BurstInOrder, DumpedBelow, InHandBelow, OnRingBelow
<1>9. Newest'
  BY <1>4 DEF Line, Newest, DumpedBelow, InHandBelow, OnRingBelow, InBurstBelow
<1>10. Places' = Places
  BY <1>1, <1>2 DEF Places
<1>11. DOMAIN files' \subseteq 0..nb_rotations
  BY <1>1 DEF FilesNumbered
<1>12. \A l \in DOMAIN files' : files'[l] \in Seq(1..MaxPackets)
  BY <1>1, <1>2 DEF FilesNumbered
<1> QED
  BY <1>1, <1>5, <1>6, <1>7, <1>8, <1>9, <1>10, <1>11, <1>12 DEF Line

\* The first file.
LEMMA StartConsumerOrder ==
  ASSUME Base, FilesNumbered, Line, StartConsumer
  PROVE  FilesNumbered' /\ Line'
<1>1. CASE Stop("exited")
  <2>1. UNCHANGED <<received, burst, ring, consumer, m, nb_rotations, nb_dumped_packets, dumper, files>>
    BY <1>1 DEF Stop, lcoreVars, countVars, fileVars
  <2> QED
    BY <2>1, SameFiles, SameLine
<1>2. CASE /\ consumer = "start" /\ OpenFile(0) /\ consumer' = "dequeue"
           /\ UNCHANGED <<lcoreVars, ring, m, nb_rotations, nb_dumped_packets>>
  <2>1. 0 \in 0..nb_rotations /\ 0 \notin DOMAIN files
    BY <1>2 DEF Base, Types, FilesNumbered
  <2>2. UNCHANGED <<received, burst, ring, m>> /\ consumer' \notin HasPacket
    BY <1>2 DEF lcoreVars, HasPacket
  <2>3. /\ Line' /\ dumper' = "open" /\ Places' = Places
        /\ DOMAIN files' \subseteq 0..nb_rotations
        /\ \A l \in DOMAIN files' : files'[l] \in Seq(1..MaxPackets)
        /\ files' = [l \in DOMAIN files' |-> files'[l]]
    BY <1>2, <2>1, <2>2, OpenFileOrder
  <2> QED
    BY <1>2, <2>3 DEF FilesNumbered
<1> QED
  BY <1>1, <1>2 DEF StartConsumer

\* The next file has a number no file has, because the rotation was counted.
LEMMA ReopenFileOrder ==
  ASSUME Base, FilesNumbered, Line, ReopenFile
  PROVE  FilesNumbered' /\ Line'
<1>1. CASE Stop("exited")
  <2>1. UNCHANGED <<received, burst, ring, consumer, m, nb_rotations, nb_dumped_packets, dumper, files>>
    BY <1>1 DEF Stop, lcoreVars, countVars, fileVars
  <2> QED
    BY <2>1, SameFiles, SameLine
<1>2. CASE /\ consumer = "reopen" /\ OpenFile(nb_rotations) /\ consumer' = "dump"
           /\ UNCHANGED <<lcoreVars, ring, m, countVars>>
  <2>1. nb_rotations \in 0..nb_rotations /\ nb_rotations \notin DOMAIN files
    BY <1>2 DEF Base, Types, FilesNumbered
  <2>2. /\ UNCHANGED <<received, burst, ring, m, nb_rotations, nb_dumped_packets>>
        /\ consumer \in HasPacket \ {"free"}
    BY <1>2 DEF lcoreVars, countVars, HasPacket
  <2>3. /\ Line' /\ dumper' = "open" /\ Places' = Places
        /\ DOMAIN files' \subseteq 0..nb_rotations
        /\ \A l \in DOMAIN files' : files'[l] \in Seq(1..MaxPackets)
        /\ files' = [l \in DOMAIN files' |-> files'[l]]
    BY <1>2, <2>1, <2>2, OpenFileOrder
  <2> QED
    BY <1>2, <2>2, <2>3 DEF FilesNumbered
<1> QED
  BY <1>1, <1>2 DEF ReopenFile

\* The packet that is dumped is newer than all in the files, and goes behind them.
LEMMA DumpOrder ==
  ASSUME Base, FilesNumbered, Line, Dump
  PROVE  FilesNumbered' /\ Line'
<1>1. consumer = "dump" /\ dumper = "open"
  BY DEF Dump, FilesNumbered
<1>2. PICK k, n : k = nb_rotations /\ n = m[1].n
  OBVIOUS
<1>3. /\ files' = [files EXCEPT ![k] = Append(@, n)]
      /\ nb_dumped_packets' = nb_dumped_packets + 1 /\ consumer' \in {"limit", "free"}
      /\ UNCHANGED <<received, burst, ring, m, dumper, nb_rotations>>
  BY <1>1, <1>2 DEF Dump, lcoreVars
<1>4. Types /\ k \in DOMAIN files /\ m # <<>>
  <2>1. Types /\ ConsumerShape
    BY DEF Base
  <2>2. k \in DOMAIN files /\ Len(m) = 1
    BY <1>1, <1>2, <2>1 DEF ConsumerShape, HasPacket
  <2> QED
    BY <2>1, <2>2
<1>5. /\ received \in Nat /\ nb_rotations \in Nat /\ nb_dumped_packets \in Nat /\ n \in Nat
      /\ n \in 1..MaxPackets
      /\ \A l \in DOMAIN files : l \in Nat /\ l <= k
      /\ \A l \in DOMAIN files : \A i \in DOMAIN files[l] : files[l][i] \in Nat
  BY <1>2, <1>4, Numbers
<1>6. PICK e, s, t : e = Len(files[k]) /\ s = files[k] /\ t = Append(files[k], n)
  OBVIOUS
<1>7. s \in Seq(1..MaxPackets) /\ e \in Nat /\ e = Len(s)
  BY <1>4, <1>6 DEF FilesNumbered
<1>8. /\ t \in Seq(1..MaxPackets) /\ DOMAIN s = 1..e /\ DOMAIN t = 1..(e + 1) /\ t[e + 1] = n
      /\ \A i \in 1..e : t[i] = s[i]
      /\ \A i \in 1..(e + 1) : i \in 1..e \/ i = e + 1
  BY <1>5, <1>6, <1>7
<1>9. /\ DOMAIN files' = DOMAIN files /\ files'[k] = t
      /\ \A l \in DOMAIN files : l # k => files'[l] = files[l]
      /\ files' = [l \in DOMAIN files' |-> files'[l]]
  BY <1>3, <1>4, <1>6
<1>10. \A l \in DOMAIN files : \A i \in DOMAIN files[l] : files[l][i] < n
  BY <1>1, <1>2 DEF Line, HandInOrder, HasPacket, DumpedBelow
<1>11. ASSUME NEW x, DumpedBelow(x), n < x
       PROVE  DumpedBelow(x)'
  <2>1. ASSUME NEW i \in 1..(e + 1) PROVE t[i] < x
    BY <1>4, <1>6, <1>8, <1>11 DEF DumpedBelow
  <2> QED
    BY <1>8, <1>9, <1>11, <2>1 DEF DumpedBelow
<1>12. FilesInOrder'
  <2>1. ASSUME NEW l \in DOMAIN files, NEW j \in DOMAIN files, l < j,
               NEW i \in DOMAIN files'[l], NEW h \in DOMAIN files'[j]
        PROVE  files'[l][i] < files'[j][h]
    <3>1. l # k /\ files'[l] = files[l]
      BY <1>2, <1>5, <1>9, <2>1
    <3>2. CASE j # k
      BY <1>9, <2>1, <3>1, <3>2 DEF Line, FilesInOrder
    <3>3. CASE j = k /\ h \in 1..e
      BY <1>6, <1>8, <1>9, <2>1, <3>1, <3>3 DEF Line, FilesInOrder
    <3>4. CASE j = k /\ h = e + 1
      BY <1>8, <1>9, <1>10, <3>1, <3>4
    <3> QED
      BY <1>8, <1>9, <3>2, <3>3, <3>4
  <2>2. ASSUME NEW l \in DOMAIN files, NEW i \in DOMAIN files'[l], NEW h \in DOMAIN files'[l], i < h
        PROVE  files'[l][i] < files'[l][h]
    <3>1. CASE l # k
      BY <1>9, <2>2, <3>1 DEF Line, FilesInOrder
    <3>2. CASE l = k /\ h \in 1..e
      <4>1. i \in 1..e
        BY <1>7, <1>8, <1>9, <2>2, <3>2
      <4> QED
        BY <1>4, <1>6, <1>8, <1>9, <2>2, <3>2, <4>1 DEF Line, FilesInOrder
    <3>3. CASE l = k /\ h = e + 1
      <4>1. i \in 1..e
        BY <1>7, <1>8, <1>9, <2>2, <3>3
      <4> QED
        BY <1>4, <1>6, <1>8, <1>9, <1>10, <3>3, <4>1
    <3> QED
      BY <1>8, <1>9, <3>1, <3>2, <3>3
  <2> QED
    BY <1>9, <2>1, <2>2 DEF FilesInOrder
<1>13. HandInOrder'
  BY <1>3 DEF HandInOrder, HasPacket
<1>14. RingInOrder'
  <2>1. ASSUME NEW i \in DOMAIN ring PROVE n < ring[i].n /\ DumpedBelow(ring[i].n)
    BY <1>2, <1>4 DEF Line, RingInOrder, InHandBelow
  <2>2. ASSUME NEW i \in DOMAIN ring PROVE DumpedBelow(ring[i].n)'
    <3>1. PICK x : x = ring[i].n
      OBVIOUS
    <3>2. DumpedBelow(x)'
      BY <1>11, <2>1, <3>1
    <3> QED
      BY <1>3, <3>1, <3>2 DEF DumpedBelow
  <2> QED
    BY <1>3, <2>2 DEF Line, RingInOrder, DumpedBelow, InHandBelow
<1>15. ASSUME NEW c \in Lcores PROVE BurstInOrder(c)'
  <2>1. ASSUME NEW i \in DOMAIN burst[c] PROVE n < burst[c][i].n /\ DumpedBelow(burst[c][i].n)
    BY <1>2, <1>4 DEF Line, BurstInOrder, InHandBelow
  <2>2. ASSUME NEW i \in DOMAIN burst[c] PROVE DumpedBelow(burst[c][i].n)'
    <3>1. PICK x : x = burst[c][i].n
      OBVIOUS
    <3>2. DumpedBelow(x)'
      BY <1>11, <2>1, <3>1
    <3> QED
      BY <1>3, <3>1, <3>2 DEF DumpedBelow
  <2> QED
    BY <1>3, <2>2 DEF Line, BurstInOrder, DumpedBelow, InHandBelow, OnRingBelow
<1>16. Newest'
  <2>1. PICK x : x = received + 1
    OBVIOUS
  <2>2. n < x /\ DumpedBelow(x)
    BY <1>2, <1>4, <2>1 DEF Line, Newest, InHandBelow
  <2>3. DumpedBelow(x)'
    BY <1>11, <2>2
  <2>4. DumpedBelow(received + 1)'
    BY <1>3, <2>1, <2>3 DEF DumpedBelow
  <2> QED
    BY <1>3, <2>4 DEF Line, Newest, InHandBelow, OnRingBelow, InBurstBelow
<1>17. IsFiniteSet(Places') /\ Cardinality(Places') = nb_dumped_packets'
  <2>1. Places' = Places \cup {<<k, e + 1>>}
    <3>1. \A l, i : <<l, i>> \in Places <=> l \in DOMAIN files /\ i \in DOMAIN files[l]
      BY DEF Places
    <3>2. \A l, i : <<l, i>> \in Places' <=> l \in DOMAIN files' /\ i \in DOMAIN files'[l]
      BY DEF Places
    <3>3. \A x \in Places \cup Places' : x = <<x[1], x[2]>>
      BY DEF Places
    <3>4. ASSUME NEW l, NEW i
          PROVE  <<l, i>> \in Places' <=> <<l, i>> \in Places \/ (l = k /\ i = e + 1)
      <4>1. CASE l = k
        <5>1. i \in DOMAIN t <=> i \in DOMAIN s \/ i = e + 1
          BY <1>7, <1>8
        <5> QED
          BY <1>4, <1>6, <1>9, <3>1, <3>2, <4>1, <5>1
      <4>2. CASE l # k
        BY <1>9, <3>1, <3>2, <4>2
      <4> QED
        BY <4>1, <4>2
    <3> QED
      BY <3>3, <3>4
  <2>2. <<k, e + 1>> \notin Places
    <3>1. e + 1 \notin DOMAIN files[k]
      BY <1>6, <1>7, <1>8
    <3> QED
      BY <3>1 DEF Places
  <2>3. IsFiniteSet(Places) /\ Cardinality(Places) = nb_dumped_packets
    BY DEF FilesNumbered
  <2>4. IsFiniteSet(Places') /\ Cardinality(Places') = Cardinality(Places) + 1
    BY <2>1, <2>2, <2>3, FS_AddElement
  <2> QED
    BY <1>3, <2>3, <2>4
<1>18. \A l \in DOMAIN files' : files'[l] \in Seq(1..MaxPackets)
  BY <1>8, <1>9 DEF FilesNumbered
<1>19. FilesNumbered'
  BY <1>1, <1>3, <1>9, <1>17, <1>18 DEF FilesNumbered
<1> QED
  BY <1>12, <1>13, <1>14, <1>15, <1>16, <1>19 DEF Line

\* A handler sets do_shutdown before it does anything else.
LEMMA ShutdownNext == Base /\ Shutdown /\ [Next]_vars => Shutdown'
<1> SUFFICES ASSUME Base, Shutdown, [Next]_vars PROVE Shutdown'
  OBVIOUS
<1>1. handlers \in [Runs -> {"idle", "close", "exit"}]
  BY DEF Base, Types
<1>2. CASE UNCHANGED <<do_shutdown, handlers>>
  BY <1>2 DEF Shutdown
<1>3. CASE \E h \in Runs : EnterHandler(h)
  BY <1>3 DEF EnterHandler, Shutdown
<1>4. ASSUME NEW h \in Runs, HandlerCloses(h) PROVE Shutdown'
  BY <1>1, <1>4 DEF HandlerCloses, Shutdown
<1>5. CASE \E h \in Runs : HandlerExits(h)
  BY <1>2, <1>5 DEF HandlerExits, Stop
<1>6. CASE Setup \/ Second \/ (\E c \in Lcores : packet_producer(c)) \/ packet_consumer
  BY <1>2, <1>6 DEF Setup, Second, Stop, packet_producer, RxPacket, RxEnd, Stamp, RingLook, RingTake,
     packet_consumer, StartConsumer, Dequeue, CheckRotation, CloseFile, ReopenFile, Dump, Free, endVars
<1> QED
  BY <1>2, <1>3, <1>4, <1>5, <1>6 DEF Next, sig_handler, vars, endVars

\* At first there is no packet and no file.
LEMMA OrderInit == Init => FilesNumbered /\ Line
<1> SUFFICES ASSUME Init PROVE FilesNumbered /\ Line
  OBVIOUS
<1>1. /\ received = 0 /\ (\A c \in Lcores : burst[c] = <<>>) /\ ring = <<>> /\ m = <<>>
      /\ consumer = "start" /\ nb_rotations = 0 /\ nb_dumped_packets = 0 /\ files = <<>>
  BY DEF Init
<1>2. Places = {} /\ IsFiniteSet(Places) /\ Cardinality(Places) = 0
  <2>1. Places = {}
    BY <1>1 DEF Places
  <2> QED
    BY <2>1, FS_EmptySet
<1>3. DOMAIN files = {} /\ files = [k \in DOMAIN files |-> files[k]]
  <2>1. DOMAIN files = {}
    BY <1>1
  <2>2. files \in Seq(Nat)
    BY <1>1
  <2>3. files = [k \in 1..Len(files) |-> files[k]]
    BY <1>1, <2>2
  <2> QED
    BY <2>1, <2>2, <2>3
<1>4. FilesNumbered
  BY <1>1, <1>2, <1>3 DEF FilesNumbered
<1>5. Line
  BY <1>1, <1>3 DEF Line, FilesInOrder, HandInOrder, RingInOrder, BurstInOrder, Newest, HasPacket,
     DumpedBelow, InHandBelow, OnRingBelow, InBurstBelow
<1> QED
  BY <1>4, <1>5

\* At first no lcore is launched.
LEMMA RanksInit == Init => Ranks
<1> SUFFICES ASSUME Init, NEW c \in Lcores PROVE lcore[c] = "off" /\ burst[c] = <<>>
  BY DEF Ranks
<1> QED
  BY DEF Init

\* Every step keeps Order: a shutdown that has begun makes no promise.
LEMMA OrderNext == Base /\ Ranks /\ Shutdown /\ Order /\ [Next]_vars => Order'
<1> SUFFICES ASSUME Base, Ranks, Shutdown, Order, [Next]_vars, OneDumper'
             PROVE  FilesNumbered' /\ Line'
  BY DEF Order
<1>1. CASE Setup
  <2>1. UNCHANGED <<received, burst, ring, consumer, m, nb_rotations, nb_dumped_packets, dumper,
                    files, enabled, perLcore, do_shutdown>>
    BY <1>1 DEF Setup, Stop, setupVars, lcoreVars, countVars, fileVars
  <2>2. FilesNumbered /\ Line
    BY <2>1, SamePolling DEF Order, OneDumper
  <2> QED
    BY <2>1, <2>2, SameFiles, SameLine
<1>2. CASE UNCHANGED vars \/ Second
  <2>1. UNCHANGED <<received, burst, ring, consumer, m, nb_rotations, nb_dumped_packets, dumper,
                    files, enabled, perLcore, do_shutdown>>
    BY <1>2 DEF Second, vars, endVars, setupVars, lcoreVars, countVars, fileVars
  <2>2. FilesNumbered /\ Line
    BY <2>1, SamePolling DEF Order, OneDumper
  <2> QED
    BY <2>1, <2>2, SameFiles, SameLine
<1>3. ASSUME NEW h \in Runs, sig_handler(h) PROVE FALSE
  <2>1. CASE EnterHandler(h)
    BY <2>1 DEF EnterHandler, OneDumper
  <2>2. CASE HandlerCloses(h) \/ HandlerExits(h)
    <3>1. handlers[h] # "idle" /\ do_shutdown' = do_shutdown
      BY <2>2 DEF HandlerCloses, HandlerExits, Stop
    <3> QED
      BY <3>1 DEF Shutdown, OneDumper
  <2> QED
    BY <1>3, <2>1, <2>2 DEF sig_handler
<1>4. ASSUME NEW c \in Lcores, packet_producer(c) PROVE FilesNumbered' /\ Line'
  <2>1. UNCHANGED <<do_shutdown, enabled, perLcore>>
    BY <1>4 DEF packet_producer, RxPacket, RxEnd, Stamp, RingLook, RingTake, Stop, endVars, setupVars
  <2>2. FilesNumbered /\ Line /\ Cardinality(Polling) <= 1
    BY <2>1, SamePolling DEF Order, OneDumper
  <2> QED
    BY <1>4, <2>2, RxPacketOrder, LcoreOrder, RingTakeOrder DEF packet_producer
<1>5. CASE packet_consumer
  <2>1. UNCHANGED <<do_shutdown, enabled, perLcore>>
    BY <1>5 DEF packet_consumer, StartConsumer, Dequeue, CheckRotation, CloseFile, ReopenFile, Dump,
       Free, Stop, endVars, setupVars
  <2>2. FilesNumbered /\ Line
    BY <2>1, SamePolling DEF Order, OneDumper
  <2> QED
    BY <1>5, <2>2, StartConsumerOrder, DequeueOrder, ConsumerOrder, ReopenFileOrder, DumpOrder
       DEF packet_consumer
<1> QED
  BY <1>1, <1>2, <1>3, <1>4, <1>5 DEF Next

\* The inductive invariant holds in every reachable state.
THEOREM InvHolds == Spec => []IInv
<1>1. Init => IInv
  <2>1. Init => Shutdown
    BY DEF Init, Shutdown
  <2> QED
    BY <2>1, BaseInit, RanksInit, OrderInit DEF IInv, Order
<1>2. IInv /\ [Next]_vars => IInv'
  BY BaseNext, ShutdownNext, RanksNext, OrderNext DEF IInv
<1> QED
  BY <1>1, <1>2, PTL DEF Spec

\* No mbuf is lost or freed twice but where the code forgets it: rte_ring_enqueue on the
\* full ring (main.c:280) loses one packet in all, whatever the sizes of ring and pool.
THEOREM MbufsCorrect == Spec => []MbufsAccounted
<1>1. IInv => MbufsAccounted
  <2> SUFFICES ASSUME IInv PROVE MbufsAccounted
    OBVIOUS
  <2>1. Types /\ ConsumerShape /\ Accounted
    BY DEF IInv, Base
  <2>2. /\ Segments(ring) \in Nat /\ Segments(m) \in Nat /\ InBursts \in Nat
        /\ pool \in Nat /\ unfreed \in Nat
        /\ pool + InBursts + Segments(ring) + Segments(m) + unfreed = buffer_size
    BY <2>1, Amounts
  <2>3. pool \in 0..buffer_size /\ unfreed \in 0..buffer_size
    BY <2>2, Parameters
  <2>4. TypeOK
    BY <2>1, <2>3 DEF TypeOK, Types, ConsumerShape
  <2> QED
    BY <2>1, <2>2, <2>4 DEF MbufsAccounted, Accounted
<1> QED
  BY <1>1, InvHolds, PTL

\* With one lcore polling and until a shutdown begins, the numbered files hold what was
\* dumped, once each and in the order of arrival, through every rotation.
THEOREM OrderCorrect == Spec => []DumpedInOrder
<1>1. IInv => DumpedInOrder
  <2> SUFFICES ASSUME IInv, ~do_shutdown /\ Cardinality(Polling) <= 1
               PROVE  /\ Cardinality(Places) = nb_dumped_packets
                      /\ \A p, q \in Places : Before(p, q) => files[p[1]][p[2]] < files[q[1]][q[2]]
    BY DEF DumpedInOrder
  <2>1. FilesNumbered /\ Line
    BY DEF IInv, Order, OneDumper
  <2>2. \A p \in Places : p[1] \in DOMAIN files /\ p[2] \in DOMAIN files[p[1]]
    BY DEF Places
  <2> QED
    BY <2>1, <2>2 DEF FilesNumbered, Line, FilesInOrder, Before
<1> QED
  BY <1>1, InvHolds, PTL
=============================================================================
