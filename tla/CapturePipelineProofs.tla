----------------------- MODULE CapturePipelineProofs -----------------------
(***************************************************************************)
(* What holds of the capture program for every chunk size, packet length,  *)
(* rotation interval and number of packets, until a packet longer than     *)
(* pktdata ends what is defined: the chunk never overflows, every          *)
(* delivered packet is accounted for, the files hold the records in order  *)
(* behind a header's magic number, and a file only grows.                  *)
(*                                                                         *)
(* The invariant adds to the properties what each thread knows at each     *)
(* step: where the chunk has room, that the open file is the youngest and  *)
(* older than any it will create, and that all the writer and the queue    *)
(* hold was captured before the packet in the reader's hands.              *)
(***************************************************************************)
EXTENDS CapturePipeline, TLAPS, SequenceTheorems

-----------------------------------------------------------------------------
(* The inductive invariant *)

Header == [magic : BOOLEAN, link : {"zero", "canned", "device"}]
File == [header : Header, body : Seq(Record)]
FilesOK == files \in [DOMAIN files -> File]

\* The reader has a packet exactly while it enqueues it: the last one counted.
Handed ==
  /\ reader # "enqueue" => capture = <<>>
  /\ reader = "enqueue" => \E c \in Fitting : capture = <<[n |-> countPkt, caplen |-> c]>>

\* There is room for one more packet unless the writer is about to flush.
Room ==
  /\ bufferLen <= CHUNKSIZE
  /\ writer # "flush" => bufferLen + StructSize <= CHUNKSIZE

HeaderDone == {"loop", "flush", "rotate", "stop", "cleanup"}
Writing == HeaderDone \cup {"magic", "canned", "header"}

\* The open file is the youngest; the one about to be created is younger.
CurrentFile ==
  /\ main = "sleep" => writer = "none"
  /\ writer = "none" => DOMAIN files = {}
  /\ writer = "create" => \A f \in DOMAIN files : m_filerotate /\ f < now
  /\ writer \in Writing =>
       /\ FP \in DOMAIN files
       /\ \A f \in DOMAIN files : f <= FP
       /\ m_filerotate => FP = m_pretime
  /\ m_pretime <= now

\* The writer checks the magic number before it writes the header.
HeaderKnown ==
  /\ writer \in {"canned", "header"} => fileheader.magic
  /\ writer \in HeaderDone => files[FP].header.magic

\* What was captured before the packet in the reader's hands.
Older(s) == \A i \in DOMAIN s : s[i].n <= countPkt - Len(capture)

\* All that the writer and the queue hold is older.
Behind ==
  /\ \A f \in DOMAIN files : Older(Body(f))
  /\ Older(tochunk) /\ Older(buffer_)
  /\ lastTurn <= countPkt - Len(capture)

\* WriterDrains for a writer that has not exited yet: the queue was empty when
\* it looked.
Drained ==
  writer \in {"stop", "cleanup", "exited"} =>
    \A i \in DOMAIN buffer_ : buffer_[i].n > lastTurn

\* The writer's last flush closes the file.
Closed == writer = "exited" => tochunk = <<>> /\ FP = NULL

\* The numbers of all records, torn ones included.
InFiles == UNION {Numbers(Body(f)) : f \in DOMAIN files}

\* Every packet counted is in a file, on its way or was reported, in any process.
Accounted ==
  1..countPkt = InFiles \cup Numbers(tochunk) \cup Numbers(buffer_) \cup Numbers(capture)
                \cup dropped \cup unwritten

\* A torn record was reported.
TornReported ==
  \A f \in DOMAIN files : \A i \in DOMAIN Body(f) :
    ~Body(f)[i].whole => Body(f)[i].n \in unwritten

\* main returns when both threads are gone.
Joined == process = "done" => reader = "exited" /\ writer = "exited"

Types == TypeOK /\ FilesOK
Threads == Handed /\ Room /\ CurrentFile
Order == HeaderKnown /\ InOrder /\ Behind /\ Drained /\ Closed

IInv == Types /\ Threads /\ Order /\ Accounted /\ TornReported /\ Joined

-----------------------------------------------------------------------------
(* Sequences of packets and their order *)

\* A packet of a sequence, and a record of a file, has a number.
LEMMA PacketNumber ==
    ASSUME NEW T \in {Packet, Record}, NEW s \in Seq(T), NEW i \in DOMAIN s
    PROVE  s[i] \in T /\ s[i].n \in 1..MaxPackets /\ s[i].n \in Int
<1>1. s[i] \in T
  BY ElementOfSeq, LenProperties
<1>2. CASE T = Packet
  BY <1>1, <1>2 DEF Packet
<1>3. CASE T = Record
  BY <1>1, <1>3 DEF Record
<1> QED
  BY <1>1, <1>2, <1>3

\* The elements of a concatenation are those of its parts, in that order.
LEMMA ConcatElements ==
    ASSUME NEW T, NEW s \in Seq(T), NEW t \in Seq(T), NEW i \in DOMAIN (s \o t)
    PROVE  \/ i \in DOMAIN s /\ (s \o t)[i] = s[i]
           \/ /\ i \in Int /\ Len(s) \in Int /\ i > Len(s)
              /\ i - Len(s) \in DOMAIN t /\ (s \o t)[i] = t[i - Len(s)]
<1>1. /\ DOMAIN s = 1..Len(s) /\ DOMAIN t = 1..Len(t)
      /\ Len(s) \in Nat /\ Len(t) \in Nat
  BY LenProperties
<1>2. DOMAIN (s \o t) = 1..(Len(s) + Len(t))
  BY ConcatProperties, LenProperties
<1>3. (s \o t)[i] = IF i <= Len(s) THEN s[i] ELSE t[i - Len(s)]
  BY <1>2, ConcatProperties
<1> QED
  BY <1>1, <1>2, <1>3

\* A concatenation is in order when its parts are and the one precedes the other.
LEMMA ConcatIncreasing ==
    ASSUME NEW T, NEW s \in Seq(T), NEW t \in Seq(T),
           Increasing(s), Increasing(t), Before(s, t)
    PROVE  Increasing(s \o t)
<1> SUFFICES ASSUME NEW i \in DOMAIN (s \o t), NEW j \in DOMAIN (s \o t), i < j
             PROVE  (s \o t)[i].n < (s \o t)[j].n
    BY DEF Increasing
<1>1. i \in Int /\ j \in Int /\ DOMAIN s = 1..Len(s) /\ Len(s) \in Nat
  BY ConcatProperties, LenProperties
<1>2. CASE j \in DOMAIN s /\ (s \o t)[j] = s[j]
  <2>1. i \in DOMAIN s /\ (s \o t)[i] = s[i]
    BY <1>1, <1>2, ConcatElements
  <2> QED
    BY <1>2, <2>1 DEF Increasing
<1>3. CASE j > Len(s) /\ j - Len(s) \in DOMAIN t /\ (s \o t)[j] = t[j - Len(s)]
  <2>1. CASE i \in DOMAIN s /\ (s \o t)[i] = s[i]
    BY <1>3, <2>1 DEF Before
  <2>2. CASE i > Len(s) /\ i - Len(s) \in DOMAIN t /\ (s \o t)[i] = t[i - Len(s)]
    BY <1>1, <1>3, <2>2 DEF Increasing
  <2> QED
    BY <2>1, <2>2, ConcatElements
<1> QED
  BY <1>2, <1>3, ConcatElements

\* What precedes both parts precedes the concatenation, and conversely.
LEMMA ConcatBefore ==
    ASSUME NEW T, NEW s \in Seq(T), NEW t \in Seq(T), NEW r
    PROVE  /\ Before(r, s) /\ Before(r, t) => Before(r, s \o t)
           /\ Before(s, r) /\ Before(t, r) => Before(s \o t, r)
  BY ConcatElements DEF Before

\* A concatenation begins with its first part.
LEMMA ConcatFront ==
    ASSUME NEW T, NEW s \in Seq(T), NEW t \in Seq(T)
    PROVE  SubSeq(s \o t, 1, Len(s)) = s
<1>1. Len(s) \in Nat /\ Len(t) \in Nat /\ s \o t \in Seq(T)
  BY ConcatProperties, LenProperties
<1>2. CASE Len(s) = 0
  BY <1>1, <1>2, SubSeqEmpty, EmptySeq
<1>3. CASE Len(s) > 0
  <2>1. SubSeq(s \o t, 1, Len(s)) = SubSeq(s, 1, Len(s))
    BY <1>1, <1>3, SubSeqOfConcat1
  <2> QED
    BY <2>1, SubSeqFull
<1> QED
  BY <1>1, <1>2, <1>3

\* What a write of a chunk adds to a file.
LEMMA Part ==
    ASSUME NEW s \in Seq(Packet), NEW k \in 0..Len(s), NEW m \in 0..Len(s)
    PROVE  /\ Written(s, k, m) \in Seq(Record)
           /\ DOMAIN Written(s, k, m) = 1..m
           /\ 1..m \subseteq DOMAIN s
           /\ \A i \in 1..m : /\ Written(s, k, m)[i].n = s[i].n
                             /\ Written(s, k, m)[i].whole = (i <= k)
<1>1. DOMAIN s = 1..Len(s) /\ Len(s) \in Nat /\ m \in Nat /\ m <= Len(s)
  BY LenProperties
<1>2. \A i \in 1..m : i \in DOMAIN s /\ [n |-> s[i].n, whole |-> i <= k] \in Record
  <2> SUFFICES ASSUME NEW i \in 1..m
               PROVE  i \in DOMAIN s /\ [n |-> s[i].n, whole |-> i <= k] \in Record
      OBVIOUS
  <2>1. i \in DOMAIN s
    BY <1>1
  <2>2. s[i].n \in 1..MaxPackets
    BY <2>1, PacketNumber
  <2> QED
    BY <2>1, <2>2 DEF Record
<1>3. Written(s, k, m) \in [1..m -> Record]
  BY <1>2 DEF Written
<1>4. Written(s, k, m) \in Seq(Record)
  BY <1>1, <1>3, SeqDef
<1> QED
  BY <1>2, <1>4 DEF Written

\* It is in order, and where the whole is, when the whole is.
LEMMA PartOrder ==
    ASSUME NEW s \in Seq(Packet), NEW k \in 0..Len(s), NEW m \in 0..Len(s), NEW r
    PROVE  /\ Increasing(s) => Increasing(Written(s, k, m))
           /\ Before(r, s) => Before(r, Written(s, k, m))
           /\ Before(s, r) => Before(Written(s, k, m), r)
<1> DEFINE w == Written(s, k, m)
<1>1. /\ DOMAIN w = 1..m /\ 1..m \subseteq DOMAIN s
      /\ \A i \in 1..m : w[i].n = s[i].n
  BY Part
<1> HIDE DEF w
<1>2. Increasing(s) => Increasing(w)
  BY <1>1 DEF Increasing
<1>3. (Before(r, s) => Before(r, w)) /\ (Before(s, r) => Before(w, r))
  BY <1>1 DEF Before
<1> QED
  BY <1>2, <1>3 DEF w

\* A sequence is its head and its tail.
LEMMA HeadAndTail ==
    ASSUME NEW s \in Seq(Packet), s # <<>>
    PROVE  /\ Head(s) \in Packet /\ Tail(s) \in Seq(Packet)
           /\ Head(s) = s[1] /\ 1 \in DOMAIN s
           /\ \A i \in DOMAIN Tail(s) :
                i \in Int /\ i > 0 /\ i + 1 \in DOMAIN s /\ Tail(s)[i] = s[i + 1]
           /\ \A i \in DOMAIN s \ {1} :
                i \in Int /\ i - 1 \in DOMAIN Tail(s) /\ Tail(s)[i - 1] = s[i]
<1>1. Len(s) \in Nat \ {0} /\ DOMAIN s = 1..Len(s)
  BY EmptySeq, LenProperties
<1>2. /\ Head(s) \in Packet /\ Tail(s) \in Seq(Packet)
      /\ Len(Tail(s)) = Len(s) - 1
      /\ \A i \in 1..Len(Tail(s)) : Tail(s)[i] = s[i + 1]
  BY HeadTailProperties
<1>3. DOMAIN Tail(s) = 1..Len(Tail(s))
  BY <1>2, LenProperties
<1>4. Head(s) = s[1]
  OBVIOUS
<1>5. \A i \in DOMAIN s \ {1} : i \in Int /\ i - 1 \in 1..Len(Tail(s)) /\ (i - 1) + 1 = i
  BY <1>1, <1>2
<1> QED
  BY <1>1, <1>2, <1>3, <1>4, <1>5

-----------------------------------------------------------------------------
(* Types *)

\* The initial states.
LEMMA InitTypes == Init => Types
<1> SUFFICES ASSUME Init PROVE Types
    OBVIOUS
<1>1. m_filerotate \in BOOLEAN /\ now \in 0..MaxTime /\ m_pretime \in 0..MaxTime
  BY OptionsAssumption DEF OptionsAssumption, Init
<1>2. countPkt \in 0..MaxPackets /\ lastTurn \in 0..MaxPackets
  BY OptionsAssumption DEF OptionsAssumption, Init
<1>3. capture \in Seq(Packet) /\ buffer_ \in Seq(Packet) /\ tochunk \in Seq(Packet)
  BY DEF Init
<1>4. DOMAIN files = {} /\ files \in [DOMAIN files -> File]
  BY DEF Init
<1> QED
  BY <1>1, <1>2, <1>3, <1>4 DEF Init, Types, TypeOK, FilesOK, NoHeader, NULL

\* exit() and an overrun change nothing but the process.
LEMMA ExitTypes ==
    ASSUME Types, Exit \/ Undefined
    PROVE  Types'
  BY DEF Types, TypeOK, FilesOK, Exit, Undefined, Halt, threadVars, sharedVars, readVars, writeVars,
         fileVars, chunkVars, dequeueVars

\* The threads of main and of the signal.
LEMMA MainTypes ==
    ASSUME Types, CreateWriter \/ InstallHandlers \/ Join \/ SignalArrives
                    \/ StopReader \/ StopWriter \/ Tick
    PROVE  Types'
<1> USE DEF Types, TypeOK, FilesOK
<1> USE DEF threadVars, sharedVars, readVars, writeVars, fileVars, chunkVars, dequeueVars
<1>1. CASE CreateWriter
  BY <1>1, ExitTypes, SMTT(20) DEF CreateWriter
<1>2. CASE InstallHandlers
  BY <1>2 DEF InstallHandlers
<1>3. CASE Join
  BY <1>3 DEF Join
<1>4. CASE SignalArrives
  BY <1>4 DEF SignalArrives
<1>5. CASE StopReader
  BY <1>5 DEF StopReader
<1>6. CASE StopWriter
  BY <1>6 DEF StopWriter
<1>7. CASE Tick
  <2>1. now' \in 0..MaxTime
    BY <1>7, OptionsAssumption DEF Tick, OptionsAssumption
  <2> QED
    BY <1>7, <2>1 DEF Tick
<1> QED
  BY <1>1, <1>2, <1>3, <1>4, <1>5, <1>6, <1>7

\* A header of which one field is written is a header.
LEMMA HeaderUpdates ==
    ASSUME fileheader \in Header
    PROVE  /\ [fileheader EXCEPT !.magic = TRUE] \in Header
           /\ \A l \in {"canned", "device"} : [fileheader EXCEPT !.link = l] \in Header
           /\ [fileheader EXCEPT !.magic = TRUE].magic
           /\ \A l : [fileheader EXCEPT !.link = l].magic = fileheader.magic
  BY DEF Header

\* The reader thread.
LEMMA ReaderTypes ==
    ASSUME Types, Threads, Reader
    PROVE  Types'
<1> USE DEF Types, TypeOK, FilesOK
<1> USE DEF mainVars, sharedVars, readVars, writeVars, fileVars, chunkVars, dequeueVars
<1>0. CASE Exit \/ Undefined
  BY <1>0, ExitTypes
<1>1. CASE PcapStartUp /\ ~Exit
  BY <1>1 DEF PcapStartUp
<1>2. CASE FetchMagic
  <2>1. fileheader' \in Header
    BY <1>2, HeaderUpdates DEF FetchMagic, Header
  <2> QED
    BY <1>2, <2>1 DEF FetchMagic, Header
<1>3. CASE FetchLink
  <2>1. fileheader' \in Header
    BY <1>3, HeaderUpdates DEF FetchLink, Header
  <2> QED
    BY <1>3, <2>1 DEF FetchLink, Header
<1>4. CASE ReaderStopCheck /\ ~Exit
  BY <1>4 DEF ReaderStopCheck
<1>5. CASE PcapNextEx
  <2>1. CASE (\E c \in Fitting : capture' = <<[n |-> countPkt + 1, caplen |-> c]>>)
             /\ countPkt < MaxPackets /\ countPkt' = countPkt + 1 /\ reader' = "enqueue"
             /\ UNCHANGED <<mainVars, sharedVars, readerStop, dropped, writer, writeVars>>
    <3>1. countPkt + 1 \in 1..MaxPackets
      BY <2>1, OptionsAssumption DEF OptionsAssumption
    <3>2. capture' \in Seq(Packet)
      BY <2>1, <3>1 DEF Packet
    <3> QED
      BY <2>1, <3>1, <3>2
  <2>2. CASE reader' = "loop" /\ UNCHANGED <<mainVars, sharedVars, readVars, writer, writeVars>>
    BY <2>2
  <2> HIDE DEF Types, TypeOK, FilesOK
  <2> QED
    BY <1>0, <1>5, <2>1, <2>2 DEF PcapNextEx
<1>6. CASE WritePKTtoBuf
  <2>1. capture \in Seq(Packet) /\ Len(capture) = 1 /\ capture[1].n \in 1..MaxPackets
    <3>1. PICK c \in Fitting : capture = <<[n |-> countPkt, caplen |-> c]>>
      BY <1>6 DEF WritePKTtoBuf, Threads, Handed
    <3>2. 1 \in DOMAIN capture
      BY <3>1
    <3> QED
      BY <3>1, <3>2, PacketNumber
  <2>2. buffer_' \in Seq(Packet) /\ dropped' \subseteq 1..MaxPackets
    <3>1. CASE buffer_' = buffer_ \o capture /\ dropped' = dropped
      BY <2>1, <3>1, ConcatProperties
    <3>2. CASE dropped' = dropped \cup {capture[1].n} /\ buffer_' = buffer_
      BY <2>1, <3>2
    <3> QED
      BY <1>6, <3>1, <3>2 DEF WritePKTtoBuf
  <2>3. capture' \in Seq(Packet)
    BY <1>6 DEF WritePKTtoBuf
  <2> QED
    BY <1>6, <2>2, <2>3 DEF WritePKTtoBuf
<1> QED
  BY <1>0, <1>1, <1>2, <1>3, <1>4, <1>5, <1>6 DEF Reader

\* Saving the chunk: what a write adds to the open file and what it loses.
LEMMA FlushTypes ==
    ASSUME Types, Threads, writer \in Writing, FlushToFile
    PROVE  /\ FilesOK' /\ DOMAIN files' = DOMAIN files
           /\ unwritten' \subseteq 1..MaxPackets
           /\ tochunk' \in Seq(Packet) /\ bufferLen' \in Nat
<1>1. PICK k \in 0..Len(tochunk), m \in 0..Len(tochunk) :
        /\ m \in {k, k + 1}
        /\ files' = [files EXCEPT ![FP].body = @ \o Written(tochunk, k, m)]
        /\ unwritten' = unwritten \cup {tochunk[i].n : i \in k + 1..Len(tochunk)}
        /\ tochunk' = <<>> /\ bufferLen' = 0
  BY DEF FlushToFile
<1>2. tochunk \in Seq(Packet) /\ DOMAIN tochunk = 1..Len(tochunk)
  BY LenProperties DEF Types, TypeOK
<1>3. FP \in DOMAIN files /\ files[FP] \in File /\ files[FP].body \in Seq(Record)
  BY DEF Types, FilesOK, File, Threads, CurrentFile
<1>4. files[FP].body \o Written(tochunk, k, m) \in Seq(Record)
  BY <1>2, <1>3, Part, ConcatProperties
<1>5. FilesOK' /\ DOMAIN files' = DOMAIN files
  BY <1>1, <1>3, <1>4 DEF Types, FilesOK, File
<1>6. \A i \in k + 1..Len(tochunk) : tochunk[i].n \in 1..MaxPackets
  <2> SUFFICES ASSUME NEW i \in k + 1..Len(tochunk) PROVE tochunk[i].n \in 1..MaxPackets
      OBVIOUS
  <2>1. i \in DOMAIN tochunk
    BY <1>2, LenProperties
  <2> QED
    BY <1>2, <2>1, PacketNumber
<1> QED
  BY <1>1, <1>5, <1>6 DEF Types, TypeOK

\* The writer thread.
LEMMA WriterTypes ==
    ASSUME Types, Threads, Writer
    PROVE  Types'
<1> USE DEF Types, TypeOK, FilesOK
<1> USE DEF mainVars, sharedVars, readVars, writeVars, fileVars, chunkVars, dequeueVars
<1>1. CASE CreateNewFile
  <2>1. CASE Exit
    BY <2>1, ExitTypes
  <2>2. CASE ~Exit
    <3> DEFINE name == IF m_filerotate THEN now ELSE 0
               empty == [header |-> NoHeader, body |-> <<>>]
    <3>1. /\ m_pretime' = IF m_filerotate THEN now ELSE m_pretime
          /\ FP' = name
          /\ files' = [f \in DOMAIN files \cup {name} |->
                         IF f = name THEN empty ELSE files[f]]
          /\ writer' = "magic"
          /\ UNCHANGED <<mainVars, sharedVars, reader, readVars, writerStop, chunkVars,
                         dequeueVars>>
      BY <1>1, <2>2 DEF CreateNewFile
    <3>2. name \in 0..MaxTime /\ m_pretime' \in 0..MaxTime
      BY <3>1, OptionsAssumption DEF OptionsAssumption
    <3>3. empty \in File
      BY DEF NoHeader, File, Header
    <3> HIDE DEF name, empty
    <3>4. DOMAIN files' = DOMAIN files \cup {name} /\ files' \in [DOMAIN files' -> File]
      BY <3>1, <3>3
    <3> QED
      BY <3>1, <3>2, <3>4
  <2> QED
    BY <2>1, <2>2
<1>2. CASE CheckMagic
  <2>1. fileheader' \in Header
    BY <1>2, HeaderUpdates DEF CheckMagic, Header
  <2> QED
    BY <1>2, <2>1 DEF CheckMagic, Header
<1>3. CASE CannedLink
  <2>1. fileheader' \in Header
    BY <1>3, HeaderUpdates DEF CannedLink, Header
  <2> QED
    BY <1>3, <2>1 DEF CannedLink, Header
<1>4. CASE WriteHeader
  <2>1. FP \in DOMAIN files /\ fileheader \in Header /\ files[FP] \in File
    BY <1>4 DEF WriteHeader, Threads, CurrentFile, Writing, Header
  <2>2. DOMAIN files' = DOMAIN files /\ files' \in [DOMAIN files -> File]
    BY <1>4, <2>1 DEF WriteHeader, File
  <2> QED
    BY <1>4, <2>2 DEF WriteHeader
<1>5. CASE TryDequeue
  <2>1. lastTurn' \in 0..MaxPackets
    <3>1. CASE reader = "enqueue"
      <4>1. PICK c \in Fitting : capture = <<[n |-> countPkt, caplen |-> c]>>
        BY <3>1 DEF Threads, Handed
      <4>2. 1 \in DOMAIN capture /\ capture[1].n = countPkt /\ Len(capture) = 1
        BY <4>1
      <4>3. countPkt \in 1..MaxPackets
        BY <4>2, PacketNumber
      <4> QED
        BY <1>5, <4>2, <4>3, OptionsAssumption DEF TryDequeue, OptionsAssumption
    <3>2. CASE reader # "enqueue"
      BY <1>5, <3>2 DEF TryDequeue, Threads, Handed
    <3> QED
      BY <3>1, <3>2
  <2>2. CASE buffer_ = <<>>
    BY <1>5, <2>1, <2>2 DEF TryDequeue
  <2>3. CASE buffer_ # <<>>
    <3>1. Head(buffer_) \in Packet /\ Tail(buffer_) \in Seq(Packet)
      BY <2>3, HeadAndTail
    <3>2. Append(tochunk, Head(buffer_)) \in Seq(Packet)
      BY <3>1, AppendProperties
    <3>3. bufferLen' \in Nat
      <4>1. Head(buffer_).caplen \in 0..PRACTICAL_LEN
        BY <3>1, SizeAssumption DEF Packet, Fitting, SizeAssumption
      <4>2. bufferLen' = bufferLen + HeaderSize + Head(buffer_).caplen
        BY <1>5, <2>3 DEF TryDequeue
      <4> QED
        BY <4>1, <4>2, SizeAssumption, SMTT(20) DEF SizeAssumption
    <3> QED
      <4>1. /\ buffer_' = Tail(buffer_) /\ noOfpkts' = noOfpkts + 1
            /\ tochunk' = Append(tochunk, Head(buffer_))
        BY <1>5, <2>3 DEF TryDequeue
      <4>2. buffer_' \in Seq(Packet) /\ tochunk' \in Seq(Packet) /\ noOfpkts' \in Nat
        BY <3>1, <3>2, <4>1
      <4>3. /\ writer' \in {"flush", "rotate"}
            /\ UNCHANGED <<mainVars, fileheader, reader, readVars, writerStop, fileVars,
                           unwritten>>
        BY <1>5, <2>3 DEF TryDequeue
      <4> QED
        BY <2>1, <3>3, <4>2, <4>3
  <2> QED
    BY <2>2, <2>3
<1>6. CASE Flush
  <2>1. writer \in Writing /\ FlushToFile
    BY <1>6 DEF Flush, Writing, HeaderDone
  <2> QED
    BY <1>6, <2>1, FlushTypes DEF Flush
<1>7. CASE WriterStopCheck
  BY <1>7 DEF WriterStopCheck
<1>8. CASE WriterCleanup
  <2>1. writer \in Writing /\ FlushToFile
    BY <1>8 DEF WriterCleanup, Writing, HeaderDone
  <2> QED
    BY <1>8, <2>1, FlushTypes DEF WriterCleanup
<1>9. CASE RotateFile
  BY <1>9 DEF RotateFile
<1> QED
  BY <1>1, <1>2, <1>3, <1>4, <1>5, <1>6, <1>7, <1>8, <1>9 DEF Writer

-----------------------------------------------------------------------------
(* What the threads know *)

\* The initial states.
LEMMA InitThreads == Init => Threads
<1> SUFFICES ASSUME Init PROVE Threads
    OBVIOUS
<1>1. Handed /\ CurrentFile
  BY DEF Init, Handed, CurrentFile, Writing, HeaderDone
<1>2. Room
  BY SizeAssumption DEF SizeAssumption, Init, Room
<1> QED
  BY <1>1, <1>2 DEF Threads

\* exit() and an overrun change nothing but the process.
LEMMA ExitThreads ==
    ASSUME Threads, Exit \/ Undefined
    PROVE  Threads'
  BY DEF Threads, Handed, Room, CurrentFile, Exit, Undefined, Halt, threadVars, sharedVars, readVars,
         writeVars, fileVars, chunkVars, dequeueVars

\* main, the signal and the clock, which only makes the next file younger.
LEMMA MainThreads ==
    ASSUME Types, Threads, CreateWriter \/ InstallHandlers \/ Join \/ SignalArrives
                             \/ StopReader \/ StopWriter \/ Tick
    PROVE  Threads'
<1> USE DEF Threads, Handed, Room
<1> USE DEF threadVars, sharedVars, readVars, writeVars, fileVars, chunkVars, dequeueVars
<1>1. CASE CreateWriter
  <2>1. CASE Exit
    BY <2>1, ExitThreads
  <2>2. CASE ~Exit
    BY <1>1, <2>2 DEF CreateWriter, CurrentFile, Writing, HeaderDone
  <2> QED
    BY <2>1, <2>2
<1>2. CASE InstallHandlers
  BY <1>2 DEF InstallHandlers, CurrentFile
<1>3. CASE Join
  BY <1>3 DEF Join, CurrentFile
<1>4. CASE SignalArrives
  BY <1>4 DEF SignalArrives, CurrentFile
<1>5. CASE StopReader
  BY <1>5 DEF StopReader, CurrentFile
<1>6. CASE StopWriter
  BY <1>6 DEF StopWriter, CurrentFile
<1>7. CASE Tick
  <2>1. now \in Int /\ now' = now + 1 /\ m_pretime \in Int
    BY <1>7 DEF Tick, Types, TypeOK
  <2>2. \A f \in DOMAIN files : f \in Int
    BY DEF Types, TypeOK
  <2>3. (\A f \in DOMAIN files : m_filerotate /\ f < now)
          => \A f \in DOMAIN files : m_filerotate /\ f < now'
    BY <2>1, <2>2
  <2>4. m_pretime <= now'
    BY <2>1 DEF CurrentFile
  <2> QED
    BY <1>7, <2>3, <2>4 DEF Tick, CurrentFile
<1> QED
  BY <1>1, <1>2, <1>3, <1>4, <1>5, <1>6, <1>7

\* The reader: one packet in hand, the last one counted.
LEMMA ReaderThreads ==
    ASSUME Types, Threads, Reader
    PROVE  Threads'
<1> USE DEF Threads
<1> USE DEF mainVars, sharedVars, readVars, writeVars, fileVars, chunkVars, dequeueVars
<1>1. CASE Exit \/ Undefined
  BY <1>1, ExitThreads
<1>2. CASE ~Exit /\ ~Undefined
  <2>1. Room' /\ CurrentFile'
    BY <1>2 DEF Reader, PcapStartUp, FetchMagic, FetchLink, ReaderStopCheck,
                PcapNextEx, WritePKTtoBuf, Room, CurrentFile
  <2>2. Handed'
    BY <1>2 DEF Reader, PcapStartUp, FetchMagic, FetchLink, ReaderStopCheck,
                PcapNextEx, WritePKTtoBuf, Handed
  <2> QED
    BY <2>1, <2>2
<1> QED
  BY <1>1, <1>2

\* The writer: the chunk has room again after every flush, and a file is created
\* only when the clock has passed every other.
LEMMA WriterThreads ==
    ASSUME Types, Threads, Writer
    PROVE  Threads'
<1> USE DEF Threads
<1> USE DEF mainVars, sharedVars, readVars, writeVars, fileVars, chunkVars, dequeueVars
<1>1. CASE Exit
  BY <1>1, ExitThreads
<1>2. CASE ~Exit
  <2>1. Handed'
    BY <1>2 DEF Writer, CreateNewFile, CheckMagic, CannedLink, WriteHeader, TryDequeue,
                Flush, WriterStopCheck, WriterCleanup, RotateFile, Handed
  <2>2. Room'
    <3>1. CASE TryDequeue /\ buffer_ # <<>>
      <4>1. Head(buffer_).caplen \in 0..PRACTICAL_LEN
        BY <3>1, HeadAndTail, SizeAssumption DEF Types, TypeOK, Packet, Fitting, SizeAssumption
      <4>2. bufferLen' = bufferLen + HeaderSize + Head(buffer_).caplen /\ bufferLen \in Nat
        BY <3>1 DEF TryDequeue, Types, TypeOK
      <4>3. bufferLen + StructSize <= CHUNKSIZE
        BY <3>1 DEF TryDequeue, Room
      <4>4. bufferLen' <= CHUNKSIZE
        BY <4>1, <4>2, <4>3, SizeAssumption DEF SizeAssumption
      <4>5. writer' = IF bufferLen' + StructSize > CHUNKSIZE THEN "flush" ELSE "rotate"
        BY <3>1 DEF TryDequeue, NeedsFlush
      <4>6. bufferLen' + StructSize \in Int
        BY <4>1, <4>2, SizeAssumption DEF SizeAssumption
      <4> QED
        BY <4>4, <4>5, <4>6, SizeAssumption DEF Room, SizeAssumption
    <3>2. CASE Flush \/ WriterCleanup
      <4>1. bufferLen' = 0
        BY <3>2 DEF Flush, WriterCleanup, FlushToFile
      <4> QED
        BY <4>1, SizeAssumption DEF Room, SizeAssumption
    <3>3. CASE TryDequeue /\ buffer_ = <<>>
      BY <3>3 DEF TryDequeue, Room
    <3>4. CASE CreateNewFile \/ CheckMagic \/ CannedLink \/ WriteHeader
                 \/ WriterStopCheck \/ RotateFile
      BY <1>2, <3>4 DEF CreateNewFile, CheckMagic, CannedLink, WriteHeader,
                        WriterStopCheck, RotateFile, Room
    <3> QED
      BY <3>1, <3>2, <3>3, <3>4 DEF Writer
  <2>3. CurrentFile'
    <3>1. CASE CreateNewFile
      <4> DEFINE name == IF m_filerotate THEN now ELSE 0
      <4>1. /\ m_pretime' = IF m_filerotate THEN now ELSE m_pretime
            /\ FP' = name /\ DOMAIN files' = DOMAIN files \cup {name}
            /\ writer' = "magic" /\ now' = now /\ m_filerotate' = m_filerotate
            /\ main' = main /\ writer = "create"
        BY <1>2, <3>1 DEF CreateNewFile
      <4>2. \A f \in DOMAIN files : m_filerotate /\ f < now /\ f \in Int
        BY <4>1 DEF CurrentFile, Types, TypeOK
      <4>3. now \in Int /\ name \in Int
        BY DEF Types, TypeOK
      <4>4. \A f \in DOMAIN files' : f <= FP'
        BY <4>1, <4>2, <4>3
      <4>5. FP' \in DOMAIN files' /\ (m_filerotate' => FP' = m_pretime')
        BY <4>1
      <4>6. m_pretime' <= now' /\ main' # "sleep"
        BY <4>1, <4>3 DEF CurrentFile
      <4> QED
        BY <4>1, <4>4, <4>5, <4>6 DEF CurrentFile, Writing, HeaderDone
    <3>2. CASE Flush \/ WriterCleanup
      <4>1. writer \in Writing /\ FlushToFile
        BY <3>2 DEF Flush, WriterCleanup, Writing, HeaderDone
      <4>2. DOMAIN files' = DOMAIN files
        BY <4>1, FlushTypes
      <4> QED
        BY <3>2, <4>2 DEF Flush, WriterCleanup, CurrentFile, Writing, HeaderDone
    <3>3. CASE WriteHeader
      <4>1. DOMAIN files' = DOMAIN files
        BY <3>3 DEF WriteHeader
      <4> QED
        BY <3>3, <4>1 DEF WriteHeader, CurrentFile, Writing, HeaderDone
    <3>4. CASE RotateFile
      <4>1. /\ now \in Int /\ m_pretime \in Int /\ m_interval \in Nat
            /\ \A f \in DOMAIN files : f \in Int
        BY OptionsAssumption DEF OptionsAssumption, Types, TypeOK
      <4>2. /\ FP \in DOMAIN files /\ \A f \in DOMAIN files : f <= FP
            /\ m_filerotate => FP = m_pretime
        BY <3>4 DEF RotateFile, CurrentFile, Writing, HeaderDone
      <4>3. m_filerotate /\ Expired => \A f \in DOMAIN files : m_filerotate /\ f < now
        BY <4>1, <4>2 DEF Expired
      <4> QED
        BY <3>4, <4>2, <4>3 DEF RotateFile, CurrentFile, Writing, HeaderDone
    <3>5. CASE CheckMagic \/ CannedLink \/ TryDequeue \/ WriterStopCheck
      BY <3>5 DEF CheckMagic, CannedLink, TryDequeue, WriterStopCheck, CurrentFile,
                  Writing, HeaderDone
    <3> QED
      BY <3>1, <3>2, <3>3, <3>4, <3>5 DEF Writer
  <2> QED
    BY <2>1, <2>2, <2>3
<1> QED
  BY <1>1, <1>2

-----------------------------------------------------------------------------
(* The order of packets *)

\* The initial states.
LEMMA InitOrder == Init => Order
<1> SUFFICES ASSUME Init PROVE Order
    OBVIOUS
<1>1. DOMAIN files = {} /\ tochunk = <<>> /\ buffer_ = <<>> /\ capture = <<>>
  BY DEF Init
<1>2. InOrder
  BY <1>1 DEF InOrder, HeaderFirst, Increasing, Before
<1>3. Behind
  BY <1>1 DEF Init, Behind, Older
<1>4. HeaderKnown /\ Drained /\ Closed
  BY DEF Init, HeaderKnown, HeaderDone, Drained, Closed
<1> QED
  BY <1>2, <1>3, <1>4 DEF Order

\* A step that moves no packet keeps their order.
LEMMA OrderKept ==
    ASSUME Order, UNCHANGED <<files, tochunk, buffer_, capture, countPkt, lastTurn>>
    PROVE  InOrder' /\ Behind'
<1>1. InOrder'
  BY DEF Order, InOrder, HeaderFirst, Body, Increasing, Before
<1>2. Behind'
  BY DEF Order, Behind, Older, Body
<1> QED
  BY <1>1, <1>2

\* Nor do main, the signal, the clock or the end of the process.
LEMMA MainOrder ==
    ASSUME Types, Threads, Order,
           \/ CreateWriter \/ InstallHandlers \/ Join \/ SignalArrives
           \/ StopReader \/ StopWriter \/ Tick \/ Exit \/ Undefined
    PROVE  Order'
<1> USE DEF threadVars, sharedVars, readVars, writeVars, fileVars, chunkVars, dequeueVars
<1>1. /\ UNCHANGED <<files, tochunk, buffer_, capture, countPkt, lastTurn, fileheader, FP>>
      /\ writer' = writer \/ writer' = "create"
  BY DEF CreateWriter, InstallHandlers, Join, SignalArrives, StopReader, StopWriter,
         Tick, Exit, Undefined, Halt
<1>2. InOrder' /\ Behind'
  BY <1>1, OrderKept
<1>3. HeaderKnown' /\ Drained' /\ Closed'
  BY <1>1 DEF Order, HeaderKnown, HeaderDone, Drained, Closed
<1> QED
  BY <1>2, <1>3 DEF Order

\* The reader: what it captures is younger than all the rest, and stays so until
\* it is at the end of the queue.
LEMMA ReaderOrder ==
    ASSUME Types, Threads, Order, Reader
    PROVE  Order'
<1> USE DEF mainVars, sharedVars, readVars, writeVars, fileVars, chunkVars, dequeueVars
<1>0. CASE Exit \/ Undefined
  BY <1>0, MainOrder
<1>1. CASE PcapStartUp /\ ~Exit
  <2>1. UNCHANGED <<files, tochunk, buffer_, capture, countPkt, lastTurn, fileheader, FP,
                    writer>>
    BY <1>1 DEF PcapStartUp
  <2> QED
    BY <2>1, OrderKept DEF Order, HeaderKnown, Drained, Closed
<1>2. CASE FetchMagic \/ FetchLink
  <2>1. UNCHANGED <<files, tochunk, buffer_, capture, countPkt, lastTurn, FP, writer>>
    BY <1>2 DEF FetchMagic, FetchLink
  <2>2. fileheader.magic => fileheader'.magic
    <3>1. fileheader \in Header
      BY DEF Types, TypeOK, Header
    <3> QED
      BY <1>2, <3>1, HeaderUpdates DEF FetchMagic, FetchLink
  <2> QED
    BY <2>1, <2>2, OrderKept DEF Order, HeaderKnown, Drained, Closed
<1>3. CASE (ReaderStopCheck \/ PcapNextEx) /\ ~Exit /\ ~Undefined /\ capture' = capture /\ countPkt' = countPkt
  <2>1. UNCHANGED <<files, tochunk, buffer_, capture, countPkt, lastTurn, fileheader, FP,
                    writer>>
    BY <1>3 DEF ReaderStopCheck, PcapNextEx
  <2> QED
    BY <2>1, OrderKept DEF Order, HeaderKnown, Drained, Closed
<1>4. CASE PcapNextEx /\ ~Exit /\ ~Undefined /\ ~(capture' = capture /\ countPkt' = countPkt)
  <2>1. /\ UNCHANGED <<files, tochunk, buffer_, lastTurn, fileheader, FP, writer>>
        /\ countPkt' = countPkt + 1
        /\ capture = <<>> /\ countPkt \in Nat
    BY <1>4 DEF PcapNextEx, Threads, Handed, Types, TypeOK
  <2>2. PICK c \in Fitting : capture' = <<[n |-> countPkt + 1, caplen |-> c]>>
    BY <1>4 DEF PcapNextEx
  <2>3. Len(capture') = 1 /\ DOMAIN capture' = {1} /\ capture'[1].n = countPkt + 1
    BY <2>2
  <2>4. Len(capture) = 0 /\ countPkt - 0 = countPkt /\ countPkt + 1 - 1 = countPkt
    BY <2>1
  <2>5. Older(buffer_) /\ Older(tochunk) /\ \A f \in DOMAIN files : Older(Body(f))
    BY DEF Order, Behind
  <2>6. Behind'
    BY <2>1, <2>3, <2>4 DEF Order, Behind, Older, Body
  <2>7. Before(buffer_, capture')
    <3>1. \A i \in DOMAIN buffer_ : buffer_[i].n \in Int /\ buffer_[i].n <= countPkt
      BY <2>1, <2>4, <2>5, PacketNumber DEF Older, Types, TypeOK
    <3> QED
      BY <2>1, <2>3, <3>1 DEF Before
  <2>8. InOrder'
    BY <2>1, <2>7 DEF Order, InOrder, HeaderFirst, Body, Before, Increasing
  <2> QED
    BY <2>1, <2>6, <2>8 DEF Order, HeaderKnown, Drained, Closed
<1>5. CASE WritePKTtoBuf
  <2>1. PICK c \in Fitting : capture = <<[n |-> countPkt, caplen |-> c]>>
    BY <1>5 DEF WritePKTtoBuf, Threads, Handed
  <2>2. Len(capture) = 1 /\ DOMAIN capture = {1} /\ capture[1].n = countPkt
    BY <2>1
  <2>3. /\ capture' = <<>> /\ countPkt' = countPkt /\ countPkt \in Nat
        /\ UNCHANGED <<files, tochunk, lastTurn, fileheader, FP, writer>>
        /\ buffer_' = buffer_ \o capture \/ buffer_' = buffer_
    BY <1>5 DEF WritePKTtoBuf, Types, TypeOK
  <2>4. Len(capture') = 0 /\ DOMAIN capture' = {} /\ countPkt - 0 = countPkt
    BY <2>3
  <2>5. capture \in Seq(Packet) /\ buffer_ \in Seq(Packet) /\ tochunk \in Seq(Packet)
    BY DEF Types, TypeOK
  <2>6. \A f \in DOMAIN files : Body(f) \in Seq(Record)
    BY DEF Types, FilesOK, File, Body
  <2>7. \A T \in {Packet, Record} : \A s \in Seq(T) : Older(s) =>
           Before(s, capture) /\ \A i \in DOMAIN s : s[i].n <= countPkt
    <3> SUFFICES ASSUME NEW T \in {Packet, Record}, NEW s \in Seq(T), Older(s)
                 PROVE  Before(s, capture) /\ \A i \in DOMAIN s : s[i].n <= countPkt
        OBVIOUS
    <3>1. \A i \in DOMAIN s : s[i].n \in Int /\ s[i].n <= countPkt - 1
      BY <2>2, PacketNumber DEF Older
    <3> QED
      BY <2>2, <2>3, <3>1 DEF Before
  <2>8. Increasing(capture)
    BY <2>2 DEF Increasing
  <2>9. /\ Older(buffer_) /\ Older(tochunk) /\ \A f \in DOMAIN files : Older(Body(f))
        /\ lastTurn <= countPkt - 1 /\ lastTurn \in Nat
    BY <2>2 DEF Order, Behind, Types, TypeOK
  <2>10. Behind'
    <3>1. \A i \in DOMAIN buffer_' : buffer_'[i].n <= countPkt
      <4>1. CASE buffer_' = buffer_
        BY <2>5, <2>7, <2>9, <4>1
      <4>2. CASE buffer_' = buffer_ \o capture
        BY <2>2, <2>3, <2>5, <2>7, <2>9, <4>2, ConcatElements
      <4> QED
        BY <2>3, <4>1, <4>2
    <3>2. /\ \A i \in DOMAIN tochunk : tochunk[i].n <= countPkt
          /\ \A f \in DOMAIN files : \A i \in DOMAIN Body(f) : Body(f)[i].n <= countPkt
      BY <2>5, <2>6, <2>7, <2>9
    <3> QED
      BY <2>3, <2>4, <2>9, <3>1, <3>2 DEF Behind, Older, Body
  <2>11. InOrder'
    <3>1. Increasing(buffer_') /\ Before(tochunk, buffer_')
      BY <2>3, <2>5, <2>7, <2>8, <2>9, ConcatIncreasing, ConcatBefore DEF Order, InOrder
    <3>2. \A f \in DOMAIN files : Before(Body(f), buffer_')
      BY <2>3, <2>5, <2>6, <2>7, <2>9, ConcatBefore DEF Order, InOrder
    <3>3. Before(buffer_', capture')
      BY <2>4 DEF Before
    <3> QED
      BY <2>3, <3>1, <3>2, <3>3 DEF Order, InOrder, HeaderFirst, Body, Before, Increasing
  <2>12. Drained'
    <3>1. CASE buffer_' = buffer_
      BY <2>3, <3>1 DEF Order, Drained
    <3>2. CASE buffer_' = buffer_ \o capture
      BY <2>2, <2>3, <2>5, <2>9, <3>2, ConcatElements DEF Order, Drained
    <3> QED
      BY <2>3, <3>1, <3>2
  <2> QED
    BY <2>3, <2>10, <2>11, <2>12 DEF Order, HeaderKnown, Closed
<1> QED
  BY <1>0, <1>1, <1>2, <1>3, <1>4, <1>5 DEF Reader, ReaderStopCheck

\* Saving the chunk: what is saved is younger than every file and older than the
\* queue, and goes behind a header.
LEMMA FlushOrder ==
    ASSUME Types, Threads, Order, writer \in HeaderDone, FlushToFile,
           UNCHANGED <<buffer_, capture, countPkt, lastTurn, fileheader>>
    PROVE  /\ InOrder' /\ Behind'
           /\ files'[FP].header = files[FP].header
           /\ tochunk' = <<>>
<1>1. PICK k \in 0..Len(tochunk), m \in 0..Len(tochunk) :
        /\ m \in {k, k + 1}
        /\ files' = [files EXCEPT ![FP].body = @ \o Written(tochunk, k, m)]
        /\ tochunk' = <<>>
  BY DEF FlushToFile
<1> DEFINE saved == Written(tochunk, k, m)
<1>2. /\ FP \in DOMAIN files /\ \A f \in DOMAIN files : f \in Int /\ f <= FP
      /\ files[FP] \in File /\ files[FP].header.magic
  BY DEF Threads, CurrentFile, Writing, Types, TypeOK, FilesOK, Order, HeaderKnown
<1>3. /\ tochunk \in Seq(Packet) /\ saved \in Seq(Record) /\ buffer_ \in Seq(Packet)
      /\ capture \in Seq(Packet) /\ \A f \in DOMAIN files : Body(f) \in Seq(Record)
  BY Part DEF Types, TypeOK, FilesOK, File, Body
<1>4. /\ DOMAIN files' = DOMAIN files
      /\ files'[FP].body = Body(FP) \o saved
      /\ files'[FP].header = files[FP].header
      /\ \A f \in DOMAIN files : f # FP => files'[f] = files[f]
  BY <1>1, <1>2 DEF File, Body
<1>5. /\ Increasing(saved) /\ Before(saved, buffer_)
      /\ \A f \in DOMAIN files : Before(Body(f), saved)
  BY <1>3, PartOrder DEF Order, InOrder
<1>6. Older(saved)
  BY <1>3, Part DEF Order, Behind, Older
<1> HIDE DEF saved
<1>7. Increasing(Body(FP) \o saved)
  BY <1>2, <1>3, <1>5, ConcatIncreasing DEF Order, InOrder
<1>8. Before(Body(FP) \o saved, buffer_)
  BY <1>2, <1>3, <1>5, ConcatBefore DEF Order, InOrder
<1>9. \A i \in DOMAIN (Body(FP) \o saved) : (Body(FP) \o saved)[i].n <= countPkt - Len(capture)
  BY <1>2, <1>3, <1>6, ConcatElements DEF Order, Behind, Older
<1>10. \A f \in DOMAIN files : f < FP => Before(Body(f), Body(FP) \o saved)
  BY <1>2, <1>3, <1>5, ConcatBefore DEF Order, InOrder
<1>11. \A f \in DOMAIN files : ~(FP < f)
  BY <1>2
<1>12. Behind'
  <2>1. Older(buffer_)' /\ Older(tochunk)' /\ (lastTurn <= countPkt - Len(capture))'
    BY <1>1 DEF Order, Behind, Older
  <2>2. ASSUME NEW f \in DOMAIN files'
        PROVE  Older(Body(f))'
    <3>1. CASE f = FP
      BY <1>4, <1>9, <3>1 DEF Older, Body
    <3>2. CASE f # FP
      BY <1>4, <2>2, <3>2 DEF Order, Behind, Older, Body
    <3> QED
      BY <3>1, <3>2
  <2> QED
    BY <2>1, <2>2 DEF Behind
<1>13. InOrder'
  <2>1. HeaderFirst'
    <3> SUFFICES ASSUME NEW f \in DOMAIN files', files'[f].body # <<>>
                 PROVE  files'[f].header.magic
        BY DEF HeaderFirst, Body
    <3>1. CASE f = FP
      BY <1>2, <1>4, <3>1
    <3>2. CASE f # FP
      BY <1>4, <3>2 DEF Order, InOrder, HeaderFirst, Body
    <3> QED
      BY <3>1, <3>2
  <2>2. ASSUME NEW f \in DOMAIN files'
        PROVE  /\ Increasing(files'[f].body) /\ Before(files'[f].body, <<>>)
               /\ Before(files'[f].body, buffer_)
    <3>1. CASE f = FP
      <4>1. files'[f].body = Body(FP) \o saved
        BY <1>4, <3>1
      <4>2. \A s : Before(s, <<>>)
        BY DEF Before
      <4> QED
        BY <1>7, <1>8, <4>1, <4>2
    <3>2. CASE f # FP
      BY <1>4, <2>2, <3>2 DEF Order, InOrder, Body, Before
    <3> QED
      BY <3>1, <3>2
  <2>3. ASSUME NEW f \in DOMAIN files', NEW g \in DOMAIN files', f < g
        PROVE  Before(files'[f].body, files'[g].body)
    <3>1. f # FP /\ files'[f].body = Body(f)
      BY <1>4, <1>11, <2>3 DEF Body
    <3>2. CASE g = FP
      BY <1>4, <1>10, <2>3, <3>1, <3>2
    <3>3. CASE g # FP
      BY <1>4, <2>3, <3>1, <3>3 DEF Order, InOrder, Body
    <3> QED
      BY <3>2, <3>3
  <2>4. Increasing(<<>>) /\ Before(<<>>, buffer_)
    BY DEF Increasing, Before
  <2>5. Increasing(buffer_) /\ Before(buffer_, capture)
    BY DEF Order, InOrder
  <2> QED
    <3>1. (/\ Increasing(tochunk) /\ Increasing(buffer_)
           /\ Before(tochunk, buffer_) /\ Before(buffer_, capture))'
      BY <1>1, <2>4, <2>5 DEF Increasing, Before
    <3>2. (\A f \in DOMAIN files : Increasing(Body(f)) /\ Before(Body(f), tochunk)
                                  /\ Before(Body(f), buffer_))'
      <4> SUFFICES ASSUME NEW f \in DOMAIN files'
                   PROVE  (/\ Increasing(Body(f)) /\ Before(Body(f), tochunk)
                           /\ Before(Body(f), buffer_))'
          OBVIOUS
      <4>1. Increasing(Body(f))'
        BY <2>2 DEF Body, Increasing
      <4>2. Before(Body(f), tochunk)' /\ Before(Body(f), buffer_)'
        BY <1>1, <2>2 DEF Body, Before
      <4> QED
        BY <4>1, <4>2
    <3>3. (\A f, g \in DOMAIN files : f < g => Before(Body(f), Body(g)))'
      BY <2>3 DEF Body, Before
    <3> QED
      BY <2>1, <3>1, <3>2, <3>3 DEF InOrder
<1> QED
  BY <1>1, <1>4, <1>12, <1>13

\* Taking an element from the queue into the chunk keeps the order.
LEMMA DequeueOrder ==
    ASSUME Types, Threads, Order, TryDequeue
    PROVE  Order'
<1> USE DEF mainVars, sharedVars, readVars, writeVars, fileVars, chunkVars, dequeueVars
<1>1. /\ UNCHANGED <<files, capture, countPkt, fileheader, FP>>
      /\ lastTurn' = countPkt - Len(capture) /\ countPkt \in Nat /\ writer = "loop"
  BY DEF TryDequeue, Types, TypeOK
<1>2. HeaderKnown' /\ Closed'
  BY <1>1 DEF TryDequeue, NeedsFlush, Order, HeaderKnown, HeaderDone, Closed
<1>3. lastTurn' <= (countPkt - Len(capture))'
  <2>1. Len(capture) \in Nat
    BY LenProperties DEF Types, TypeOK
  <2> QED
    BY <1>1, <2>1
<1>4. CASE buffer_ = <<>>
  <2>1. tochunk' = tochunk /\ buffer_' = <<>> /\ buffer_' = buffer_
    BY <1>4 DEF TryDequeue
  <2>2. Drained'
    BY <2>1 DEF Drained
  <2>3. InOrder'
    BY <1>1, <2>1 DEF Order, InOrder, HeaderFirst, Body, Increasing, Before
  <2>4. Behind'
    BY <1>1, <1>3, <2>1 DEF Order, Behind, Older, Body
  <2> QED
    BY <1>2, <2>2, <2>3, <2>4 DEF Order
<1>5. CASE buffer_ # <<>>
  <2> DEFINE p == Head(buffer_)
  <2>1. /\ tochunk' = Append(tochunk, p) /\ buffer_' = Tail(buffer_)
        /\ writer' \in {"flush", "rotate"}
    BY <1>5 DEF TryDequeue
  <2>2. /\ p \in Packet /\ Tail(buffer_) \in Seq(Packet) /\ p = buffer_[1]
        /\ 1 \in DOMAIN buffer_ /\ buffer_ \in Seq(Packet) /\ tochunk \in Seq(Packet)
    BY <1>5, HeadAndTail DEF Types, TypeOK
  <2> HIDE DEF p
  <2>3. tochunk' = tochunk \o <<p>> /\ <<p>> \in Seq(Packet)
    BY <2>1, <2>2, AppendIsConcat
  <2>4. /\ \A i \in DOMAIN Tail(buffer_) :
             i \in Int /\ i > 0 /\ i + 1 \in DOMAIN buffer_ /\ Tail(buffer_)[i] = buffer_[i + 1]
    BY <1>5, <2>2, HeadAndTail
  <2>5. DOMAIN <<p>> = {1} /\ <<p>>[1] = p
    OBVIOUS
  <2>6. /\ Increasing(tochunk) /\ Increasing(buffer_) /\ Before(tochunk, buffer_)
        /\ Before(buffer_, capture)
        /\ \A f \in DOMAIN files : Before(Body(f), tochunk) /\ Before(Body(f), buffer_)
        /\ Older(tochunk) /\ Older(buffer_)
    BY DEF Order, InOrder, Behind
  <2>7. Increasing(<<p>>) /\ Before(tochunk, <<p>>)
        /\ \A f \in DOMAIN files : Before(Body(f), <<p>>)
    BY <2>2, <2>5, <2>6 DEF Increasing, Before
  <2>8. Before(<<p>>, Tail(buffer_))
    BY <2>2, <2>4, <2>5, <2>6 DEF Increasing, Before
  <2>9. /\ Increasing(Tail(buffer_)) /\ Before(tochunk, Tail(buffer_))
        /\ Before(Tail(buffer_), capture)
        /\ \A f \in DOMAIN files : Before(Body(f), Tail(buffer_))
        /\ Older(Tail(buffer_))
    BY <2>4, <2>6 DEF Increasing, Before, Older
  <2>10. /\ Increasing(tochunk \o <<p>>) /\ Before(tochunk \o <<p>>, Tail(buffer_))
         /\ \A f \in DOMAIN files : Before(Body(f), tochunk \o <<p>>)
    BY <2>2, <2>3, <2>6, <2>7, <2>8, <2>9, ConcatIncreasing, ConcatBefore
  <2>11. Older(tochunk \o <<p>>)
    BY <2>2, <2>3, <2>5, <2>6, ConcatElements DEF Older
  <2>12. InOrder'
    BY <1>1, <2>1, <2>3, <2>9, <2>10, SMTT(20) DEF Order, InOrder, HeaderFirst, Body, Increasing, Before
  <2>13. Behind'
    BY <1>1, <1>3, <2>1, <2>3, <2>9, <2>11 DEF Order, Behind, Older, Body
  <2>14. Drained'
    BY <2>1 DEF Drained
  <2> QED
    BY <1>2, <2>12, <2>13, <2>14 DEF Order
<1> QED
  BY <1>4, <1>5

\* The writer: a file is created behind all others and gets its header first.
LEMMA WriterOrder ==
    ASSUME Types, Threads, Order, Writer
    PROVE  Order'
<1> USE DEF mainVars, sharedVars, readVars, writeVars, fileVars, chunkVars, dequeueVars
<1>0. CASE Exit
  BY <1>0, MainOrder
<1>1. CASE CreateNewFile /\ ~Exit
  <2> DEFINE name == IF m_filerotate THEN now ELSE 0
             empty == [header |-> NoHeader, body |-> <<>>]
  <2>1. /\ FP' = name /\ writer = "create" /\ writer' = "magic"
        /\ files' = [f \in DOMAIN files \cup {name} |->
                       IF f = name THEN empty ELSE files[f]]
        /\ UNCHANGED <<tochunk, buffer_, capture, countPkt, lastTurn>>
    BY <1>1 DEF CreateNewFile
  <2>2. \A f \in DOMAIN files : f \in Int /\ f < name
    BY <2>1 DEF Threads, CurrentFile, Types, TypeOK
  <2>3. empty.body = <<>> /\ name \in Int
    BY DEF Types, TypeOK
  <2> HIDE DEF name, empty
  <2>4. /\ DOMAIN files' = DOMAIN files \cup {name} /\ files'[name].body = <<>>
        /\ \A f \in DOMAIN files : f # name /\ files'[f] = files[f]
    BY <2>1, <2>2, <2>3
  <2>5. Behind'
    BY <2>1, <2>4 DEF Order, Behind, Older, Body
  <2>6. HeaderFirst'
    BY <2>4 DEF Order, InOrder, HeaderFirst, Body
  <2>7. \A f, g \in DOMAIN files' : f < g => Before(files'[f].body, files'[g].body)
    <3> SUFFICES ASSUME NEW f \in DOMAIN files', NEW g \in DOMAIN files', f < g
                 PROVE  Before(files'[f].body, files'[g].body)
        OBVIOUS
    <3>1. CASE f = name \/ g = name
      BY <2>4, <3>1 DEF Before
    <3>2. CASE f # name /\ g # name
      BY <2>4, <3>2 DEF Order, InOrder, Body
    <3> QED
      BY <3>1, <3>2
  <2>8. ASSUME NEW f \in DOMAIN files'
        PROVE  /\ Increasing(files'[f].body) /\ Before(files'[f].body, tochunk)
               /\ Before(files'[f].body, buffer_)
    <3>1. CASE f = name
      BY <2>4, <3>1 DEF Increasing, Before
    <3>2. CASE f # name
      BY <2>4, <2>8, <3>2 DEF Order, InOrder, Body
    <3> QED
      BY <3>1, <3>2
  <2>9. InOrder'
    <3>1. (/\ Increasing(tochunk) /\ Increasing(buffer_)
           /\ Before(tochunk, buffer_) /\ Before(buffer_, capture))'
      BY <2>1 DEF Order, InOrder, Increasing, Before
    <3>2. (\A f \in DOMAIN files : Increasing(Body(f)) /\ Before(Body(f), tochunk)
                                  /\ Before(Body(f), buffer_))'
      <4> SUFFICES ASSUME NEW f \in DOMAIN files'
                   PROVE  (/\ Increasing(Body(f)) /\ Before(Body(f), tochunk)
                           /\ Before(Body(f), buffer_))'
          OBVIOUS
      <4>1. Increasing(Body(f))'
        BY <2>8 DEF Body, Increasing
      <4>2. Before(Body(f), tochunk)' /\ Before(Body(f), buffer_)'
        BY <2>1, <2>8 DEF Body, Before
      <4> QED
        BY <4>1, <4>2
    <3>3. (\A f, g \in DOMAIN files : f < g => Before(Body(f), Body(g)))'
      BY <2>7 DEF Body, Before
    <3> QED
      BY <2>6, <3>1, <3>2, <3>3 DEF InOrder
  <2>10. HeaderKnown' /\ Drained' /\ Closed'
    BY <2>1 DEF HeaderKnown, HeaderDone, Drained, Closed
  <2> QED
    BY <2>5, <2>9, <2>10 DEF Order
<1>2. CASE CheckMagic \/ CannedLink
  <2>1. UNCHANGED <<files, tochunk, buffer_, capture, countPkt, lastTurn, FP>>
    BY <1>2 DEF CheckMagic, CannedLink
  <2>2. writer' \in {"canned", "header"} /\ fileheader'.magic
    <3>1. fileheader \in Header
      BY DEF Types, TypeOK, Header
    <3> QED
      BY <1>2, <3>1, HeaderUpdates DEF CheckMagic, CannedLink, Order, HeaderKnown
  <2> QED
    BY <2>1, <2>2, OrderKept DEF Order, HeaderKnown, HeaderDone, Drained, Closed
<1>3. CASE WriteHeader
  <2>1. /\ FP \in DOMAIN files /\ fileheader.magic /\ files[FP] \in File
        /\ FP' = FP /\ writer = "header" /\ writer' = "loop"
        /\ files' = [files EXCEPT ![FP].header = fileheader]
        /\ UNCHANGED <<tochunk, buffer_, capture, countPkt, lastTurn, fileheader>>
    BY <1>3 DEF WriteHeader, Threads, CurrentFile, Writing, Types, FilesOK, Order,
                HeaderKnown
  <2>2. /\ DOMAIN files' = DOMAIN files /\ files'[FP].header.magic
        /\ \A f \in DOMAIN files : files'[f].body = files[f].body
        /\ \A f \in DOMAIN files : f # FP => files'[f].header = files[f].header
    BY <2>1 DEF File
  <2>3. HeaderFirst'
    BY <2>2 DEF Order, InOrder, HeaderFirst, Body
  <2>4. InOrder'
    BY <2>1, <2>2, <2>3 DEF Order, InOrder, Body, Before, Increasing
  <2>5. Behind'
    BY <2>1, <2>2 DEF Order, Behind, Older, Body
  <2> QED
    BY <2>1, <2>2, <2>4, <2>5 DEF Order, HeaderKnown, Drained, Closed
<1>4. CASE TryDequeue
  BY <1>4, DequeueOrder
<1>5. CASE Flush \/ WriterCleanup
  <2>1. /\ writer \in HeaderDone /\ FlushToFile
        /\ UNCHANGED <<buffer_, capture, countPkt, lastTurn, fileheader>>
    BY <1>5 DEF Flush, WriterCleanup, HeaderDone
  <2>2. /\ InOrder' /\ Behind' /\ files'[FP].header = files[FP].header
        /\ tochunk' = <<>>
    BY <2>1, FlushOrder
  <2>3. CASE Flush
    BY <2>1, <2>2, <2>3 DEF Flush, Order, HeaderKnown, Drained, Closed
  <2>4. CASE WriterCleanup
    BY <2>1, <2>2, <2>4 DEF WriterCleanup, Order, HeaderKnown, HeaderDone, Drained, Closed
  <2> QED
    BY <1>5, <2>3, <2>4
<1>6. CASE WriterStopCheck \/ RotateFile
  <2>1. UNCHANGED <<files, tochunk, buffer_, capture, countPkt, lastTurn, fileheader, FP>>
    BY <1>6 DEF WriterStopCheck, RotateFile
  <2>2. writer \in {"stop", "rotate"} /\ writer' \in {"cleanup", "rotate", "create", "loop"}
        /\ (writer' = "cleanup" => writer = "stop")
    BY <1>6 DEF WriterStopCheck, RotateFile
  <2> QED
    BY <2>1, <2>2, OrderKept DEF Order, HeaderKnown, HeaderDone, Drained, Closed
<1> QED
  BY <1>0, <1>1, <1>2, <1>3, <1>4, <1>5, <1>6 DEF Writer

-----------------------------------------------------------------------------
(* No packet is lost unseen *)

\* What is in a concatenation is in one of its parts.
LEMMA ConcatNumbers ==
    ASSUME NEW T, NEW s \in Seq(T), NEW t \in Seq(T)
    PROVE  Numbers(s \o t) = Numbers(s) \cup Numbers(t)
<1>1. /\ DOMAIN s = 1..Len(s) /\ DOMAIN t = 1..Len(t) /\ Len(s) \in Nat /\ Len(t) \in Nat
      /\ DOMAIN (s \o t) = 1..(Len(s) + Len(t))
  BY ConcatProperties, LenProperties
<1>2. \A i \in DOMAIN (s \o t) : (s \o t)[i] = IF i <= Len(s) THEN s[i] ELSE t[i - Len(s)]
  BY <1>1, ConcatProperties
<1>3. \A i \in DOMAIN s : i \in DOMAIN (s \o t) /\ (s \o t)[i] = s[i]
  BY <1>1, <1>2
<1>4. \A i \in DOMAIN t : i + Len(s) \in DOMAIN (s \o t) /\ (s \o t)[i + Len(s)] = t[i]
  <2> SUFFICES ASSUME NEW i \in DOMAIN t
               PROVE  i + Len(s) \in DOMAIN (s \o t) /\ (s \o t)[i + Len(s)] = t[i]
      OBVIOUS
  <2>1. i + Len(s) \in DOMAIN (s \o t) /\ ~(i + Len(s) <= Len(s)) /\ i + Len(s) - Len(s) = i
    BY <1>1
  <2> QED
    BY <1>2, <2>1
<1>5. Numbers(s \o t) \subseteq Numbers(s) \cup Numbers(t)
  BY ConcatElements DEF Numbers
<1>6. Numbers(s) \subseteq Numbers(s \o t)
  BY <1>3 DEF Numbers
<1>7. Numbers(t) \subseteq Numbers(s \o t)
  BY <1>4 DEF Numbers
<1> QED
  BY <1>5, <1>6, <1>7

\* The numbers of one packet, and of none.
LEMMA FewNumbers == Numbers(<<>>) = {} /\ \A p : Numbers(<<p>>) = {p.n}
  BY DEF Numbers

\* What is taken from the front of a sequence, and the rest.
LEMMA HeadNumbers ==
    ASSUME NEW s \in Seq(Packet), s # <<>>
    PROVE  Numbers(s) = {Head(s).n} \cup Numbers(Tail(s))
<1>1. Numbers(s) \subseteq {Head(s).n} \cup Numbers(Tail(s))
  <2> SUFFICES ASSUME NEW i \in DOMAIN s
               PROVE  s[i].n \in {Head(s).n} \cup Numbers(Tail(s))
      BY DEF Numbers
  <2>1. CASE i = 1
    BY <2>1, HeadAndTail
  <2>2. CASE i # 1
    <3>1. i - 1 \in DOMAIN Tail(s) /\ Tail(s)[i - 1] = s[i]
      BY <2>2, HeadAndTail
    <3> QED
      BY <3>1 DEF Numbers
  <2> QED
    BY <2>1, <2>2
<1>2. Head(s).n \in Numbers(s)
  BY HeadAndTail DEF Numbers
<1>3. Numbers(Tail(s)) \subseteq Numbers(s)
  BY HeadAndTail DEF Numbers
<1> QED
  BY <1>1, <1>2, <1>3

\* A short write: what is in the file, torn or whole, and what is reported.
LEMMA PartNumbers ==
    ASSUME NEW s \in Seq(Packet), NEW k \in 0..Len(s), NEW m \in 0..Len(s),
           m \in {k, k + 1}
    PROVE  Numbers(s) = Numbers(Written(s, k, m)) \cup {s[i].n : i \in k + 1..Len(s)}
<1>1. DOMAIN s = 1..Len(s) /\ Len(s) \in Nat /\ k \in Nat /\ k <= Len(s) /\ m \in Nat
  BY LenProperties
<1>2. /\ DOMAIN Written(s, k, m) = 1..m
      /\ \A i \in 1..m : Written(s, k, m)[i].n = s[i].n
  BY Part
<1>3. 1..Len(s) = 1..m \cup (k + 1..Len(s))
  BY <1>1
<1>4. Numbers(Written(s, k, m)) = {s[i].n : i \in 1..m}
  BY <1>2 DEF Numbers
<1>5. Numbers(s) = {s[i].n : i \in 1..m} \cup {s[i].n : i \in k + 1..Len(s)}
  BY <1>1, <1>3 DEF Numbers
<1> QED
  BY <1>4, <1>5

\* The initial states.
LEMMA InitAccounted == Init => Accounted
<1> SUFFICES ASSUME Init PROVE Accounted
    OBVIOUS
<1>1. DOMAIN files = {}
  BY DEF Init
<1>2. InFiles = {}
  BY <1>1 DEF InFiles
<1>3. 1..countPkt = {}
  BY DEF Init
<1> QED
  BY <1>2, <1>3, FewNumbers DEF Init, Accounted

\* A step that moves no packet.
LEMMA AccountedKept ==
    ASSUME Accounted, UNCHANGED <<files, tochunk, buffer_, capture, countPkt, dropped, unwritten>>
    PROVE  Accounted'
  BY DEF Accounted, InFiles, Body, Numbers

\* A write: nothing leaves the files, and what the chunk held is in them or lost.
LEMMA FlushAccounted ==
    ASSUME Types, Threads, Accounted, writer \in Writing, FlushToFile,
           UNCHANGED <<buffer_, capture, countPkt, dropped>>
    PROVE  Accounted'
<1>1. PICK k \in 0..Len(tochunk), m \in 0..Len(tochunk) :
        /\ m \in {k, k + 1}
        /\ files' = [files EXCEPT ![FP].body = @ \o Written(tochunk, k, m)]
        /\ unwritten' = unwritten \cup {tochunk[i].n : i \in k + 1..Len(tochunk)}
        /\ tochunk' = <<>>
  BY DEF FlushToFile
<1> DEFINE saved == Written(tochunk, k, m)
           lost == {tochunk[i].n : i \in k + 1..Len(tochunk)}
<1>2. /\ FP \in DOMAIN files /\ files[FP] \in File /\ Body(FP) \in Seq(Record)
      /\ tochunk \in Seq(Packet) /\ saved \in Seq(Record)
  BY Part DEF Threads, CurrentFile, Types, TypeOK, FilesOK, File, Body
<1>3. Numbers(tochunk) = Numbers(saved) \cup lost
  BY <1>1, <1>2, PartNumbers
<1>4. /\ DOMAIN files' = DOMAIN files /\ files'[FP].body = Body(FP) \o saved
      /\ \A f \in DOMAIN files : f # FP => files'[f] = files[f]
  BY <1>1, <1>2 DEF File, Body
<1> HIDE DEF saved
<1>5. Numbers(files'[FP].body) = Numbers(Body(FP)) \cup Numbers(saved)
  BY <1>2, <1>4, ConcatNumbers
<1>6. InFiles' = InFiles \cup Numbers(saved)
  <2>1. ASSUME NEW f \in DOMAIN files
        PROVE  /\ Numbers(Body(f)) \subseteq Numbers(files'[f].body)
               /\ Numbers(files'[f].body) \subseteq Numbers(Body(f)) \cup Numbers(saved)
    <3>1. CASE f = FP
      BY <1>5, <3>1
    <3>2. CASE f # FP
      BY <1>4, <3>2 DEF Body
    <3> QED
      BY <3>1, <3>2
  <2> QED
    <3>1. InFiles' \subseteq InFiles \cup Numbers(saved)
      BY <1>4, <2>1 DEF InFiles, Body
    <3>2. InFiles \subseteq InFiles'
      BY <1>4, <2>1 DEF InFiles, Body
    <3>3. Numbers(saved) \subseteq InFiles'
      BY <1>2, <1>4, <1>5 DEF InFiles, Body
    <3> QED
      BY <3>1, <3>2, <3>3
<1>7. unwritten' = unwritten \cup lost /\ Numbers(tochunk') = {}
  BY <1>1, FewNumbers
<1>8. 1..countPkt = InFiles \cup Numbers(tochunk) \cup Numbers(buffer_) \cup Numbers(capture)
                    \cup dropped \cup unwritten
  BY DEF Accounted
<1> HIDE DEF lost
<1>9. 1..countPkt = InFiles \cup Numbers(saved) \cup Numbers(tochunk') \cup Numbers(buffer_)
                    \cup Numbers(capture) \cup dropped \cup unwritten'
  BY <1>3, <1>7, <1>8
<1> QED
  BY <1>6, <1>9 DEF Accounted, InFiles, Body

\* The reader's packet is counted when it is captured, and dropped or enqueued.
LEMMA ReaderAccounted ==
    ASSUME Types, Threads, Accounted, PcapNextEx \/ WritePKTtoBuf
    PROVE  Accounted'
<1> USE DEF mainVars, sharedVars, readVars, writeVars, fileVars, chunkVars, dequeueVars
<1>1. 1..countPkt = InFiles \cup Numbers(tochunk) \cup Numbers(buffer_) \cup Numbers(capture)
                    \cup dropped \cup unwritten
  BY DEF Accounted
<1>2. CASE UNCHANGED <<files, tochunk, buffer_, capture, countPkt, dropped, unwritten>>
  BY <1>2, AccountedKept
<1>3. CASE PcapNextEx /\ ~UNCHANGED <<files, tochunk, buffer_, capture, countPkt, dropped,
                                      unwritten>>
  <2>1. /\ UNCHANGED <<files, tochunk, buffer_, dropped, unwritten>>
        /\ countPkt' = countPkt + 1 /\ capture = <<>> /\ countPkt \in Nat
    BY <1>3 DEF PcapNextEx, Exit, Undefined, Halt, threadVars, Threads, Handed, Types, TypeOK
  <2>2. PICK c \in Fitting : capture' = <<[n |-> countPkt + 1, caplen |-> c]>>
    BY <1>3 DEF PcapNextEx, Exit, Undefined, Halt, threadVars
  <2>3. Numbers(capture) = {} /\ Numbers(capture') = {countPkt + 1}
    BY <2>1, <2>2, FewNumbers
  <2>4. 1..(countPkt + 1) = (1..countPkt) \cup {countPkt + 1}
    BY <2>1
  <2>5. 1..countPkt' = InFiles \cup Numbers(tochunk) \cup Numbers(buffer_) \cup Numbers(capture')
                       \cup dropped \cup unwritten
    BY <1>1, <2>1, <2>3, <2>4
  <2> QED
    BY <2>1, <2>5 DEF Accounted, InFiles, Body
<1>4. CASE WritePKTtoBuf
  <2>1. PICK c \in Fitting : capture = <<[n |-> countPkt, caplen |-> c]>>
    BY <1>4 DEF WritePKTtoBuf, Threads, Handed
  <2>2. Numbers(capture) = {countPkt} /\ capture[1].n = countPkt
    BY <2>1, FewNumbers
  <2>3. /\ UNCHANGED <<files, tochunk, countPkt, unwritten>> /\ capture' = <<>>
        /\ \/ buffer_' = buffer_ \o capture /\ dropped' = dropped
           \/ dropped' = dropped \cup {countPkt} /\ buffer_' = buffer_
    BY <1>4, <2>2 DEF WritePKTtoBuf
  <2>4. Numbers(buffer_ \o capture) = Numbers(buffer_) \cup Numbers(capture)
    BY ConcatNumbers DEF Types, TypeOK
  <2>5. Numbers(capture') = {}
    BY <2>3, FewNumbers
  <2>6. 1..countPkt = InFiles \cup Numbers(tochunk) \cup Numbers(buffer_') \cup Numbers(capture')
                      \cup dropped' \cup unwritten
    BY <1>1, <2>2, <2>3, <2>4, <2>5
  <2> QED
    BY <2>3, <2>6 DEF Accounted, InFiles, Body
<1> QED
  BY <1>2, <1>3, <1>4

\* The writer's packets: from the queue to the chunk and on into a file that is
\* never emptied.
LEMMA WriterAccounted ==
    ASSUME Types, Threads, Accounted, Writer
    PROVE  Accounted'
<1> USE DEF mainVars, sharedVars, readVars, writeVars, fileVars, chunkVars, dequeueVars
<1>0. 1..countPkt = InFiles \cup Numbers(tochunk) \cup Numbers(buffer_) \cup Numbers(capture)
                    \cup dropped \cup unwritten
  BY DEF Accounted
<1>1. CASE CreateNewFile /\ ~Exit
  <2> DEFINE name == IF m_filerotate THEN now ELSE 0
             empty == [header |-> NoHeader, body |-> <<>>]
  <2>1. /\ writer = "create"
        /\ files' = [f \in DOMAIN files \cup {name} |->
                       IF f = name THEN empty ELSE files[f]]
        /\ UNCHANGED <<tochunk, buffer_, capture, countPkt, dropped, unwritten>>
    BY <1>1 DEF CreateNewFile
  <2>2. \A f \in DOMAIN files : f \in Int /\ f < name
    BY <2>1 DEF Threads, CurrentFile, Types, TypeOK
  <2>3. empty.body = <<>> /\ name \in Int
    BY DEF Types, TypeOK
  <2> HIDE DEF name, empty
  <2>4. /\ DOMAIN files' = DOMAIN files \cup {name} /\ Numbers(files'[name].body) = {}
        /\ \A f \in DOMAIN files : files'[f] = files[f]
    BY <2>1, <2>2, <2>3, FewNumbers
  <2>5. InFiles' = InFiles
    BY <2>4 DEF InFiles, Body
  <2> QED
    BY <1>0, <2>1, <2>5 DEF Accounted, InFiles, Body
<1>2. CASE WriteHeader
  <2>1. /\ files' = [files EXCEPT ![FP].header = fileheader]
        /\ UNCHANGED <<tochunk, buffer_, capture, countPkt, dropped, unwritten>>
        /\ FP \in DOMAIN files /\ files[FP] \in File
    BY <1>2 DEF WriteHeader, Threads, CurrentFile, Writing, Types, FilesOK
  <2>2. DOMAIN files' = DOMAIN files /\ \A f \in DOMAIN files : files'[f].body = files[f].body
    BY <2>1 DEF File
  <2>3. InFiles' = InFiles
    BY <2>2 DEF InFiles, Body
  <2> QED
    BY <1>0, <2>1, <2>3 DEF Accounted, InFiles, Body
<1>3. CASE TryDequeue /\ buffer_ # <<>>
  <2> DEFINE p == Head(buffer_)
  <2>1. /\ tochunk' = Append(tochunk, p) /\ buffer_' = Tail(buffer_)
        /\ UNCHANGED <<files, capture, countPkt, dropped, unwritten>>
    BY <1>3 DEF TryDequeue
  <2>2. p \in Packet /\ tochunk \in Seq(Packet)
    BY <1>3, HeadAndTail DEF Types, TypeOK
  <2>3. Numbers(buffer_) = {p.n} \cup Numbers(buffer_')
    BY <1>3, <2>1, HeadNumbers DEF Types, TypeOK
  <2> HIDE DEF p
  <2>4. tochunk' = tochunk \o <<p>> /\ <<p>> \in Seq(Packet)
    BY <2>1, <2>2, AppendIsConcat
  <2>5. Numbers(tochunk') = Numbers(tochunk) \cup {p.n}
    <3>1. Numbers(tochunk \o <<p>>) = Numbers(tochunk) \cup Numbers(<<p>>)
      BY <2>2, <2>4, ConcatNumbers
    <3>2. Numbers(<<p>>) = {p.n}
      BY FewNumbers
    <3> QED
      BY <2>4, <3>1, <3>2
  <2>6. 1..countPkt = InFiles \cup Numbers(tochunk') \cup Numbers(buffer_') \cup Numbers(capture)
                      \cup dropped \cup unwritten
    BY <1>0, <2>3, <2>5
  <2> QED
    BY <2>1, <2>6 DEF Accounted, InFiles, Body
<1>4. CASE Flush \/ WriterCleanup
  BY <1>4, FlushAccounted DEF Flush, WriterCleanup, Writing, HeaderDone
<1>5. CASE Exit \/ CheckMagic \/ CannedLink \/ (TryDequeue /\ buffer_ = <<>>)
             \/ WriterStopCheck \/ RotateFile
  <2>1. UNCHANGED <<files, tochunk, buffer_, capture, countPkt, dropped, unwritten>>
    BY <1>5 DEF Exit, Halt, threadVars, CheckMagic, CannedLink, TryDequeue, WriterStopCheck,
                RotateFile
  <2> QED
    BY <2>1, AccountedKept
<1> QED
  BY <1>1, <1>2, <1>3, <1>4, <1>5 DEF Writer

\* A record once torn stays reported: a write reports what it tears.
LEMMA WriterTorn ==
    ASSUME Types, Threads, TornReported, Writer
    PROVE  TornReported'
<1> USE DEF mainVars, sharedVars, readVars, writeVars, fileVars, chunkVars, dequeueVars
<1>1. CASE CreateNewFile /\ ~Exit
  <2> DEFINE name == IF m_filerotate THEN now ELSE 0
  <2>1. /\ files' = [f \in DOMAIN files \cup {name} |->
                       IF f = name THEN [header |-> NoHeader, body |-> <<>>] ELSE files[f]]
        /\ unwritten' = unwritten
    BY <1>1 DEF CreateNewFile
  <2> HIDE DEF name
  <2> QED
    BY <2>1 DEF TornReported, Body
<1>2. CASE WriteHeader
  <2>1. /\ files' = [files EXCEPT ![FP].header = fileheader] /\ unwritten' = unwritten
        /\ FP \in DOMAIN files /\ \A f \in DOMAIN files : files[f] \in File
    BY <1>2 DEF WriteHeader, Threads, CurrentFile, Writing, Types, FilesOK
  <2>2. DOMAIN files' = DOMAIN files /\ \A f \in DOMAIN files : files'[f].body = files[f].body
    BY <2>1 DEF File
  <2> QED
    BY <2>1, <2>2 DEF TornReported, Body
<1>3. CASE Flush \/ WriterCleanup
  <2>1. writer \in Writing /\ FlushToFile
    BY <1>3 DEF Flush, WriterCleanup, Writing, HeaderDone
  <2>2. PICK k \in 0..Len(tochunk), m \in 0..Len(tochunk) :
          /\ m \in {k, k + 1}
          /\ files' = [files EXCEPT ![FP].body = @ \o Written(tochunk, k, m)]
          /\ unwritten' = unwritten \cup {tochunk[i].n : i \in k + 1..Len(tochunk)}
    BY <2>1 DEF FlushToFile
  <2> DEFINE saved == Written(tochunk, k, m)
  <2>3. /\ FP \in DOMAIN files /\ files[FP] \in File /\ Body(FP) \in Seq(Record)
        /\ tochunk \in Seq(Packet) /\ saved \in Seq(Record)
    BY <2>1, Part DEF Threads, CurrentFile, Types, TypeOK, FilesOK, File, Body
  <2>4. \A i \in DOMAIN saved : ~saved[i].whole => saved[i].n \in unwritten'
    <3> SUFFICES ASSUME NEW i \in DOMAIN saved, ~saved[i].whole
                 PROVE  saved[i].n \in unwritten'
        OBVIOUS
    <3>1. i \in 1..m /\ saved[i].n = tochunk[i].n /\ saved[i].whole = (i <= k)
      BY <2>3, Part
    <3>2. ~(i <= k)
      BY <3>1
    <3>3. i \in k + 1..Len(tochunk)
      BY <2>3, <3>1, <3>2, LenProperties
    <3> QED
      BY <2>2, <3>1, <3>3
  <2>5. /\ DOMAIN files' = DOMAIN files /\ files'[FP].body = Body(FP) \o saved
        /\ \A f \in DOMAIN files : f # FP => files'[f] = files[f]
    BY <2>2, <2>3 DEF File, Body
  <2> HIDE DEF saved
  <2> SUFFICES ASSUME NEW f \in DOMAIN files, NEW i \in DOMAIN files'[f].body,
                      ~files'[f].body[i].whole
               PROVE  files'[f].body[i].n \in unwritten'
    BY <2>5 DEF TornReported, Body
  <2>6. unwritten \subseteq unwritten'
    BY <2>2
  <2>7. CASE f # FP
    BY <2>5, <2>6, <2>7 DEF TornReported, Body
  <2>8. CASE f = FP
    <3>1. i \in DOMAIN (Body(FP) \o saved) /\ ~(Body(FP) \o saved)[i].whole
      BY <2>5, <2>8
    <3>2. CASE i \in DOMAIN Body(FP) /\ (Body(FP) \o saved)[i] = Body(FP)[i]
      BY <2>3, <2>5, <2>6, <2>8, <3>1, <3>2 DEF TornReported
    <3>3. CASE i - Len(Body(FP)) \in DOMAIN saved
               /\ (Body(FP) \o saved)[i] = saved[i - Len(Body(FP))]
      BY <2>4, <2>5, <2>8, <3>1, <3>3
    <3> QED
      BY <2>3, <3>1, <3>2, <3>3, ConcatElements
  <2> QED
    BY <2>7, <2>8
<1>4. CASE Exit \/ CheckMagic \/ CannedLink \/ TryDequeue \/ WriterStopCheck \/ RotateFile
  <2>1. UNCHANGED <<files, unwritten>>
    BY <1>4 DEF Exit, Halt, threadVars, CheckMagic, CannedLink, TryDequeue, WriterStopCheck,
                RotateFile
  <2> QED
    BY <2>1 DEF TornReported, Body
<1> QED
  BY <1>1, <1>2, <1>3, <1>4 DEF Writer

\* Only Join ends the process in the regular way.
LEMMA NextJoined ==
    ASSUME process = "running", Next
    PROVE  Joined'
<1> USE DEF mainVars, threadVars, sharedVars, readVars, writeVars, fileVars, chunkVars, dequeueVars
<1> USE DEF Exit, Undefined, Halt
<1>1. CASE Join
  BY <1>1 DEF Join, Joined
<1>2. CASE CreateWriter \/ InstallHandlers \/ SignalArrives \/ StopReader \/ StopWriter \/ Tick
  <2>1. process' # "done"
    BY <1>2 DEF CreateWriter, InstallHandlers, SignalArrives, StopReader, StopWriter, Tick
  <2> QED
    BY <2>1 DEF Joined
<1>3. CASE Reader
  <2>1. process' # "done"
    BY <1>3 DEF Reader, PcapStartUp, FetchMagic, FetchLink, ReaderStopCheck, PcapNextEx,
                WritePKTtoBuf
  <2> QED
    BY <2>1 DEF Joined
<1>4. CASE Writer
  <2>1. process' # "done"
    BY <1>4 DEF Writer, CreateNewFile, CheckMagic, CannedLink, WriteHeader, TryDequeue,
                Flush, WriterStopCheck, WriterCleanup, RotateFile
  <2> QED
    BY <2>1 DEF Joined
<1> QED
  BY <1>1, <1>2, <1>3, <1>4 DEF Next

-----------------------------------------------------------------------------
(* The theorems *)

\* The invariant holds in the initial states.
LEMMA InitIInv == Init => IInv
<1>1. Init => TornReported /\ Joined
  BY DEF Init, TornReported, Joined
<1> QED
  BY <1>1, InitTypes, InitThreads, InitOrder, InitAccounted DEF IInv

\* Every step keeps the invariant.
LEMMA NextIInv == IInv /\ [Next]_vars => IInv'
<1> SUFFICES ASSUME IInv, [Next]_vars PROVE IInv'
    OBVIOUS
<1> USE DEF IInv
<1>0. Next => Joined'
  BY NextJoined DEF Next
<1>1. CASE Next /\ (\/ CreateWriter \/ InstallHandlers \/ Join \/ SignalArrives
                    \/ StopReader \/ StopWriter \/ Tick)
  <2>1. UNCHANGED <<files, tochunk, buffer_, capture, countPkt, dropped, unwritten>>
    BY <1>1 DEF CreateWriter, InstallHandlers, Join, SignalArrives, StopReader, StopWriter,
                Tick, Exit, Halt, threadVars, sharedVars, readVars, writeVars, fileVars,
                chunkVars, dequeueVars
  <2>2. TornReported'
    BY <2>1 DEF TornReported, Body
  <2> QED
    BY <1>0, <1>1, <2>1, <2>2, MainTypes, MainThreads, MainOrder, AccountedKept
<1>2. CASE Next /\ Reader
  <2>1. Accounted'
    <3>1. CASE PcapNextEx \/ WritePKTtoBuf
      BY <3>1, ReaderAccounted
    <3>2. CASE ~(PcapNextEx \/ WritePKTtoBuf)
      <4>1. UNCHANGED <<files, tochunk, buffer_, capture, countPkt, dropped, unwritten>>
        BY <1>2, <3>2 DEF Reader, PcapStartUp, FetchMagic, FetchLink, ReaderStopCheck, Exit,
                          Halt, threadVars, sharedVars, readVars, writeVars, fileVars,
                          chunkVars, dequeueVars
      <4> QED
        BY <4>1, AccountedKept
    <3> QED
      BY <3>1, <3>2
  <2>2. TornReported'
    <3>1. UNCHANGED <<files, unwritten>>
      BY <1>2 DEF Reader, PcapStartUp, FetchMagic, FetchLink, ReaderStopCheck, PcapNextEx,
                  WritePKTtoBuf, Exit, Undefined, Halt, threadVars, sharedVars, readVars,
                  writeVars, fileVars, chunkVars, dequeueVars
    <3> QED
      BY <3>1 DEF TornReported, Body
  <2> QED
    BY <1>0, <1>2, <2>1, <2>2, ReaderTypes, ReaderThreads, ReaderOrder
<1>3. CASE Next /\ Writer
  BY <1>0, <1>3, WriterTypes, WriterThreads, WriterOrder, WriterAccounted, WriterTorn
<1>4. CASE UNCHANGED vars
  <2> USE <1>4 DEF vars, mainVars, threadVars, sharedVars, readVars, writeVars, fileVars,
                   chunkVars, dequeueVars
  <2>1. Types'
    BY DEF Types, TypeOK, FilesOK
  <2>2. Threads'
    BY DEF Threads, Handed, Room, CurrentFile
  <2>3. Order'
    BY OrderKept DEF Order, HeaderKnown, Drained, Closed
  <2>4. TornReported' /\ Joined'
    BY DEF TornReported, Joined, Body
  <2> QED
    BY <2>1, <2>2, <2>3, <2>4, AccountedKept
<1> QED
  BY <1>1, <1>2, <1>3, <1>4 DEF Next

\* It holds throughout.
LEMMA Invariant == Spec => []IInv
  BY InitIInv, NextIInv, PTL DEF Spec

\* The variables have their types.
THEOREM TypeCorrect == Spec => []TypeOK
<1>1. IInv => TypeOK
  BY DEF IInv, Types
<1> QED
  BY <1>1, Invariant, PTL

\* A packet's bytes fit in tochunk whatever the chunk, header and capture lengths, as
\* long as a struct pcktPLUSEpcaphd fits in the chunk and every packet so far in pktdata.
THEOREM ChunkCorrect == Spec => []ChunkFits
<1>1. IInv => ChunkFits
  BY DEF IInv, Threads, Room, ChunkFits
<1> QED
  BY <1>1, Invariant, PTL

\* The files, the chunk and the queue hold the records and packets in capture order,
\* none twice, and records go behind a header's magic number only.
THEOREM OrderCorrect == Spec => []InOrder
<1>1. IInv => InOrder
  BY DEF IInv, Order
<1> QED
  BY <1>1, Invariant, PTL

\* Every record is whole or was reported torn.
LEMMA StoredOrReported ==
    ASSUME TornReported
    PROVE  InFiles \subseteq Stored \cup unwritten /\ Stored \subseteq InFiles
<1>1. InFiles \subseteq Stored \cup unwritten
  BY DEF InFiles, Numbers, Stored, TornReported
<1>2. Stored \subseteq InFiles
  BY DEF InFiles, Numbers, Stored
<1> QED
  BY <1>1, <1>2

\* In a running process every captured packet is stored, on its way or reported lost; of
\* those main leaves behind when it returns all came after the writer's last look.
THEOREM NothingVanishesCorrect == Spec => []NothingVanishes
<1>1. IInv => NothingVanishes
  <2> SUFFICES ASSUME IInv PROVE NothingVanishes
      OBVIOUS
  <2>1. 1..countPkt = Told \cup OnTheWay
    BY StoredOrReported DEF IInv, Accounted, Told, OnTheWay
  <2>2. ASSUME process = "done", NEW n \in 1..countPkt \ Told
        PROVE  n > lastTurn
    <3>1. tochunk = <<>> /\ capture = <<>> /\ writer = "exited"
      BY <2>2 DEF IInv, Joined, Threads, Handed, Order, Closed
    <3>2. n \in Numbers(buffer_)
      BY <2>1, <2>2, <3>1, FewNumbers DEF OnTheWay
    <3> QED
      BY <3>1, <3>2 DEF Numbers, IInv, Order, Drained
  <2> QED
    BY <2>1, <2>2 DEF NothingVanishes, IInv, Types, TornReported
<1> QED
  BY <1>1, Invariant, PTL

\* A writer that has exited has saved its chunk and drained what was in the
\* queue as it last looked.
THEOREM WriterDrainsCorrect == Spec => []WriterDrains
<1>1. IInv => WriterDrains
  BY DEF IInv, Order, Drained, Closed, WriterDrains
<1> QED
  BY <1>1, Invariant, PTL

\* What a file holds stays in it.
THEOREM FilesOnlyGrowCorrect == Spec => FilesOnlyGrow
<1> DEFINE Grow == \A f \in DOMAIN files :
                     /\ f \in DOMAIN files'
                     /\ Len(files'[f].body) >= Len(Body(f))
                     /\ SubSeq(files'[f].body, 1, Len(Body(f))) = Body(f)
<1>1. IInv /\ [Next]_vars => [Grow]_vars
  <2> SUFFICES ASSUME IInv, Next, NEW f \in DOMAIN files
               PROVE  /\ f \in DOMAIN files'
                      /\ Len(files'[f].body) >= Len(Body(f))
                      /\ SubSeq(files'[f].body, 1, Len(Body(f))) = Body(f)
      OBVIOUS
  <2> USE DEF mainVars, threadVars, sharedVars, readVars, writeVars, fileVars, chunkVars,
              dequeueVars
  <2>1. Body(f) \in Seq(Record) /\ files[f] \in File /\ f \in Int
    BY DEF IInv, Types, TypeOK, FilesOK, File, Body
  <2>2. Len(Body(f)) \in Nat /\ SubSeq(Body(f), 1, Len(Body(f))) = Body(f)
    BY <2>1, LenProperties, SubSeqFull
  <2>3. CASE Flush \/ WriterCleanup
    <3>1. PICK k \in 0..Len(tochunk), m \in 0..Len(tochunk) :
            files' = [files EXCEPT ![FP].body = @ \o Written(tochunk, k, m)]
      BY <2>3 DEF Flush, WriterCleanup, FlushToFile
    <3> DEFINE saved == Written(tochunk, k, m)
    <3>2. saved \in Seq(Record)
      BY Part DEF IInv, Types, TypeOK
    <3>3. FP \in DOMAIN files
      BY <2>3 DEF IInv, Threads, CurrentFile, Writing, HeaderDone, Flush, WriterCleanup
    <3>4. f \in DOMAIN files' /\ files'[f].body \in {Body(f), Body(f) \o saved}
      BY <2>1, <3>1, <3>3 DEF File, Body
    <3> HIDE DEF saved
    <3>5. Len(Body(f) \o saved) >= Len(Body(f))
      BY <2>1, <2>2, <3>2, ConcatProperties, LenProperties
    <3>6. SubSeq(Body(f) \o saved, 1, Len(Body(f))) = Body(f)
      BY <2>1, <3>2, ConcatFront
    <3> QED
      BY <2>2, <3>4, <3>5, <3>6
  <2>4. CASE CreateNewFile /\ ~Exit
    <3> DEFINE name == IF m_filerotate THEN now ELSE 0
    <3>1. f # name
      BY <2>1, <2>4 DEF CreateNewFile, IInv, Threads, CurrentFile, Types, TypeOK
    <3>2. f \in DOMAIN files' /\ files'[f] = files[f]
      BY <2>4, <3>1 DEF CreateNewFile
    <3> QED
      BY <2>2, <3>2 DEF Body
  <2>5. CASE WriteHeader
    <3>1. f \in DOMAIN files' /\ files'[f].body = files[f].body
      BY <2>1, <2>5 DEF WriteHeader, File
    <3> QED
      BY <2>2, <3>1 DEF Body
  <2>6. CASE ~(Flush \/ WriterCleanup \/ (CreateNewFile /\ ~Exit) \/ WriteHeader)
    <3>1. files' = files
      <4>1. CASE Exit \/ Undefined
        BY <4>1 DEF Exit, Undefined, Halt
      <4>2. CASE Reader /\ ~Exit /\ ~Undefined
        BY <4>2 DEF Reader, PcapStartUp, FetchMagic, FetchLink, ReaderStopCheck, PcapNextEx,
                    WritePKTtoBuf
      <4>3. CASE Writer /\ ~Exit
        BY <2>6, <4>3 DEF Writer, CheckMagic, CannedLink, TryDequeue, WriterStopCheck,
                          RotateFile
      <4>4. CASE (CreateWriter \/ InstallHandlers \/ Join \/ SignalArrives \/ StopReader
                    \/ StopWriter \/ Tick) /\ ~Exit
        BY <4>4 DEF CreateWriter, InstallHandlers, Join, SignalArrives, StopReader,
                    StopWriter, Tick
      <4> QED
        BY <4>1, <4>2, <4>3, <4>4 DEF Next
    <3> QED
      BY <2>2, <3>1 DEF Body
  <2> QED
    BY <2>3, <2>4, <2>5, <2>6
<1>2. Spec => [][Grow]_vars
  BY <1>1, Invariant, PTL DEF Spec
<1> QED
  BY <1>2 DEF FilesOnlyGrow

=============================================================================
