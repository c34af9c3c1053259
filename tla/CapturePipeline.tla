-------------------------- MODULE CapturePipeline --------------------------
(***************************************************************************)
(* The capture program itself: main.cc starts a reader thread (libpcap to  *)
(* buffer_) and, a second later, a writer thread (buffer_ to pcap files);  *)
(* a signal handler stops the one, sleeps 20us and stops the other.        *)
(*                                                                         *)
(* buffer_ is the queue ReaderWriterQueue models in detail; here it is the *)
(* FIFO that ReaderWriterQueueFifo shows it implements.  A packet is its   *)
(* capture number and its captured length, a record of a file that number  *)
(* and whether all its bytes were written.  A process that called exit()   *)
(* has process = "failed": stdio then saves what fwrite was given, and     *)
(* nothing saves what is still in the chunk or in buffer_.  Behind a copy  *)
(* past the end of pktdata nothing is known: process = "undefined".        *)
(***************************************************************************)
EXTENDS Integers, Sequences, FiniteSets

CONSTANTS
  CHUNKSIZE,      \* bytes of PacketWriter::tochunk
  HeaderSize,     \* sizeof(sf_hdr)
  PRACTICAL_LEN,  \* bytes of pktdata
  StructSize,     \* sizeof(struct pcktPLUSEpcaphd), padding included
  CapLens,        \* the lengths libpcap delivers: up to -s, which nothing checks
  BufferSlots,    \* elements buffer_ takes before an enqueue needs malloc
  Rotates,        \* m_filerotate: whether -R was given, or both
  m_interval,     \* its argument, in ticks of the clock
  MaxPackets,     \* bound: packets the interface delivers
  MaxTime         \* bound: ticks of the clock

ASSUME SizeAssumption ==
  /\ {CHUNKSIZE, HeaderSize, PRACTICAL_LEN, StructSize} \subseteq Nat
  /\ HeaderSize + PRACTICAL_LEN <= StructSize
  /\ StructSize <= CHUNKSIZE
  /\ CapLens \subseteq Nat

ASSUME OptionsAssumption ==
  /\ Rotates \subseteq BOOLEAN
  /\ {m_interval, MaxTime, MaxPackets, BufferSlots} \subseteq Nat

VARIABLES
  m_filerotate,  \* what parse_args found
  process,     \* "running", "failed" (exit), "done" (main returned) or "undefined"
  main,        \* main(): "sleep", "install" or "join"
  handler,     \* cleanup(int): "idle", "reader" or "usleep"
  now,         \* high_resolution_clock
  fileheader,  \* the shared pcap_file_header: its magic and its link type
  reader,      \* PacketReader's thread
  readerStop,  \* PacketReader::m_threadStop
  countPkt,    \* PacketReader::countPkt
  capture,     \* the packet WritePKTtoBuf is copying, <<>> when none
  buffer_,     \* the queue's elements
  writer,      \* PacketWriter's thread
  writerStop,  \* PacketWriter::m_threadStop
  tochunk,     \* the packets in PacketWriter::tochunk
  bufferLen,   \* the bytes in use of it
  noOfpkts,    \* PacketWriter::noOfpkts
  m_pretime,   \* when the current file was created
  FP,          \* the open file's name, or NULL
  files,       \* the file system: name -> [header, body]
  dropped,     \* history: numbers of packets whose enqueue failed
  unwritten,   \* history: numbers of packets cut off by a short fwrite
  lastTurn     \* history: packets enqueued or dropped as the writer last looked

mainVars == <<m_filerotate, process, main, handler, now>>
sharedVars == <<fileheader, buffer_>>
readVars == <<readerStop, countPkt, capture, dropped>>
fileVars == <<m_pretime, FP, files>>
chunkVars == <<tochunk, bufferLen, unwritten>>
dequeueVars == <<noOfpkts, lastTurn>>
writeVars == <<writerStop, fileVars, chunkVars, dequeueVars>>
threadVars == <<sharedVars, reader, readVars, writer, writeVars>>
vars == <<mainVars, threadVars>>

NULL == -1
Fitting == CapLens \cap 0..PRACTICAL_LEN
Packet == [n : 1..MaxPackets, caplen : Fitting]
Record == [n : 1..MaxPackets, whole : BOOLEAN]
NoHeader == [magic |-> FALSE, link |-> "zero"]

Init ==
  /\ m_filerotate \in Rotates
  /\ process = "running" /\ main = "sleep" /\ handler = "idle" /\ now = 0
  /\ fileheader = NoHeader
  /\ reader = "start" /\ readerStop = FALSE /\ countPkt = 0 /\ capture = <<>>
  /\ buffer_ = <<>> /\ dropped = {}
  /\ writer = "none" /\ writerStop = FALSE /\ tochunk = <<>> /\ bufferLen = 0
  /\ noOfpkts = 0 /\ m_pretime = 0 /\ FP = NULL /\ files = <<>>
  /\ unwritten = {} /\ lastTurn = 0

(***************************************************************************)
(* main and the signal handler.                                            *)
(***************************************************************************)
Halt(how) == process' = how /\ UNCHANGED <<m_filerotate, main, handler, now, threadVars>>

\* exit(), from any thread
Exit == Halt("failed")

\* a write past the end of an array
Undefined == Halt("undefined")

CreateWriter ==
  /\ main = "sleep"
  /\ \/ /\ main' = "install" /\ writer' = "create"
        /\ UNCHANGED <<m_filerotate, process, handler, now, sharedVars, reader, readVars,
                       writeVars>>
     \/ Exit                                          \* pthread_create failed

InstallHandlers ==
  /\ main = "install"
  /\ main' = "join"
  /\ UNCHANGED <<m_filerotate, process, handler, now, threadVars>>

Join ==
  /\ main = "join" /\ reader = "exited" /\ writer = "exited"
  /\ process' = "done"
  /\ UNCHANGED <<m_filerotate, main, handler, now, threadVars>>

SignalArrives ==
  /\ main = "join" /\ handler = "idle"
  /\ handler' = "reader"
  /\ UNCHANGED <<m_filerotate, process, main, now, threadVars>>

StopReader ==
  /\ handler = "reader"
  /\ handler' = "usleep" /\ readerStop' = TRUE
  /\ UNCHANGED <<m_filerotate, process, main, now, sharedVars, reader, countPkt, capture,
                 dropped, writer, writeVars>>

\* Mutant of StopWriter: the handler stops the reader only.
StopWriterForgotten ==
  /\ handler = "usleep"
  /\ handler' = "idle"
  /\ UNCHANGED <<m_filerotate, process, main, now, threadVars>>

StopWriter ==
  /\ handler = "usleep"
  /\ handler' = "idle" /\ writerStop' = TRUE
  /\ UNCHANGED <<m_filerotate, process, main, now, sharedVars, reader, readVars, writer,
                 fileVars, chunkVars, dequeueVars>>

Tick ==
  /\ now < MaxTime
  /\ now' = now + 1
  /\ UNCHANGED <<m_filerotate, process, main, handler, threadVars>>

(***************************************************************************)
(* The reader thread.  PcapStartUp ends the process when libpcap refuses   *)
(* the device or the filter.  createPcapFheader reads the header libpcap   *)
(* wrote into the shared fileheader, which the writer may be reading: the  *)
(* two fields arrive one after the other.                                  *)
(***************************************************************************)
PcapStartUp ==
  /\ reader = "start"
  /\ \/ /\ reader' = "magic"
        /\ UNCHANGED <<mainVars, sharedVars, readVars, writer, writeVars>>
     \/ Exit

FetchMagic ==
  /\ reader = "magic"
  /\ \/ fileheader' = [fileheader EXCEPT !.magic = TRUE] /\ reader' = "link"
     \/ fileheader' = fileheader /\ reader' = "loop" \* no temporary file to read
  /\ UNCHANGED <<mainVars, buffer_, readVars, writer, writeVars>>

FetchLink ==
  /\ reader = "link"
  /\ fileheader' = [fileheader EXCEPT !.link = "device"]
  /\ reader' = "loop"
  /\ UNCHANGED <<mainVars, buffer_, readVars, writer, writeVars>>

ReaderStopCheck ==
  /\ reader = "loop"
  /\ \/ /\ reader' = IF readerStop THEN "exited" ELSE "next"
        /\ UNCHANGED <<mainVars, sharedVars, readVars, writer, writeVars>>
     \/ readerStop /\ Exit                            \* PrintStat failed

\* The copy into pktdata (PacketReader.cc:268) takes caplen bytes, however many.
PcapNextEx ==
  /\ reader = "next"
  /\ \/ /\ countPkt < MaxPackets
        /\ countPkt' = countPkt + 1
        /\ \E c \in Fitting : capture' = <<[n |-> countPkt + 1, caplen |-> c]>>
        /\ reader' = "enqueue"
        /\ UNCHANGED <<mainVars, sharedVars, readerStop, dropped, writer, writeVars>>
     \/ /\ countPkt < MaxPackets /\ \E c \in CapLens : c > PRACTICAL_LEN
        /\ Undefined
     \/ /\ reader' = "loop"                           \* the read timed out
        /\ UNCHANGED <<mainVars, sharedVars, readVars, writer, writeVars>>
     \/ Exit

WritePKTtoBuf ==
  /\ reader = "enqueue"
  /\ \/ buffer_' = buffer_ \o capture /\ dropped' = dropped
     \/ /\ Len(buffer_) >= BufferSlots                \* and malloc failed
        /\ dropped' = dropped \cup {capture[1].n} /\ buffer_' = buffer_
  /\ capture' = <<>> /\ reader' = "loop"
  /\ UNCHANGED <<mainVars, fileheader, readerStop, countPkt, writer, writeVars>>

Reader ==
  \/ PcapStartUp
  \/ FetchMagic
  \/ FetchLink
  \/ ReaderStopCheck
  \/ PcapNextEx
  \/ WritePKTtoBuf

(***************************************************************************)
(* The writer thread.  A file is named by the clock when files rotate, and *)
(* fopen(.., "wb") empties a file that exists.                             *)
(***************************************************************************)
\* Mutant of CreateNewFile: a new file starts with an empty chunk.
CreateNewFileResets ==
  /\ writer = "create"
  /\ m_pretime' = now /\ FP' = now
  /\ files' = [f \in DOMAIN files \cup {now} |->
                 IF f = now THEN [header |-> NoHeader, body |-> <<>>] ELSE files[f]]
  /\ writer' = "magic"
  /\ tochunk' = <<>> /\ bufferLen' = 0
  /\ UNCHANGED <<mainVars, sharedVars, reader, readVars, writerStop, unwritten,
                 dequeueVars>>

CreateNewFile ==
  /\ writer = "create"
  /\ \/ LET name == IF m_filerotate THEN now ELSE 0
            empty == [header |-> NoHeader, body |-> <<>>]
        IN  /\ m_pretime' = IF m_filerotate THEN now ELSE m_pretime
            /\ FP' = name
            /\ files' = [f \in DOMAIN files \cup {name} |->
                           IF f = name THEN empty ELSE files[f]]
            /\ writer' = "magic"
            /\ UNCHANGED <<mainVars, sharedVars, reader, readVars, writerStop, chunkVars,
                           dequeueVars>>
     \/ Exit                                          \* fopen failed

CheckMagic ==
  /\ writer = "magic"
  /\ fileheader' = [fileheader EXCEPT !.magic = TRUE]
  /\ writer' = IF fileheader.magic THEN "header" ELSE "canned"
  /\ UNCHANGED <<mainVars, buffer_, reader, readVars, writeVars>>

CannedLink ==
  /\ writer = "canned"
  /\ fileheader' = [fileheader EXCEPT !.link = "canned"]
  /\ writer' = "header"
  /\ UNCHANGED <<mainVars, buffer_, reader, readVars, writeVars>>

WriteHeader ==
  /\ writer = "header"
  /\ files' = [files EXCEPT ![FP].header = fileheader]
  /\ writer' = "loop"
  /\ UNCHANGED <<mainVars, sharedVars, reader, readVars, writerStop, m_pretime, FP,
                 chunkVars, dequeueVars>>

\* Mutant of NeedsFlush: room for a packet header is thought to be enough.
NeedsFlushLate == bufferLen' + HeaderSize > CHUNKSIZE

NeedsFlush == bufferLen' + StructSize > CHUNKSIZE

\* Mutant of TryDequeue: the stop flag is looked at before the queue.
TryDequeueStopsFirst ==
  /\ writer = "loop"
  /\ lastTurn' = countPkt - Len(capture)
  /\ IF writerStop \/ buffer_ = <<>>
     THEN /\ writer' = "stop"
          /\ UNCHANGED <<buffer_, noOfpkts, tochunk, bufferLen>>
     ELSE /\ buffer_' = Tail(buffer_)
          /\ noOfpkts' = noOfpkts + 1
          /\ tochunk' = Append(tochunk, Head(buffer_))
          /\ bufferLen' = bufferLen + HeaderSize + Head(buffer_).caplen
          /\ writer' = IF NeedsFlush THEN "flush" ELSE "rotate"
  /\ UNCHANGED <<mainVars, fileheader, reader, readVars, writerStop, fileVars, unwritten>>

TryDequeue ==
  /\ writer = "loop"
  /\ lastTurn' = countPkt - Len(capture)
  /\ IF buffer_ # <<>>
     THEN LET buffered == Head(buffer_) IN
          /\ buffer_' = Tail(buffer_)
          /\ noOfpkts' = noOfpkts + 1
          /\ tochunk' = Append(tochunk, buffered)
          /\ bufferLen' = bufferLen + HeaderSize + buffered.caplen
          /\ writer' = IF NeedsFlush THEN "flush" ELSE "rotate"
     ELSE /\ writer' = "stop"
          /\ UNCHANGED <<buffer_, noOfpkts, tochunk, bufferLen>>
  /\ UNCHANGED <<mainVars, fileheader, reader, readVars, writerStop, fileVars, unwritten>>

\* The first m records of a chunk, of which the first k are whole.
Written(chunk, k, m) == [i \in 1..m |-> [n |-> chunk[i].n, whole |-> i <= k]]

\* Mutant of FlushToFile: a short write keeps the whole chunk to write it again.
FlushToFileRetries ==
  \E k, m \in 0..Len(tochunk) :
    /\ m \in {k, k + 1}
    /\ files' = [files EXCEPT ![FP].body = @ \o Written(tochunk, k, m)]
    /\ unwritten' = unwritten
    /\ IF k = Len(tochunk) THEN tochunk' = <<>> /\ bufferLen' = 0
                           ELSE UNCHANGED <<tochunk, bufferLen>>

\* fwrite may write fewer bytes than it was given: k records, or k and a piece of the
\* next.  The rest of the chunk is gone; the next chunk goes behind the piece.
FlushToFile ==
  \E k, m \in 0..Len(tochunk) :
    /\ m \in {k, k + 1}
    /\ files' = [files EXCEPT ![FP].body = @ \o Written(tochunk, k, m)]
    /\ unwritten' = unwritten \cup {tochunk[i].n : i \in k + 1..Len(tochunk)}
    /\ tochunk' = <<>> /\ bufferLen' = 0

Flush ==
  /\ writer = "flush"
  /\ FlushToFile
  /\ writer' = "rotate"
  /\ UNCHANGED <<mainVars, sharedVars, reader, readVars, writerStop, m_pretime, FP,
                 dequeueVars>>

WriterStopCheck ==
  /\ writer = "stop"
  /\ writer' = IF writerStop THEN "cleanup" ELSE "rotate"
  /\ UNCHANGED <<mainVars, sharedVars, reader, readVars, writeVars>>

WriterCleanup ==
  /\ writer = "cleanup"
  /\ FlushToFile
  /\ FP' = NULL /\ writer' = "exited"
  /\ UNCHANGED <<mainVars, sharedVars, reader, readVars, writerStop, m_pretime,
                 dequeueVars>>

\* Mutant of Expired: an interval is over as soon as its last tick begins.
ExpiredEarly == now - m_pretime >= m_interval

Expired == now - m_pretime > m_interval

RotateFile ==
  /\ writer = "rotate"
  /\ writer' = IF m_filerotate /\ Expired THEN "create" ELSE "loop"
  /\ UNCHANGED <<mainVars, sharedVars, reader, readVars, writeVars>>

Writer ==
  \/ CreateNewFile
  \/ CheckMagic
  \/ CannedLink
  \/ WriteHeader
  \/ TryDequeue
  \/ Flush
  \/ WriterStopCheck
  \/ WriterCleanup
  \/ RotateFile

(***************************************************************************)
(* Every thread stops when the process does.                               *)
(***************************************************************************)
Next ==
  /\ process = "running"
  /\ \/ CreateWriter
     \/ InstallHandlers
     \/ Join
     \/ SignalArrives
     \/ StopReader
     \/ StopWriter
     \/ Tick
     \/ Reader
     \/ Writer

Spec == Init /\ [][Next]_vars

(***************************************************************************)
(* The scheduler runs every thread; libpcap's read returns in bounded time *)
(* (pcap_set_timeout, and sa_flags lets a signal abort it).                *)
(***************************************************************************)
Fairness ==
  /\ WF_vars(process = "running" /\ (CreateWriter \/ InstallHandlers \/ Join))
  /\ WF_vars(process = "running" /\ (StopReader \/ StopWriter))
  /\ WF_vars(process = "running" /\ Reader)
  /\ WF_vars(process = "running" /\ Writer)

FairSpec == Spec /\ Fairness

(***************************************************************************)
(* Properties.                                                             *)
(***************************************************************************)
\* The variables have their types.
TypeOK ==
  /\ m_filerotate \in BOOLEAN
  /\ process \in {"running", "failed", "done", "undefined"}
  /\ main \in {"sleep", "install", "join"}
  /\ handler \in {"idle", "reader", "usleep"}
  /\ now \in 0..MaxTime
  /\ fileheader \in [magic : BOOLEAN, link : {"zero", "canned", "device"}]
  /\ reader \in {"start", "magic", "link", "loop", "next", "enqueue", "exited"}
  /\ readerStop \in BOOLEAN /\ countPkt \in 0..MaxPackets
  /\ capture \in Seq(Packet) /\ buffer_ \in Seq(Packet)
  /\ writer \in {"none", "create", "magic", "canned", "header", "loop", "flush",
                "rotate", "stop", "cleanup", "exited"}
  /\ writerStop \in BOOLEAN /\ tochunk \in Seq(Packet)
  /\ bufferLen \in Nat /\ noOfpkts \in Nat /\ lastTurn \in 0..MaxPackets
  /\ m_pretime \in 0..MaxTime
  /\ FP \in {NULL} \cup DOMAIN files /\ DOMAIN files \subseteq 0..MaxTime
  /\ dropped \subseteq 1..MaxPackets /\ unwritten \subseteq 1..MaxPackets

Numbers(s) == {s[i].n : i \in DOMAIN s}
Increasing(s) == \A i, j \in DOMAIN s : i < j => s[i].n < s[j].n
Before(s, t) == \A i \in DOMAIN s, j \in DOMAIN t : s[i].n < t[j].n
Body(f) == files[f].body

\* As long as every packet captured so far fits in pktdata, a packet's bytes fit in
\* tochunk: the flush test (PacketWriter.cc:137) leaves room for a whole struct
\* pcktPLUSEpcaphd whenever the writer goes back to the queue.
ChunkFits ==
  /\ bufferLen <= CHUNKSIZE
  /\ writer = "loop" => bufferLen + StructSize <= CHUNKSIZE

\* A file with packets has a header with the pcap magic number, although two threads
\* assemble the header with no lock between them.  (Its other fields may still be those
\* of neither thread.)
HeaderFirst == \A f \in DOMAIN files : Body(f) # <<>> => files[f].header.magic

\* Records go only behind a header with the magic number.  The records of a file, torn
\* ones included, are in capture order and none is there twice, and so on from each file
\* to the next one, then in the chunk, then in buffer_, then in the reader's hands.
\* A rotation does not flush the chunk first, so packets of the old interval open the new
\* file: that moves them, and must not reorder or repeat them.
InOrder ==
  /\ HeaderFirst
  /\ \A f \in DOMAIN files : Increasing(Body(f)) /\ Before(Body(f), tochunk)
                            /\ Before(Body(f), buffer_)
  /\ \A f, g \in DOMAIN files : f < g => Before(Body(f), Body(g))
  /\ Increasing(tochunk) /\ Increasing(buffer_)
  /\ Before(tochunk, buffer_) /\ Before(buffer_, capture)

Stored == UNION {{Body(f)[i].n : i \in {j \in DOMAIN Body(f) : Body(f)[j].whole}} :
                   f \in DOMAIN files}
Told == Stored \cup dropped \cup unwritten
OnTheWay == Numbers(tochunk) \cup Numbers(buffer_) \cup Numbers(capture)

\* While the process runs, every packet libpcap delivered has been taken whole by fwrite, is in
\* the chunk, in buffer_ or in the reader's hands, or was reported lost: by an enqueue
\* that failed or a short fwrite.  The one record a short fwrite tears is among those.
\* When main returns, the only packets not written and not reported are those the reader
\* enqueued after the writer's last look at buffer_.  (exit() from a failing call loses
\* what is on the way, and a reader of the file does not find what follows a torn record.)
NothingVanishes ==
  /\ TypeOK
  /\ process = "running" => 1..countPkt = Told \cup OnTheWay
  /\ process = "done" => \A n \in 1..countPkt \ Told : n > lastTurn
  /\ \A f \in DOMAIN files : \A i \in DOMAIN Body(f) :
       ~Body(f)[i].whole => Body(f)[i].n \in unwritten

\* When the writer exits its chunk is saved and its file closed, and all that buffer_
\* still holds was enqueued after the writer began its last turn: the stop flag is read
\* after the queue is found empty, so a stop that meets a backlog drains it first.  (What
\* the reader enqueues between that look and the flag is left behind.)
WriterDrains ==
  writer = "exited" =>
    /\ tochunk = <<>> /\ FP = NULL
    /\ \A i \in DOMAIN buffer_ : buffer_[i].n > lastTurn

\* What a file holds stays in it: rotation never reopens, and so empties, an older file.
FilesOnlyGrow ==
  [][\A f \in DOMAIN files :
       /\ f \in DOMAIN files'
       /\ Len(files'[f].body) >= Len(Body(f))
       /\ SubSeq(files'[f].body, 1, Len(Body(f))) = Body(f)]_vars

\* A signal ends the capture: both threads leave their loops, the writer after it has
\* drained the queue, and main returns (or a failing call ended the process before, or a
\* packet too long for pktdata left it undefined).
StopEndsTheProcess == readerStop ~> process # "running"
=============================================================================
