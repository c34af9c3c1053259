------------------------------ MODULE Analyser ------------------------------
(***************************************************************************)
(* ANALYSEPCAP: main looks for files the dumper has made ready, renames    *)
(* each to "<name>.taken" and starts a thread for it (main.cpp); the       *)
(* threads parse the packets and count them on a display board they share  *)
(* (displayStats).  While threads of earlier rounds run, main waits for,   *)
(* and after a minute cancels, as many of them as it found files.          *)
(*                                                                         *)
(* A packet is the node it came from and its time; packets that are not    *)
(* TCP over IP change nothing.  The program is built without optimisation; *)
(* where it reads what was never written (disLock, the result of           *)
(* protocolTCP::addPkt, a threads[] entry) any value may be found.  Where  *)
(* it writes beyond an array, uses what it has freed or lets two threads   *)
(* into the map at once, it may carry on or do anything at all: process is *)
(* then "undefined" and the model ends.                                    *)
(***************************************************************************)
EXTENDS Integers, Sequences, FiniteSets

CONSTANTS
  Files,       \* the files the dumper hands over, in the order main takes them
  Nodes,       \* source addresses
  Times,       \* the seconds packets are stamped with
  TIMEINT,     \* length of an interval
  ThreadsSizes, \* lengths of threads[] that are looked at: 20 in the code
  MaxPackets   \* bound: packets in all files

ASSUME FilesAssumption ==
  /\ Files \subseteq Nat \ {0} /\ IsFiniteSet(Files)
  /\ Times \subseteq Nat \ {0}
  /\ ThreadsSizes \subseteq Nat
  /\ {TIMEINT, MaxPackets} \subseteq Nat
  /\ Nodes # {}

VARIABLES
  process,       \* "running" or "undefined"
  main,          \* main(): "scan", "join" or "create"
  filesList,     \* the files taken in this round
  index,         \* Ti, or i
  threads,       \* threads[]: the file whose thread is there, None at first
  file,          \* what a file is called: "ready", "taken" or "completed"
  reader,        \* per file, its thread
  packets,       \* how many packets have been read, for the bound
  cancelled,     \* threads with a pending pthread_cancel
  joined,        \* threads joined
  displayBoard,  \* the singleton: an index of boards, or NULL
  boards,        \* every displayStats object
  notCreated,    \* history: files whose pthread_create failed
  leaked         \* history: a disLock that nobody will release

mainVars == <<main, filesList, index, threads, joined, notCreated>>
boardVars == <<displayBoard, boards, leaked>>
vars == <<process, mainVars, file, reader, packets, cancelled, boardVars>>

None == 0
Garbage == -1   \* nobody will ever get this lock
Broken == -2    \* pthread_mutex_lock fails, and its caller goes on without the lock
NULL == 0

Dead == {"none", "ended"}
Locked == {"interval", "count"}
Alive == {f \in Files : reader[f].pc \notin Dead}

\* late is history: how many packets older than the interval each thread has counted.
NewBoard(lock) == [start |-> 0, end |-> 0, totalpkts |-> 0,
                   dashboard |-> [n \in Nodes |-> 0], disLock |-> lock,
                   late |-> [f \in Files |-> 0]]

\* A thread that is not at work on a packet.
Idle == [pc |-> "read", board |-> NULL, node |-> CHOOSE n \in Nodes : TRUE, time |-> 0]

Init ==
  /\ process = "running" /\ main = "scan" /\ filesList = <<>> /\ index = 1
  /\ \E size \in ThreadsSizes : threads = [i \in 1..size |-> None]
  /\ file = [f \in Files |-> "ready"]
  /\ reader = [f \in Files |-> [Idle EXCEPT !.pc = "none"]] /\ packets = 0
  /\ cancelled = {} /\ joined = {} /\ notCreated = {}
  /\ displayBoard = NULL /\ boards = <<>> /\ leaked = FALSE

Undefined ==
  /\ process' = "undefined"
  /\ UNCHANGED <<mainVars, file, reader, cancelled, boardVars>>

(***************************************************************************)
(* main.                                                                   *)
(***************************************************************************)
\* A rename may fail, and readdir may miss a file handed over meanwhile: such a file is
\* still ready in the next round.  The files are numbered in the order they are taken.
TakeFile(f) ==
  /\ main = "scan" /\ file[f] = "ready"
  /\ \A g \in Files : g < f => file[g] # "ready"
  /\ file' = [file EXCEPT ![f] = "taken"]
  /\ filesList' = Append(filesList, f)
  /\ UNCHANGED <<process, main, index, threads, joined, notCreated, reader, cancelled,
                 boardVars>>

\* At the end of the scan: /proc/<pid>/task has ".", "..", main and the threads that have
\* not ended.
CountThreads ==
  /\ main = "scan"
  /\ main' = IF 3 + Cardinality(Alive) > 3 THEN "join" ELSE "create"
  /\ UNCHANGED <<process, filesList, index, threads, joined, notCreated, file, reader,
                 cancelled, boardVars>>

\* threads[Ti] is the thread of an earlier round, and the deadline passes for all of them
\* at once.  One that was never created or is joined already, or lies beyond threads[], is
\* no thread: the calls fail, or do anything.
JoinThread ==
  /\ main = "join" /\ index <= Len(filesList)
  /\ \/ /\ index' = index + 1
        /\ LET t == IF index \in DOMAIN threads THEN threads[index] ELSE None IN
           \/ /\ t \in Files \ joined /\ reader[t].pc \in Dead
              /\ joined' = joined \cup {t}
              /\ UNCHANGED cancelled
           \/ /\ t \in Files \ joined /\ reader[t].pc \notin Dead
              /\ cancelled' = cancelled \cup {t}
              /\ UNCHANGED joined
           \/ /\ t \notin Files \ joined
              /\ UNCHANGED <<cancelled, joined>>
        /\ UNCHANGED <<process, main, filesList, threads, notCreated, file, reader, boardVars>>
     \/ /\ index \in DOMAIN threads => threads[index] \notin Files \ joined
        /\ Undefined

\* Mutant of EndJoin: with too many threads none is created.
EndJoinCreatesNone ==
  /\ main = "join" /\ index > Len(filesList)
  /\ main' = "scan" /\ index' = 1 /\ filesList' = <<>>
  /\ UNCHANGED <<process, threads, joined, notCreated, file, reader, cancelled, boardVars>>

EndJoin ==
  /\ main = "join" /\ index > Len(filesList)
  /\ main' = "create" /\ index' = 1
  /\ UNCHANGED <<process, filesList, threads, joined, notCreated, file, reader, cancelled,
                 boardVars>>

\* The copy of the name is one byte too short for its end, and nothing keeps i inside
\* threads[].
CreateThread ==
  /\ main = "create" /\ index <= Len(filesList)
  /\ \/ /\ index \in DOMAIN threads
        /\ index' = index + 1
        /\ LET f == filesList[index] IN
           \/ /\ reader' = [reader EXCEPT ![f].pc = "open"]
              /\ threads' = [threads EXCEPT ![index] = f]
              /\ UNCHANGED notCreated
           \/ /\ notCreated' = notCreated \cup {f}
              /\ UNCHANGED <<reader, threads>>
        /\ UNCHANGED <<process, main, filesList, joined, file, cancelled, boardVars>>
     \/ Undefined

EndRound ==
  /\ main = "create" /\ index > Len(filesList)
  /\ main' = "scan" /\ index' = 1 /\ filesList' = <<>>
  /\ UNCHANGED <<process, threads, joined, notCreated, file, reader, cancelled, boardVars>>

Main ==
  \/ \E f \in Files : TakeFile(f)
  \/ CountThreads
  \/ JoinThread
  \/ EndJoin
  \/ CreateThread
  \/ EndRound

(***************************************************************************)
(* readPcapFile, the thread of file f, on the board it is using.           *)
(***************************************************************************)
Board(f) == boards[reader[f].board]

Goto(f, pc) == reader' = [reader EXCEPT ![f].pc = pc]

\* The packet is done with.
Leave(f, pc) == reader' = [reader EXCEPT ![f] = [Idle EXCEPT !.pc = pc]]

\* A thread that cannot open its file goes on with what it has just destroyed.
OpenTrace(f) ==
  /\ reader[f].pc = "open"
  /\ \/ /\ Goto(f, "read")
        /\ UNCHANGED <<process, mainVars, file, cancelled, boardVars>>
     \/ Undefined

\* At its end, or after an error, the statistics follow.
ReadPacket(f) ==
  /\ reader[f].pc = "read"
  /\ \/ /\ packets < MaxPackets
        /\ packets' = packets + 1
        /\ \E n \in Nodes, t \in Times :
             reader' = [reader EXCEPT ![f].pc = "board", ![f].node = n, ![f].time = t]
     \/ /\ Goto(f, "stats")
        /\ UNCHANGED packets
  /\ UNCHANGED <<process, mainVars, file, cancelled, boardVars>>

\* displayBoard = new displayStats(), whose disLock is never initialised
MakeBoard ==
  \E lock \in {None, Garbage, Broken} :
    /\ boards' = Append(boards, NewBoard(lock))
    /\ displayBoard' = Len(boards')
    /\ leaked' = (leaked \/ lock = Garbage)

\* getdashB: look at displayBoard, perhaps make one, and return what it is then.
getdashB(f) ==
  /\ \/ /\ reader[f].pc = "board" /\ displayBoard = NULL
        /\ Goto(f, "new")
        /\ UNCHANGED <<displayBoard, boards, leaked>>
     \/ /\ reader[f].pc = "new"
        /\ MakeBoard
        /\ Goto(f, "return")
     \/ /\ \/ reader[f].pc = "board" /\ displayBoard # NULL
           \/ reader[f].pc = "return"
        /\ reader' = [reader EXCEPT ![f].board = displayBoard, ![f].pc = "early"]
        /\ UNCHANGED <<displayBoard, boards, leaked>>
  /\ UNCHANGED <<process, mainVars, file, cancelled>>

\* The same call for the statistics of the trace, which are only displayed.
StatsBoard(f) ==
  /\ \/ /\ reader[f].pc = "stats"
        /\ Goto(f, IF displayBoard = NULL THEN "statsNew" ELSE "rename")
        /\ UNCHANGED boardVars
     \/ /\ reader[f].pc = "statsNew"
        /\ MakeBoard
        /\ Goto(f, "rename")
  /\ UNCHANGED <<process, mainVars, file, cancelled>>

\* Mutant of CheckTime: no packet is dropped.
CheckTimeNever(f) ==
  /\ reader[f].pc = "early"
  /\ Goto(f, "lock")
  /\ UNCHANGED <<process, mainVars, file, cancelled, boardVars>>

\* A packet older than the interval is dropped; disLock is not held yet.
CheckTime(f) ==
  /\ reader[f].pc = "early"
  /\ IF Board(f).start > reader[f].time THEN Leave(f, "read") ELSE Goto(f, "lock")
  /\ UNCHANGED <<process, mainVars, file, cancelled, boardVars>>

\* The result of pthread_mutex_lock is ignored.
Lock(f) ==
  /\ reader[f].pc = "lock"
  /\ \/ /\ Board(f).disLock = None
        /\ boards' = [boards EXCEPT ![reader[f].board].disLock = f]
     \/ /\ Board(f).disLock = Broken
        /\ UNCHANGED boards
  /\ Goto(f, "interval")
  /\ UNCHANGED <<process, mainVars, file, cancelled, displayBoard, leaked>>

\* Two threads are at the same board, which only one with a broken lock allows.
Raced(f) ==
  \E g \in Files \ {f} : reader[g].pc \in Locked /\ reader[g].board = reader[f].board

IntervalOver(b, t) == b.end # 0 /\ b.end < t

\* Mutant of cleardashB: the totals are kept.
cleardashBKeepsTotals(b, t) ==
  [b EXCEPT !.start = t, !.end = t + TIMEINT, !.dashboard = [n \in Nodes |-> 0]]

cleardashB(b, t) ==
  [b EXCEPT !.start = t, !.end = t + TIMEINT, !.totalpkts = 0,
            !.dashboard = [n \in Nodes |-> 0]]

\* What a packet of time t makes of the interval.
Interval(b, t) ==
  IF IntervalOver(b, t) THEN [cleardashB(b, t) EXCEPT !.late = [f \in Files |-> 0]]
  ELSE IF b.end = 0
       THEN [b EXCEPT !.start = t, !.end = t + TIMEINT, !.late = [f \in Files |-> 0]]
  ELSE b

StartInterval(f) ==
  /\ reader[f].pc = "interval"
  /\ \/ /\ boards' = [boards EXCEPT ![reader[f].board] = Interval(@, reader[f].time)]
        /\ Goto(f, "count")
        /\ UNCHANGED <<process, mainVars, file, cancelled, displayBoard, leaked>>
     \/ Raced(f) /\ Undefined

\* An update that two threads make at once may be lost.
Increments(f) == IF Raced(f) THEN {0, 1} ELSE {1}

\* getProtoBase and protocolTCP::addPkt: the packet is counted for its node.
AddToNode(f, b, n) ==
  [b EXCEPT !.dashboard[reader[f].node] = @ + n,
            !.late[f] = @ + (IF reader[f].time < b.start THEN 1 ELSE 0)]

\* pthread_mutex_unlock fails as the lock did.
Unlocked(b) == [b EXCEPT !.disLock = IF @ = Broken THEN Broken ELSE None]

\* The packet is counted in the totals too, and disLock released.
AddPacket(f, b, n, m) == Unlocked([AddToNode(f, b, n) EXCEPT !.totalpkts = @ + m])

\* Mutant of CountPacket: a thread that has more to read keeps the lock.
CountPacketKeepsLock(f) ==
  /\ reader[f].pc = "count"
  /\ \E n, m \in Increments(f) :
       boards' = [boards EXCEPT ![reader[f].board] =
                    [AddToNode(f, @, n) EXCEPT !.totalpkts = @ + m]]
  /\ Leave(f, "read")
  /\ UNCHANGED <<process, mainVars, file, cancelled, displayBoard, leaked>>

\* protocolTCP::addPkt returns no value: if what is found looks like -1 the caller returns
\* with the lock held.  Before, the node's name of 18 bytes is written to buff[10].
CountPacket(f) ==
  /\ reader[f].pc = "count"
  /\ \/ /\ \E n, m \in Increments(f) :
             boards' = [boards EXCEPT ![reader[f].board] = AddPacket(f, @, n, m)]
        /\ Leave(f, "read")
        /\ UNCHANGED <<process, mainVars, file, cancelled, displayBoard, leaked>>
     \/ /\ \E n \in Increments(f) :
             boards' = [boards EXCEPT ![reader[f].board] = AddToNode(f, @, n)]
        /\ leaked' = (leaked \/ Board(f).disLock = f)
        /\ Leave(f, "read")
        /\ UNCHANGED <<process, mainVars, file, cancelled, displayBoard>>
     \/ Undefined

\* The rename may fail too.
RenameCompleted(f) ==
  /\ reader[f].pc = "rename"
  /\ \/ file' = [file EXCEPT ![f] = "completed"]
     \/ UNCHANGED file
  /\ Leave(f, "ended")
  /\ UNCHANGED <<process, mainVars, cancelled, boardVars>>

\* A pending cancellation ends the thread where it reads or prints, with a lock it holds.
Prints(f) ==
  \/ reader[f].pc \in {"open", "read", "new", "statsNew", "rename"}
  \/ reader[f].pc = "interval" /\ IntervalOver(Board(f), reader[f].time)
  \/ reader[f].pc = "count" /\ Board(f).dashboard[reader[f].node] = 0

Cancel(f) ==
  /\ f \in cancelled /\ Prints(f)
  /\ leaked' = (leaked \/ (reader[f].pc \in Locked /\ Board(f).disLock = f))
  /\ Leave(f, "ended")
  /\ UNCHANGED <<process, mainVars, file, cancelled, displayBoard, boards>>

readPcapFile(f) ==
  \/ ReadPacket(f)
  \/ /\ \/ OpenTrace(f)
        \/ getdashB(f)
        \/ CheckTime(f)
        \/ Lock(f)
        \/ StartInterval(f)
        \/ CountPacket(f)
        \/ StatsBoard(f)
        \/ RenameCompleted(f)
        \/ Cancel(f)
     /\ UNCHANGED packets

Next ==
  /\ process = "running"
  /\ \/ Main /\ UNCHANGED packets
     \/ \E f \in Files : readPcapFile(f)

Spec == Init /\ [][Next]_vars

\* The scheduler runs every thread.
FairSpec ==
  /\ Spec
  /\ \A f \in Files : WF_vars(process = "running" /\ readPcapFile(f))

(***************************************************************************)
(* Properties.                                                             *)
(***************************************************************************)
\* The variables have their types.
TypeOK ==
  /\ process \in {"running", "undefined"}
  /\ main \in {"scan", "join", "create"}
  /\ filesList \in Seq(Files) /\ index \in 1..Len(filesList) + 1
  /\ \E size \in ThreadsSizes : threads \in [1..size -> Files \cup {None}]
  /\ file \in [Files -> {"ready", "taken", "completed"}]
  /\ \A f \in Files :
       /\ reader[f].board \in {NULL} \cup DOMAIN boards
       /\ reader[f].pc \in {"early", "lock"} \cup Locked => reader[f].board # NULL
       /\ reader[f].node \in Nodes /\ reader[f].time \in Times \cup {0}
  /\ {cancelled, joined, notCreated} \subseteq SUBSET Files
  /\ displayBoard \in {NULL} \cup DOMAIN boards /\ leaked \in BOOLEAN
  /\ \A b \in DOMAIN boards :
       /\ boards[b].disLock \in Files \cup {None, Garbage, Broken}
       /\ {boards[b].start, boards[b].end, boards[b].totalpkts} \subseteq Nat
       /\ boards[b].dashboard \in [Nodes -> Nat] /\ boards[b].late \in [Files -> Nat]

\* A pair for each packet a board has counted, of its node and its number there.
Counted(b) == UNION {{n} \X (1..b.dashboard[n]) : n \in Nodes}

\* If disLock works at all, whoever takes it finds totals that agree with the counts per
\* node, whichever threads counted, started a new interval or were cancelled before.
TotalsAgree ==
  /\ TypeOK
  /\ \A b \in DOMAIN boards : boards[b].disLock = None =>
       boards[b].totalpkts = Cardinality(Counted(boards[b]))

\* A thread looks at the interval's start before it takes the lock, and the others may move
\* the interval on meanwhile: then its packet, older than the interval, is counted in it all
\* the same.  But only that one: until the next interval no thread counts a second.
OneLatePacket ==
  \A b \in DOMAIN boards, f \in Files : boards[b].late[f] <= 1

\* main forgets no file it has taken: there is, or was, a thread for it, or its
\* pthread_create failed, however often a round waits for earlier threads.
NoFileForgotten ==
  \A f \in Files : file[f] # "ready" =>
    \/ \E i \in DOMAIN filesList : filesList[i] = f
    \/ reader[f].pc # "none"
    \/ f \in notCreated

\* Unless a lock was left behind for ever (by a cancellation inside addPkt, or by the two
\* values nobody sets), or the behaviour is undefined, every thread comes to its end.
ReadersFinish ==
  \A f \in Files : reader[f].pc # "none" ~>
    (reader[f].pc \in Dead \/ leaked \/ process = "undefined")
=============================================================================
