--------------------------- MODULE AnalyserProofs ---------------------------
(***************************************************************************)
(* The proofs about Analyser, for any files, lengths of threads[], nodes,  *)
(* times and packets.                                                      *)
(*                                                                         *)
(* Totals is the lock's invariant: a board that nobody holds agrees with   *)
(* itself, and so does one whose holder is between lock and unlock; a lock *)
(* left behind or broken makes no promise.  OnceLate needs no lock: a      *)
(* thread on its way to count a second late packet would have let it pass  *)
(* the look at the start.  Remembered is what main owes the files          *)
(* it has taken: in the middle of a round those before index are seen to.  *)
(* It needs Round: the files of a round are different, so the thread of    *)
(* one is not created in place of another's.                               *)
(***************************************************************************)
EXTENDS Analyser, TLAPS, SequenceTheorems, FiniteSetTheorems

Pcs == {"none", "open", "read", "board", "new", "return", "early", "lock", "interval", "count",
        "stats", "statsNew", "rename", "ended"}

ReaderRecord == [pc : Pcs, board : {NULL} \cup DOMAIN boards, node : Nodes,
                 time : Times \cup {0}]
BoardRecord == [start : Nat, end : Nat, totalpkts : Nat, dashboard : [Nodes -> Nat],
                disLock : Files \cup {None, Garbage, Broken}, late : [Files -> Nat]]

Simple ==
  /\ process \in {"running", "undefined"}
  /\ main \in {"scan", "join", "create"}
  /\ \E size \in ThreadsSizes : threads \in [1..size -> Files \cup {None}]
  /\ file \in [Files -> {"ready", "taken", "completed"}]
  /\ {cancelled, joined, notCreated} \subseteq SUBSET Files
  /\ leaked \in BOOLEAN

\* The types of the readers and the boards, which TypeOK looks at one by one.
Records ==
  /\ reader \in [Files -> ReaderRecord]
  /\ boards \in Seq(BoardRecord)
  /\ \A f \in Files : reader[f].pc \in {"early", "lock"} \cup Locked => reader[f].board # NULL
  /\ displayBoard \in {NULL} \cup DOMAIN boards
  /\ \A f \in Files : reader[f].pc = "return" => displayBoard # NULL

\* The files of a round are different ones, and index counts along them.
Round ==
  /\ filesList \in Seq(Files)
  /\ \A i, j \in DOMAIN filesList : filesList[i] = filesList[j] => i = j
  /\ \A i \in DOMAIN filesList : file[filesList[i]] # "ready"
  /\ index \in 1..Len(filesList) + 1
  /\ main = "scan" => index = 1

Agrees(b) == IsFiniteSet(Counted(b)) /\ b.totalpkts = Cardinality(Counted(b))

\* f may be between lock and unlock of board b: it has the lock and the totals agree, or
\* there is no lock to have.
Holds(f, b) == b.disLock = Broken \/ (b.disLock = f /\ Agrees(b))

Totals ==
  /\ \A b \in DOMAIN boards : boards[b].disLock = None => Agrees(boards[b])
  /\ \A f \in Files : reader[f].pc \in Locked => Holds(f, Board(f))

\* A thread that has counted a late packet in this interval is not about to count another.
OnceLate ==
  \A b \in DOMAIN boards, f \in Files :
    /\ boards[b].late[f] <= 1
    /\ boards[b].late[f] = 1 /\ reader[f].pc \in {"lock"} \cup Locked /\ reader[f].board = b
         => reader[f].time >= boards[b].start

\* In a round the files before index have got their thread, or failed to.
Remembered ==
  \A f \in Files : file[f] # "ready" =>
    \/ \E i \in DOMAIN filesList : filesList[i] = f /\ (main = "create" => i >= index)
    \/ reader[f].pc # "none"
    \/ f \in notCreated

IInv == Simple /\ Records /\ Round /\ Totals /\ Remembered

-----------------------------------------------------------------------------
\* No file is one of disLock's other values.
LEMMA FilesFacts == \A f \in Files : f # None /\ f # Garbage /\ f # Broken
<1>1. Files \subseteq Nat \ {0}
  BY FilesAssumption DEF FilesAssumption
<1>2. \A f \in Files : f \in Nat /\ f # 0
  BY <1>1
<1> QED
  BY <1>2 DEF None, Garbage, Broken

\* The invariant implies the type invariant.
LEMMA TypeFromInv ==
  ASSUME Simple, Records, Round
  PROVE  TypeOK
<1>1. filesList \in Seq(Files) /\ index \in 1..Len(filesList) + 1
  BY DEF Round
<1>2. \A f \in Files :
       /\ reader[f].board \in {NULL} \cup DOMAIN boards
       /\ reader[f].pc \in {"early", "lock"} \cup Locked => reader[f].board # NULL
       /\ reader[f].node \in Nodes /\ reader[f].time \in Times \cup {0}
  BY DEF Records, ReaderRecord
<1>3. \A b \in DOMAIN boards :
       /\ boards[b].disLock \in Files \cup {None, Garbage, Broken}
       /\ {boards[b].start, boards[b].end, boards[b].totalpkts} \subseteq Nat
       /\ boards[b].dashboard \in [Nodes -> Nat] /\ boards[b].late \in [Files -> Nat]
  <2>1. \A b \in DOMAIN boards : boards[b] \in BoardRecord
    BY DEF Records
  <2> QED
    BY <2>1 DEF BoardRecord
<1>4. displayBoard \in {NULL} \cup DOMAIN boards
  BY DEF Records
<1> QED
  BY <1>1, <1>2, <1>3, <1>4 DEF Simple, TypeOK

-----------------------------------------------------------------------------
(* The boards *)

\* A board that has counted nothing.
LEMMA CountedEmpty ==
  ASSUME NEW b, \A n \in Nodes : b.dashboard[n] = 0
  PROVE  IsFiniteSet(Counted(b)) /\ Cardinality(Counted(b)) = 0
<1>1. Counted(b) = {}
  BY DEF Counted
<1> QED
  BY <1>1, FS_EmptySet

LEMMA CountedSame ==
  ASSUME NEW b, NEW c, c.dashboard = b.dashboard
  PROVE  Counted(c) = Counted(b)
BY DEF Counted

\* One packet more is one pair more.
LEMMA CountedNext ==
  ASSUME NEW b, NEW c, b.dashboard \in [Nodes -> Nat], NEW m \in Nodes,
         c.dashboard = [b.dashboard EXCEPT ![m] = @ + 1], IsFiniteSet(Counted(b))
  PROVE  IsFiniteSet(Counted(c)) /\ Cardinality(Counted(c)) = Cardinality(Counted(b)) + 1
<1> DEFINE d == b.dashboard
           e == c.dashboard
           p == <<m, d[m] + 1>>
<1>1. /\ \A n \in Nodes : n # m => e[n] = d[n]
      /\ e[m] = d[m] + 1 /\ d[m] \in Nat /\ \A n \in Nodes : d[n] \in Nat
  OBVIOUS
<1>2. /\ Counted(b) = UNION {{n} \X (1..d[n]) : n \in Nodes}
      /\ Counted(c) = UNION {{n} \X (1..e[n]) : n \in Nodes}
  BY DEF Counted
<1> HIDE DEF d, e
<1>3. p \notin Counted(b)
  <2>1. \A n \in Nodes : p \in {n} \X (1..d[n]) => n = m /\ d[m] + 1 \in 1..d[m]
    OBVIOUS
  <2>2. d[m] + 1 \notin 1..d[m]
    BY <1>1
  <2> QED
    BY <1>2, <2>1, <2>2
<1>4. 1..e[m] = (1..d[m]) \cup {d[m] + 1}
  BY <1>1
<1>5. \A n \in Nodes : {n} \X (1..e[n]) = ({n} \X (1..d[n])) \cup (IF n = m THEN {p} ELSE {})
  BY <1>1, <1>4
<1>6. Counted(c) = Counted(b) \cup {p}
  <2>1. ASSUME NEW x \in Counted(c) PROVE x \in Counted(b) \cup {p}
    BY <1>2, <1>5, <2>1
  <2>2. ASSUME NEW x \in Counted(b) PROVE x \in Counted(c)
    BY <1>2, <1>5, <2>2
  <2>3. p \in Counted(c)
    BY <1>2, <1>5
  <2> QED
    BY <2>1, <2>2, <2>3
<1> HIDE DEF p
<1> QED
  BY <1>3, <1>6, FS_AddElement

\* What Records says of one board and of one reader.
LEMMA BoardsNow ==
  ASSUME Records
  PROVE  /\ Len(boards) \in Nat /\ DOMAIN boards = 1..Len(boards)
         /\ \A b \in DOMAIN boards : boards[b] \in BoardRecord /\ b # NULL
         /\ \A f \in Files : reader[f] \in ReaderRecord
BY DEF Records, NULL

LEMMA TimesNat ==
  ASSUME Records, NEW f \in Files
  PROVE  reader[f].time \in Nat /\ TIMEINT \in Nat
<1>1. reader[f].time \in Times \cup {0}
  BY DEF Records, ReaderRecord
<1>2. Times \subseteq Nat \ {0}
  BY FilesAssumption DEF FilesAssumption
<1>3. TIMEINT \in Nat
  BY FilesAssumption DEF FilesAssumption
<1>4. reader[f].time \in Nat
  <2>1. CASE reader[f].time \in Times
    BY <1>2, <2>1
  <2>2. CASE reader[f].time = 0
    BY <2>2
  <2> QED
    BY <1>1, <2>1, <2>2
<1> QED
  BY <1>3, <1>4

\* A board changes.
LEMMA BoardChange ==
  ASSUME Records, NEW b \in DOMAIN boards, NEW X \in BoardRecord, boards' = [boards EXCEPT ![b] = X]
  PROVE  /\ boards' \in Seq(BoardRecord) /\ DOMAIN boards' = DOMAIN boards
         /\ boards'[b] = X /\ \A c \in DOMAIN boards : c # b => boards'[c] = boards[c]
BY DEF Records

\* A board is made.
LEMMA BoardMade ==
  ASSUME Records, MakeBoard
  PROVE  /\ boards' \in Seq(BoardRecord) /\ displayBoard' \in DOMAIN boards'
         /\ DOMAIN boards \subseteq DOMAIN boards'
         /\ \A c \in DOMAIN boards : boards'[c] = boards[c]
         /\ \A c \in DOMAIN boards' \ DOMAIN boards :
              Agrees(boards'[c]) /\ \A f \in Files : boards'[c].late[f] = 0
<1>1. PICK lock \in {None, Garbage, Broken} :
        /\ boards' = Append(boards, NewBoard(lock)) /\ displayBoard' = Len(boards')
        /\ leaked' = (leaked \/ lock = Garbage)
  BY DEF MakeBoard
<1>2. NewBoard(lock) \in BoardRecord
  BY DEF NewBoard, BoardRecord
<1>3. boards \in Seq(BoardRecord) /\ Len(boards) \in Nat /\ DOMAIN boards = 1..Len(boards)
  BY DEF Records
<1>4. /\ boards' \in Seq(BoardRecord) /\ Len(boards') = Len(boards) + 1
      /\ \A c \in 1..Len(boards) : boards'[c] = boards[c]
      /\ boards'[Len(boards) + 1] = NewBoard(lock)
  BY <1>1, <1>2, <1>3, AppendProperties
<1>5. DOMAIN boards' = 1..(Len(boards) + 1)
  BY <1>4
<1>6. Agrees(NewBoard(lock))
  <2>1. NewBoard(lock).totalpkts = 0 /\ \A n \in Nodes : NewBoard(lock).dashboard[n] = 0
    BY DEF NewBoard
  <2> QED
    BY <2>1, CountedEmpty DEF Agrees
<1>7. \A c \in DOMAIN boards' \ DOMAIN boards : c = Len(boards) + 1
  BY <1>3, <1>5
<1>8. \A f \in Files : NewBoard(lock).late[f] = 0
  BY DEF NewBoard
<1>9. \A c \in DOMAIN boards' \ DOMAIN boards :
        Agrees(boards'[c]) /\ \A f \in Files : boards'[c].late[f] = 0
  BY <1>4, <1>6, <1>7, <1>8
<1> QED
  BY <1>1, <1>3, <1>4, <1>5, <1>9

LEMMA MadeLeaked ==
  ASSUME MakeBoard, leaked \in BOOLEAN
  PROVE  leaked' \in BOOLEAN
BY DEF MakeBoard

-----------------------------------------------------------------------------
(* The readers *)
LEMMA IdleFacts == [Idle EXCEPT !.pc = "read"].node \in Nodes /\ Idle.node \in Nodes
<1>1. (CHOOSE n \in Nodes : TRUE) \in Nodes
  BY FilesAssumption DEF FilesAssumption
<1> QED
  BY <1>1 DEF Idle

\* Only the reader of f changes, and it is not between lock and unlock afterwards.
Moves(f) ==
  /\ reader' \in [Files -> ReaderRecord]
  /\ \A g \in Files : g # f => reader'[g] = reader[g]
  /\ reader'[f].pc # "none"
  /\ reader'[f].pc \in {"early", "lock"} \cup Locked => reader'[f].board # NULL

\* What a thread's move to pc leaves and what it changes.
LEMMA GotoView ==
  ASSUME Records, NEW f \in Files, NEW pc \in Pcs \ {"none"}, Goto(f, pc),
         pc \in {"early", "lock"} \cup Locked => reader[f].board # NULL
  PROVE  /\ Moves(f) /\ reader'[f].pc = pc
         /\ reader'[f].board = reader[f].board /\ reader'[f].node = reader[f].node
         /\ reader'[f].time = reader[f].time
<1>1. reader \in [Files -> ReaderRecord]
  BY DEF Records
<1> DEFINE X == [reader[f] EXCEPT !.pc = pc]
<1>2. reader[f] \in ReaderRecord
  BY <1>1
<1>3. X \in ReaderRecord /\ X.pc = pc /\ X.board = reader[f].board /\ X.node = reader[f].node
      /\ X.time = reader[f].time
  BY <1>2 DEF ReaderRecord
<1>4. reader' = [reader EXCEPT ![f] = X]
  BY DEF Goto
<1> HIDE DEF X
<1>5. /\ reader' \in [Files -> ReaderRecord] /\ reader'[f] = X
      /\ \A g \in Files : g # f => reader'[g] = reader[g]
  BY <1>1, <1>3, <1>4
<1> QED
  BY <1>3, <1>5 DEF Moves

\* The same when the packet is done with.
LEMMA LeaveView ==
  ASSUME Records, NEW f \in Files, NEW pc \in {"read", "ended"}, Leave(f, pc)
  PROVE  Moves(f) /\ reader'[f].pc = pc
<1>1. reader \in [Files -> ReaderRecord]
  BY DEF Records
<1> DEFINE X == [Idle EXCEPT !.pc = pc]
<1>3. X \in ReaderRecord /\ X.pc = pc
  BY IdleFacts DEF ReaderRecord, Idle, Pcs
<1>4. reader' = [reader EXCEPT ![f] = X]
  BY DEF Leave
<1> HIDE DEF X
<1>5. /\ reader' \in [Files -> ReaderRecord] /\ reader'[f] = X
      /\ \A g \in Files : g # f => reader'[g] = reader[g]
  BY <1>1, <1>3, <1>4
<1> QED
  BY <1>3, <1>5 DEF Moves, Locked

\* A step of a reader leaves main's bookkeeping true.
LEMMA ReaderRound ==
  ASSUME IInv, NEW f \in Files, Moves(f), UNCHANGED mainVars,
         file' \in [Files -> {"ready", "taken", "completed"}],
         \A g \in Files : g # f => file'[g] = file[g],
         file[f] # "ready" => file'[f] # "ready"
  PROVE  Round' /\ Remembered'
<1>1. /\ main' = main /\ filesList' = filesList /\ index' = index /\ notCreated' = notCreated
  BY DEF mainVars
<1>2. Round'
  <2>1. \A i \in DOMAIN filesList : filesList[i] \in Files /\ file[filesList[i]] # "ready"
    BY DEF IInv, Round
  <2>2. \A i \in DOMAIN filesList : file'[filesList[i]] # "ready"
    BY <2>1
  <2> QED
    BY <1>1, <2>2 DEF IInv, Round
<1>3. Remembered'
  <2> SUFFICES ASSUME NEW g \in Files, file'[g] # "ready"
               PROVE  \/ \E i \in DOMAIN filesList :
                           filesList[i] = g /\ (main = "create" => i >= index)
                      \/ reader'[g].pc # "none"
                      \/ g \in notCreated
    BY <1>1 DEF Remembered
  <2>1. CASE g = f
    BY <2>1 DEF Moves
  <2>2. CASE g # f
    <3>1. file[g] # "ready" /\ reader'[g] = reader[g]
      BY <2>2 DEF Moves
    <3> QED
      BY <3>1 DEF IInv, Remembered
  <2> QED
    BY <2>1, <2>2
<1> QED
  BY <1>2, <1>3

\* A step of a reader, outside disLock, that leaves the boards alone.
LEMMA ReaderAlone ==
  ASSUME Records, Totals, NEW f \in Files, Moves(f), boards' = boards,
         displayBoard' = displayBoard, reader'[f].pc \notin Locked, reader'[f].pc # "return"
  PROVE  Records' /\ Totals'
<1>1. ReaderRecord' = ReaderRecord
  BY DEF ReaderRecord
<1>0. \A g \in Files : reader'[g].pc = "return" => displayBoard # NULL
  BY DEF Moves, Records
<1>2. \A g \in Files : reader'[g].pc \in {"early", "lock"} \cup Locked => reader'[g].board # NULL
  BY DEF Moves, Records
<1>3. Records'
  BY <1>0, <1>1, <1>2 DEF Moves, Records, BoardRecord
<1>4. \A g \in Files : reader'[g].pc \in Locked => g # f /\ reader'[g] = reader[g]
  BY DEF Moves
<1>5. \A b \in DOMAIN boards : boards[b].disLock = None => Agrees(boards[b])
  BY DEF Totals
<1>6. \A g \in Files : reader'[g].pc \in Locked => Holds(g, boards[reader'[g].board])
  BY <1>4 DEF Totals, Board
<1>7. Totals'
  BY <1>5, <1>6 DEF Totals, Board, Holds, Agrees, Counted
<1> QED
  BY <1>3, <1>7

\* The same when it makes a board.
LEMMA ReaderMakes ==
  ASSUME Records, Totals, NEW f \in Files, Moves(f), MakeBoard, reader'[f].pc \notin Locked
  PROVE  Records' /\ Totals'
<1>0. /\ boards' \in Seq(BoardRecord) /\ displayBoard' \in DOMAIN boards'
      /\ DOMAIN boards \subseteq DOMAIN boards'
      /\ \A c \in DOMAIN boards : boards'[c] = boards[c]
      /\ \A c \in DOMAIN boards' \ DOMAIN boards : Agrees(boards'[c])
  BY BoardMade
<1>1. ReaderRecord \subseteq ReaderRecord'
  BY <1>0 DEF ReaderRecord
<1>2. \A g \in Files : reader'[g].pc \in {"early", "lock"} \cup Locked => reader'[g].board # NULL
  BY DEF Moves, Records
<1>3. Records'
  <2>1. reader' \in [Files -> ReaderRecord']
    BY <1>1 DEF Moves
  <2>2. BoardRecord' = BoardRecord
    BY DEF BoardRecord
  <2>3. displayBoard' # NULL
    BY <1>0, Len(boards') \in Nat, DOMAIN boards' = 1..Len(boards') DEF NULL
  <2> QED
    BY <1>0, <1>2, <2>1, <2>2, <2>3 DEF Records
<1>4. \A g \in Files : reader'[g].pc \in Locked => g # f /\ reader'[g] = reader[g]
  BY DEF Moves
<1>5. \A b \in DOMAIN boards' : boards'[b].disLock = None => Agrees(boards'[b])
  BY <1>0 DEF Totals
<1>6. \A g \in Files : reader'[g].pc \in Locked => Holds(g, boards'[reader'[g].board])
  <2> SUFFICES ASSUME NEW g \in Files, reader'[g].pc \in Locked
               PROVE Holds(g, boards'[reader'[g].board])
    OBVIOUS
  <2>1. reader'[g] = reader[g] /\ reader[g].pc \in Locked
    BY <1>4
  <2>2. reader[g].board \in DOMAIN boards
    BY <2>1 DEF Records, ReaderRecord
  <2>3. Holds(g, boards[reader[g].board])
    BY <2>1 DEF Totals, Board
  <2> QED
    BY <1>0, <2>1, <2>2, <2>3
<1>7. Totals'
  BY <1>5, <1>6 DEF Totals, Board, Holds, Agrees, Counted
<1> QED
  BY <1>3, <1>7

\* A step of a reader under disLock: the board it uses changes, and agrees if it is free
\* or the reader still holds it.
LEMMA ReaderHolds ==
  ASSUME Records, Totals, NEW f \in Files, Moves(f), NEW b \in DOMAIN boards,
         NEW X \in BoardRecord, boards' = [boards EXCEPT ![b] = X],
         displayBoard' = displayBoard, boards[b].disLock \in {None, f, Broken},
         boards[b].disLock = Broken => X.disLock = Broken,
         X.disLock = None => Agrees(X), reader'[f].pc # "return",
         reader'[f].pc \in Locked => reader'[f].board = b /\ Holds(f, X)
  PROVE  Records' /\ Totals'
<1>0. /\ boards' \in Seq(BoardRecord) /\ DOMAIN boards' = DOMAIN boards
      /\ boards'[b] = X /\ \A c \in DOMAIN boards : c # b => boards'[c] = boards[c]
  BY BoardChange
<1>1. ReaderRecord' = ReaderRecord /\ BoardRecord' = BoardRecord
  BY <1>0 DEF ReaderRecord, BoardRecord
<1>2. \A g \in Files : reader'[g].pc \in {"early", "lock"} \cup Locked => reader'[g].board # NULL
  BY DEF Moves, Records
<1>3. Records'
  <2>1. \A g \in Files : reader'[g].pc = "return" => displayBoard # NULL
    BY DEF Moves, Records
  <2> QED
    BY <1>0, <1>1, <1>2, <2>1 DEF Moves, Records
<1>5. \A c \in DOMAIN boards' : boards'[c].disLock = None => Agrees(boards'[c])
  BY <1>0 DEF Totals
<1>6. \A g \in Files : reader'[g].pc \in Locked => Holds(g, boards'[reader'[g].board])
  <2> SUFFICES ASSUME NEW g \in Files, reader'[g].pc \in Locked
               PROVE Holds(g, boards'[reader'[g].board])
    OBVIOUS
  <2>1. CASE g = f
    BY <1>0, <2>1
  <2>2. CASE g # f
    <3>1. reader'[g] = reader[g] /\ reader[g].pc \in Locked
      BY <2>2 DEF Moves
    <3>2. reader[g].board \in DOMAIN boards
      BY <3>1 DEF Records, ReaderRecord
    <3>3. Holds(g, boards[reader[g].board])
      BY <3>1 DEF Totals, Board
    <3>4. CASE reader[g].board = b
      <4>1. boards[b].disLock = Broken
        BY <2>2, <3>3, <3>4, FilesFacts DEF Holds
      <4> QED
        BY <1>0, <3>1, <3>4, <4>1 DEF Holds
    <3>5. CASE reader[g].board # b
      BY <1>0, <3>1, <3>2, <3>3, <3>5
    <3> QED
      BY <3>4, <3>5
  <2> QED
    BY <2>1, <2>2
<1>7. Totals'
  BY <1>5, <1>6 DEF Totals, Board, Holds, Agrees, Counted
<1> QED
  BY <1>3, <1>7

-----------------------------------------------------------------------------
(* The steps of a reader *)
\* What is left of the invariant once the records and the boards are settled.
LEMMA ReaderStep ==
  ASSUME IInv, NEW f \in Files, Moves(f), UNCHANGED mainVars,
         file' = file \/ file' = [file EXCEPT ![f] = "completed"],
         process' = process, cancelled' = cancelled, leaked' \in BOOLEAN,
         Records', Totals'
  PROVE  IInv'
<1>1. /\ file' \in [Files -> {"ready", "taken", "completed"}]
      /\ \A g \in Files : g # f => file'[g] = file[g]
      /\ file[f] # "ready" => file'[f] # "ready"
  BY DEF IInv, Simple
<1>2. Round' /\ Remembered'
  BY <1>1, ReaderRound
<1>3. Simple'
  BY <1>1 DEF IInv, Simple, mainVars
<1> QED
  BY <1>2, <1>3 DEF IInv

LEMMA UndefinedStep ==
  ASSUME IInv, Undefined
  PROVE  IInv'
<1>1. /\ UNCHANGED <<mainVars, file, reader, cancelled, boardVars>>
      /\ process' = "undefined"
  BY DEF Undefined
<1>2. Simple'
  BY <1>1 DEF IInv, Simple, mainVars, boardVars
<1>3. Records'
  BY <1>1 DEF IInv, Records, ReaderRecord, BoardRecord, boardVars
<1>4. Round' /\ Remembered'
  BY <1>1 DEF IInv, Round, Remembered, mainVars
<1>5. Totals'
  BY <1>1 DEF IInv, Totals, Board, Holds, Agrees, Counted, boardVars
<1> QED
  BY <1>2, <1>3, <1>4, <1>5 DEF IInv

LEMMA OpenTraceStep ==
  ASSUME IInv, NEW f \in Files, OpenTrace(f)
  PROVE  IInv'
<1>1. CASE Undefined
  BY <1>1, UndefinedStep
<1>2. CASE Goto(f, "read") /\ UNCHANGED <<process, mainVars, file, cancelled, boardVars>>
  <2>1. "read" \in Pcs \ {"none"} /\ "read" \notin {"early", "lock"} \cup Locked
    BY DEF Pcs, Locked
  <2>2. Moves(f) /\ reader'[f].pc = "read"
    BY <1>2, <2>1, GotoView DEF IInv
  <2>3. Records' /\ Totals'
    BY <1>2, <2>1, <2>2, ReaderAlone DEF IInv, boardVars
  <2> QED
    BY <1>2, <2>2, <2>3, ReaderStep DEF boardVars, IInv, Simple
<1> QED
  BY <1>1, <1>2 DEF OpenTrace

\* The record of a thread that has read a packet.
LEMMA ReadsView ==
  ASSUME NEW r \in ReaderRecord, NEW n \in Nodes, NEW t \in Times
  PROVE  LET s == [r EXCEPT !.pc = "board", !.node = n, !.time = t]
         IN  s \in ReaderRecord /\ s.pc = "board"
BY DEF ReaderRecord, Pcs

LEMMA ReadPacketMoves ==
  ASSUME IInv, NEW f \in Files, ReadPacket(f)
  PROVE  Moves(f) /\ reader'[f].pc \in {"board", "stats"}
<1>1. CASE Goto(f, "stats")
  <2>1. "stats" \in Pcs \ {"none"} /\ "stats" \notin {"early", "lock"} \cup Locked
    BY DEF Pcs, Locked
  <2>2. Moves(f) /\ reader'[f].pc = "stats"
    BY <1>1, <2>1, GotoView DEF IInv
  <2> QED
    BY <2>1, <2>2
<1>2. CASE \E n \in Nodes, t \in Times :
           reader' = [reader EXCEPT ![f].pc = "board", ![f].node = n, ![f].time = t]
  <2>1. PICK n \in Nodes, t \in Times :
           reader' = [reader EXCEPT ![f].pc = "board", ![f].node = n, ![f].time = t]
    BY <1>2
  <2> DEFINE Reads(r) == [r EXCEPT !.pc = "board", !.node = n, !.time = t]
  <2>2. reader \in [Files -> ReaderRecord] /\ reader[f] \in ReaderRecord
    BY DEF IInv, Records
  <2>7. n \in Nodes /\ t \in Times
    BY <2>1
  <2>3. \A r \in ReaderRecord : Reads(r) \in ReaderRecord /\ Reads(r).pc = "board"
    BY <2>7, ReadsView
  <2>4. reader' = [reader EXCEPT ![f] = Reads(reader[f])]
    BY <2>1, <2>2 DEF ReaderRecord
  <2> DEFINE X == Reads(reader[f])
  <2> HIDE DEF Reads
  <2>6. X \in ReaderRecord /\ X.pc = "board" /\ reader' = [reader EXCEPT ![f] = X]
    BY <2>2, <2>3, <2>4
  <2> HIDE DEF X
  <2>5. /\ reader' \in [Files -> ReaderRecord] /\ reader'[f] = X
        /\ \A g \in Files : g # f => reader'[g] = reader[g]
    BY <2>2, <2>6
  <2> QED
    BY <2>5, <2>6 DEF Moves, Locked
<1> QED
  BY <1>1, <1>2 DEF ReadPacket

LEMMA ReadPacketStep ==
  ASSUME IInv, NEW f \in Files, ReadPacket(f)
  PROVE  IInv'
<1>1. UNCHANGED <<process, mainVars, file, cancelled, boardVars>>
  BY DEF ReadPacket
<1>2. Moves(f) /\ reader'[f].pc \notin Locked /\ reader'[f].pc # "return"
  BY ReadPacketMoves DEF Locked
<1>3. Records' /\ Totals'
  BY <1>1, <1>2, ReaderAlone DEF IInv, boardVars
<1> QED
  BY <1>1, <1>2, <1>3, ReaderStep DEF boardVars, IInv, Simple

\* getdashB returns the board there is.
LEMMA BoardFound ==
  ASSUME IInv, NEW f \in Files, displayBoard # NULL,
         reader' = [reader EXCEPT ![f].board = displayBoard, ![f].pc = "early"]
  PROVE  Moves(f) /\ reader'[f].pc = "early"
<1> DEFINE X == [[reader[f] EXCEPT !.board = displayBoard] EXCEPT !.pc = "early"]
<1>1. reader \in [Files -> ReaderRecord] /\ reader[f] \in ReaderRecord
      /\ displayBoard \in {NULL} \cup DOMAIN boards
  BY DEF IInv, Records
<1>2. X \in ReaderRecord /\ X.pc = "early" /\ X.board = displayBoard
  BY <1>1 DEF ReaderRecord, Pcs
<1>3. reader' = [reader EXCEPT ![f] = X]
  BY <1>1 DEF ReaderRecord
<1> HIDE DEF X
<1>4. /\ reader' \in [Files -> ReaderRecord] /\ reader'[f] = X
      /\ \A g \in Files : g # f => reader'[g] = reader[g]
  BY <1>1, <1>2, <1>3
<1> QED
  BY <1>2, <1>4 DEF Moves, Locked

LEMMA getdashBStep ==
  ASSUME IInv, NEW f \in Files, getdashB(f)
  PROVE  IInv'
<1>1. UNCHANGED <<process, mainVars, file, cancelled>>
  BY DEF getdashB
<1>2. CASE Goto(f, "new") /\ UNCHANGED <<displayBoard, boards, leaked>>
  <2>1. "new" \in Pcs \ {"none"} /\ "new" \notin {"early", "lock"} \cup Locked
    BY DEF Pcs, Locked
  <2>2. Moves(f) /\ reader'[f].pc = "new"
    BY <1>2, <2>1, GotoView DEF IInv
  <2>3. Records' /\ Totals'
    BY <1>2, <2>1, <2>2, ReaderAlone DEF IInv
  <2> QED
    BY <1>1, <1>2, <2>2, <2>3, ReaderStep DEF IInv, Simple
<1>3. CASE MakeBoard /\ Goto(f, "return")
  <2>1. "return" \in Pcs \ {"none"} /\ "return" \notin {"early", "lock"} \cup Locked
    BY DEF Pcs, Locked
  <2>2. Moves(f) /\ reader'[f].pc = "return"
    BY <1>3, <2>1, GotoView DEF IInv
  <2>3. Records' /\ Totals'
    BY <1>3, <2>1, <2>2, ReaderMakes DEF IInv
  <2>4. leaked' \in BOOLEAN
    BY <1>3, MadeLeaked DEF IInv, Simple
  <2> QED
    BY <1>1, <2>2, <2>3, <2>4, ReaderStep
<1>4. CASE /\ displayBoard # NULL
           /\ reader' = [reader EXCEPT ![f].board = displayBoard, ![f].pc = "early"]
           /\ UNCHANGED <<displayBoard, boards, leaked>>
  <2>5. Moves(f) /\ reader'[f].pc \notin Locked /\ reader'[f].pc # "return"
    BY <1>4, BoardFound DEF Locked
  <2>6. Records' /\ Totals'
    BY <1>4, <2>5, ReaderAlone DEF IInv
  <2> QED
    BY <1>1, <1>4, <2>5, <2>6, ReaderStep DEF IInv, Simple
<1>5. reader[f].pc = "return" => displayBoard # NULL
  BY DEF IInv, Records
<1> QED
  BY <1>2, <1>3, <1>4, <1>5 DEF getdashB

LEMMA StatsBoardStep ==
  ASSUME IInv, NEW f \in Files, StatsBoard(f)
  PROVE  IInv'
<1>1. UNCHANGED <<process, mainVars, file, cancelled>>
  BY DEF StatsBoard
<1>0. \A pc \in {"statsNew", "rename"} :
        pc \in Pcs \ {"none"} /\ pc \notin {"early", "lock"} \cup Locked
  BY DEF Pcs, Locked
<1>2. CASE \E pc \in {"statsNew", "rename"} : Goto(f, pc) /\ UNCHANGED boardVars
  <2>1. PICK pc \in {"statsNew", "rename"} : Goto(f, pc) /\ UNCHANGED boardVars
    BY <1>2
  <2>2. Moves(f) /\ reader'[f].pc = pc
    BY <1>0, <2>1, GotoView DEF IInv
  <2>3. Records' /\ Totals'
    BY <1>0, <2>1, <2>2, ReaderAlone DEF IInv, boardVars
  <2> QED
    BY <1>1, <2>1, <2>2, <2>3, ReaderStep DEF IInv, Simple, boardVars
<1>3. CASE MakeBoard /\ Goto(f, "rename")
  <2>2. Moves(f) /\ reader'[f].pc = "rename"
    BY <1>0, <1>3, GotoView DEF IInv
  <2>3. Records' /\ Totals'
    BY <1>0, <1>3, <2>2, ReaderMakes DEF IInv
  <2>4. leaked' \in BOOLEAN
    BY <1>3, MadeLeaked DEF IInv, Simple
  <2> QED
    BY <1>1, <2>2, <2>3, <2>4, ReaderStep
<1> QED
  BY <1>2, <1>3 DEF StatsBoard

LEMMA CheckTimeStep ==
  ASSUME IInv, NEW f \in Files, CheckTime(f)
  PROVE  IInv'
<1>1. UNCHANGED <<process, mainVars, file, cancelled, boardVars>> /\ reader[f].pc = "early"
  BY DEF CheckTime
<1>2. Moves(f) /\ reader'[f].pc \notin Locked /\ reader'[f].pc # "return"
  <2>1. CASE Leave(f, "read")
    <3>1. Moves(f) /\ reader'[f].pc = "read"
      BY <2>1, LeaveView DEF IInv
    <3> QED
      BY <3>1 DEF Locked
  <2>2. CASE Goto(f, "lock")
    <3>1. "lock" \in Pcs \ {"none"} /\ reader[f].board # NULL
      BY <1>1 DEF Pcs, IInv, Records
    <3>2. Moves(f) /\ reader'[f].pc = "lock"
      BY <2>2, <3>1, GotoView DEF IInv
    <3> QED
      BY <3>2 DEF Locked
  <2> QED
    BY <2>1, <2>2 DEF CheckTime
<1>3. Records' /\ Totals'
  BY <1>1, <1>2, ReaderAlone DEF IInv, boardVars
<1> QED
  BY <1>1, <1>2, <1>3, ReaderStep DEF boardVars, IInv, Simple

LEMMA RenameCompletedStep ==
  ASSUME IInv, NEW f \in Files, RenameCompleted(f)
  PROVE  IInv'
<1>1. UNCHANGED <<process, mainVars, cancelled, boardVars>> /\ Leave(f, "ended")
  BY DEF RenameCompleted
<1>2. Moves(f) /\ reader'[f].pc = "ended"
  BY <1>1, LeaveView DEF IInv
<1>3. Records' /\ Totals'
  BY <1>1, <1>2, ReaderAlone DEF IInv, boardVars, Locked
<1> QED
  BY <1>1, <1>2, <1>3, ReaderStep DEF RenameCompleted, boardVars, IInv, Simple

LEMMA CancelStep ==
  ASSUME IInv, NEW f \in Files, Cancel(f)
  PROVE  IInv'
<1>1. /\ UNCHANGED <<process, mainVars, file, cancelled, displayBoard, boards>>
      /\ Leave(f, "ended") /\ leaked' \in BOOLEAN
  BY DEF Cancel, IInv, Simple
<1>2. Moves(f) /\ reader'[f].pc = "ended"
  BY <1>1, LeaveView DEF IInv
<1>3. Records' /\ Totals'
  BY <1>1, <1>2, ReaderAlone DEF IInv, Locked
<1>4. leaked' \in BOOLEAN
  BY <1>1 DEF IInv, Simple
<1> QED
  BY <1>1, <1>2, <1>3, <1>4, ReaderStep

\* A thread past getdashB has a board.
LEMMA BoardView ==
  ASSUME Records, NEW f \in Files, reader[f].pc \in {"early", "lock"} \cup Locked
  PROVE  reader[f].board \in DOMAIN boards /\ Board(f) \in BoardRecord
         /\ Board(f) = boards[reader[f].board]
<1>1. reader[f].board \in {NULL} \cup DOMAIN boards /\ reader[f].board # NULL
  BY DEF Records, ReaderRecord
<1> QED
  BY <1>1, BoardsNow DEF Board

\* A lock taken or released does not change what a board has counted.
LEMMA LockView ==
  ASSUME NEW X \in BoardRecord, NEW l \in Files \cup {None, Garbage, Broken}
  PROVE  /\ [X EXCEPT !.disLock = l] \in BoardRecord
         /\ [X EXCEPT !.disLock = l].disLock = l
         /\ [X EXCEPT !.disLock = l].dashboard = X.dashboard
         /\ [X EXCEPT !.disLock = l].totalpkts = X.totalpkts
         /\ [X EXCEPT !.disLock = l].late = X.late
         /\ [X EXCEPT !.disLock = l].start = X.start
BY DEF BoardRecord

LEMMA LockAgrees ==
  ASSUME NEW X, NEW Y, Y.dashboard = X.dashboard, Y.totalpkts = X.totalpkts
  PROVE  Agrees(X) <=> Agrees(Y)
BY DEF Agrees, Counted

\* The lock is taken, or fails.
LEMMA LocksView ==
  ASSUME Records, NEW f \in Files, Lock(f)
  PROVE  \E Y \in BoardRecord :
           /\ reader[f].board \in DOMAIN boards /\ Board(f) = boards[reader[f].board]
           /\ boards' = [boards EXCEPT ![reader[f].board] = Y]
           /\ Y.late = Board(f).late /\ Y.start = Board(f).start
           /\ \/ Board(f).disLock = Broken /\ Y = Board(f)
              \/ /\ Board(f).disLock = None /\ Y.disLock = f
                 /\ Agrees(Board(f)) => Agrees(Y)
<1> DEFINE b == reader[f].board
           X == Board(f)
<1>1. b \in DOMAIN boards /\ X \in BoardRecord /\ X = boards[b]
  BY BoardView DEF Lock
<1>2. CASE X.disLock = None /\ boards' = [boards EXCEPT ![b].disLock = f]
  <2> DEFINE Y == [X EXCEPT !.disLock = f]
  <2>1. /\ Y \in BoardRecord /\ Y.disLock = f /\ Y.dashboard = X.dashboard
        /\ Y.totalpkts = X.totalpkts /\ Y.late = X.late /\ Y.start = X.start
    BY <1>1, LockView
  <2>2. boards' = [boards EXCEPT ![b] = Y]
    BY <1>1, <1>2
  <2> HIDE DEF Y, X, b
  <2>3. Agrees(X) => Agrees(Y)
    BY <2>1, LockAgrees
  <2> QED
    BY <1>1, <1>2, <2>1, <2>2, <2>3 DEF X, b
<1>3. CASE X.disLock = Broken /\ boards' = boards
  <2>1. boards = [boards EXCEPT ![b] = boards[b]]
    BY DEF Records
  <2> QED
    BY <1>1, <1>3, <2>1
<1> QED
  BY <1>2, <1>3 DEF Lock

LEMMA LockStep ==
  ASSUME IInv, NEW f \in Files, Lock(f)
  PROVE  IInv'
<1> DEFINE b == reader[f].board
           X == Board(f)
<1>1. /\ UNCHANGED <<process, mainVars, file, cancelled, displayBoard, leaked>>
      /\ Goto(f, "interval") /\ reader[f].pc = "lock"
  BY DEF Lock
<1>2. PICK Y \in BoardRecord :
        /\ b \in DOMAIN boards /\ X = boards[b] /\ boards' = [boards EXCEPT ![b] = Y]
        /\ \/ X.disLock = Broken /\ Y = X
           \/ X.disLock = None /\ Y.disLock = f /\ (Agrees(X) => Agrees(Y))
  BY LocksView DEF IInv
<1>3. b # NULL
  BY <1>1 DEF IInv, Records
<1>4. Holds(f, Y) /\ (Y.disLock = None => Agrees(Y))
      /\ X.disLock \in {None, f, Broken} /\ (X.disLock = Broken => Y.disLock = Broken)
  <2>1. CASE X.disLock = Broken /\ Y = X
    BY <2>1 DEF Holds, Broken, None
  <2>2. CASE X.disLock = None /\ Y.disLock = f /\ (Agrees(X) => Agrees(Y))
    <3>1. Agrees(X)
      BY <1>2, <2>2 DEF IInv, Totals
    <3>2. None # Broken
      BY DEF None, Broken
    <3> QED
      BY <2>2, <3>1, <3>2 DEF Holds
  <2> QED
    BY <1>2, <2>1, <2>2
<1>6. Moves(f) /\ reader'[f].pc = "interval" /\ reader'[f].board = b
  <2>1. "interval" \in Pcs \ {"none"}
    BY DEF Pcs
  <2> QED
    BY <1>1, <1>3, <2>1, GotoView DEF IInv
<1> HIDE DEF X, b
<1>7. Records' /\ Totals'
  BY <1>1, <1>2, <1>4, <1>6, ReaderHolds DEF IInv
<1> QED
  BY <1>1, <1>6, <1>7, ReaderStep DEF IInv, Simple

\* A new interval clears counts and totals together, and nothing is late in it yet.
LEMMA IntervalView ==
  ASSUME NEW X \in BoardRecord, NEW t \in Nat, TIMEINT \in Nat
  PROVE  /\ Interval(X, t) \in BoardRecord /\ Interval(X, t).disLock = X.disLock
         /\ Agrees(X) => Agrees(Interval(X, t))
         /\ \/ Interval(X, t) = X
            \/ \A f \in Files : Interval(X, t).late[f] = 0
<1> DEFINE Z == [f \in Files |-> 0]
<1>1. X.end \in Nat /\ X.start \in Nat /\ t + TIMEINT \in Nat /\ Z \in [Files -> Nat]
  BY DEF BoardRecord
<1>0. \A f \in Files : Z[f] = 0
  OBVIOUS
<1>2. CASE IntervalOver(X, t)
  <2> DEFINE Y == [cleardashB(X, t) EXCEPT !.late = Z]
  <2>1. Interval(X, t) = Y
    BY <1>2 DEF Interval
  <2> HIDE DEF Z
  <2>2. /\ Y \in BoardRecord /\ Y.disLock = X.disLock
        /\ Y.totalpkts = 0 /\ Y.late = Z
        /\ \A n \in Nodes : Y.dashboard[n] = 0
    BY <1>1 DEF cleardashB, BoardRecord
  <2> HIDE DEF Y
  <2>3. Agrees(Y)
    BY <2>2, CountedEmpty DEF Agrees
  <2> QED
    BY <1>0, <2>1, <2>2, <2>3
<1>3. CASE ~IntervalOver(X, t) /\ X.end = 0
  <2> DEFINE Y == [X EXCEPT !.start = t, !.end = t + TIMEINT, !.late = Z]
  <2>1. Interval(X, t) = Y
    BY <1>3 DEF Interval
  <2> HIDE DEF Z
  <2>2. /\ Y \in BoardRecord /\ Y.disLock = X.disLock
        /\ Y.totalpkts = X.totalpkts /\ Y.dashboard = X.dashboard /\ Y.late = Z
    BY <1>1 DEF BoardRecord
  <2> HIDE DEF Y
  <2>3. Agrees(X) => Agrees(Y)
    BY <2>2, LockAgrees
  <2> QED
    BY <1>0, <2>1, <2>2, <2>3
<1>4. CASE ~IntervalOver(X, t) /\ X.end # 0
  BY <1>4 DEF Interval
<1> QED
  BY <1>2, <1>3, <1>4

\* StartInterval on the board of the thread.
LEMMA StartIntervalView ==
  ASSUME Records, NEW f \in Files, StartInterval(f), ~Undefined
  PROVE  /\ reader[f].board \in DOMAIN boards /\ Board(f) \in BoardRecord
         /\ Board(f) = boards[reader[f].board]
         /\ boards' = [boards EXCEPT ![reader[f].board] = Interval(Board(f), reader[f].time)]
         /\ Interval(Board(f), reader[f].time) \in BoardRecord
         /\ Interval(Board(f), reader[f].time).disLock = Board(f).disLock
         /\ Agrees(Board(f)) => Agrees(Interval(Board(f), reader[f].time))
         /\ \/ Interval(Board(f), reader[f].time) = Board(f)
            \/ \A g \in Files : Interval(Board(f), reader[f].time).late[g] = 0
<1>1. reader[f].pc \in Locked
  BY DEF StartInterval, Locked
<1>2. reader[f].board \in DOMAIN boards /\ Board(f) \in BoardRecord
      /\ Board(f) = boards[reader[f].board]
  BY <1>1, BoardView
<1>3. boards' = [boards EXCEPT ![reader[f].board] = Interval(Board(f), reader[f].time)]
  BY <1>2 DEF StartInterval
<1>4. reader[f].time \in Nat /\ TIMEINT \in Nat
  BY TimesNat
<1> QED
  BY <1>2, <1>3, <1>4, IntervalView

LEMMA StartIntervalStep ==
  ASSUME IInv, NEW f \in Files, StartInterval(f)
  PROVE  IInv'
<1> SUFFICES ASSUME ~Undefined PROVE IInv'
  BY UndefinedStep
<1> DEFINE b == reader[f].board
           Y == Interval(Board(f), reader[f].time)
<1>1. /\ UNCHANGED <<process, mainVars, file, cancelled, displayBoard, leaked>>
      /\ Goto(f, "count") /\ reader[f].pc \in Locked
  BY DEF StartInterval, Locked
<1>2. /\ b \in DOMAIN boards /\ boards' = [boards EXCEPT ![b] = Y] /\ Y \in BoardRecord
      /\ Board(f) = boards[b] /\ Y.disLock = Board(f).disLock
      /\ Agrees(Board(f)) => Agrees(Y)
  BY StartIntervalView DEF IInv
<1>3. Holds(f, Board(f))
  BY <1>1 DEF IInv, Totals
<1>4. Moves(f) /\ reader'[f].pc = "count" /\ reader'[f].board = b
  <2>1. "count" \in Pcs \ {"none"} /\ b # NULL
    BY <1>1 DEF Pcs, IInv, Records
  <2> QED
    BY <1>1, <2>1, GotoView DEF IInv
<1> HIDE DEF b, Y
<1>5. Holds(f, Y) /\ (Y.disLock = None => Agrees(Y)) /\ Board(f).disLock \in {f, Broken}
  <2>1. None # Broken
    BY DEF None, Broken
  <2> QED
    BY <1>2, <1>3, <2>1, FilesFacts DEF Holds
<1>6. Records' /\ Totals'
  BY <1>1, <1>2, <1>4, <1>5, ReaderHolds DEF IInv
<1> QED
  BY <1>1, <1>4, <1>6, ReaderStep DEF IInv, Simple

\* What AddToNode makes of a board's counts.
NodeCounts(f, b, n) == [b.dashboard EXCEPT ![reader[f].node] = @ + n]

LateCounts(f, b) ==
  [b.late EXCEPT ![f] = @ + (IF reader[f].time < b.start THEN 1 ELSE 0)]

\* What AddToNode changes.
LEMMA AddToNodeView ==
  ASSUME Records, NEW f \in Files, NEW X \in BoardRecord, NEW n \in {0, 1}
  PROVE  /\ AddToNode(f, X, n) \in BoardRecord
         /\ AddToNode(f, X, n).disLock = X.disLock
         /\ AddToNode(f, X, n).totalpkts = X.totalpkts
         /\ AddToNode(f, X, n).start = X.start
         /\ AddToNode(f, X, n).dashboard = NodeCounts(f, X, n)
         /\ AddToNode(f, X, n).late = LateCounts(f, X)
<1> DEFINE k == IF reader[f].time < X.start THEN 1 ELSE 0
           d == [X.dashboard EXCEPT ![reader[f].node] = @ + n]
           l == [X.late EXCEPT ![f] = @ + k]
           c == [X EXCEPT !.dashboard = d, !.late = l]
<1>1. X.dashboard \in [Nodes -> Nat] /\ X.late \in [Files -> Nat] /\ reader[f].node \in Nodes
  BY DEF BoardRecord, Records, ReaderRecord
<1>2. k \in Nat /\ n \in Nat
  OBVIOUS
<1>3. AddToNode(f, X, n) = c
  BY DEF AddToNode, BoardRecord
<1> HIDE DEF k
<1>4. d \in [Nodes -> Nat] /\ l \in [Files -> Nat]
  BY <1>1, <1>2
<1> HIDE DEF d, l
<1>5. /\ c \in BoardRecord /\ c.disLock = X.disLock /\ c.totalpkts = X.totalpkts
      /\ c.start = X.start /\ c.dashboard = d /\ c.late = l
  BY <1>4 DEF BoardRecord
<1> HIDE DEF c
<1> QED
  BY <1>3, <1>5 DEF d, l, k, NodeCounts, LateCounts

\* One packet counted keeps the totals if they are counted too.
LEMMA CountView ==
  ASSUME Records, NEW f \in Files, NEW X \in BoardRecord, NEW n \in {0, 1}, NEW m \in {0, 1}
  PROVE  /\ AddPacket(f, X, n, m) \in BoardRecord /\ AddPacket(f, X, n, m).start = X.start
         /\ AddPacket(f, X, n, m).late = LateCounts(f, X)
         /\ X.disLock = Broken => AddPacket(f, X, n, m).disLock = Broken
         /\ Agrees(X) /\ n = 1 /\ m = 1 => Agrees(AddPacket(f, X, n, m))
<1> DEFINE c == AddToNode(f, X, n)
           k == c.totalpkts + m
           e == [c EXCEPT !.totalpkts = k]
           l == IF X.disLock = Broken THEN Broken ELSE None
           d == [e EXCEPT !.disLock = l]
<1>1. /\ c \in BoardRecord /\ c.disLock = X.disLock /\ c.totalpkts = X.totalpkts
      /\ c.start = X.start /\ c.dashboard = NodeCounts(f, X, n)
  BY AddToNodeView
<1>2. X.dashboard \in [Nodes -> Nat] /\ X.totalpkts \in Nat /\ reader[f].node \in Nodes
  BY DEF BoardRecord, Records, ReaderRecord
<1> HIDE DEF c
<1>3. k \in Nat
  BY <1>1, <1>2
<1> HIDE DEF k
<1>4. /\ e \in BoardRecord /\ e.disLock = X.disLock /\ e.totalpkts = k /\ e.start = X.start
      /\ e.dashboard = c.dashboard /\ e.late = c.late
  BY <1>1, <1>3 DEF BoardRecord
<1>5. Unlocked(e) = d
  BY <1>4 DEF Unlocked
<1> HIDE DEF e
<1>6. l \in Files \cup {None, Garbage, Broken}
  OBVIOUS
<1>7. /\ d \in BoardRecord /\ d.disLock = l /\ d.totalpkts = k /\ d.start = X.start
      /\ d.dashboard = c.dashboard /\ d.late = c.late
  BY <1>4, <1>6, LockView
<1> HIDE DEF d
<1>8. ASSUME Agrees(X), n = 1, m = 1 PROVE Agrees(d)
  <2>1. /\ IsFiniteSet(Counted(d)) /\ Cardinality(Counted(d)) = Cardinality(Counted(X)) + 1
    BY <1>1, <1>2, <1>7, <1>8, CountedNext DEF Agrees, NodeCounts
  <2> QED
    BY <1>1, <1>7, <1>8, <2>1 DEF Agrees, k
<1>9. AddPacket(f, X, n, m) = d
  BY <1>1, <1>5 DEF c, e, k, BoardRecord, AddPacket
<1>10. c.late = LateCounts(f, X)
  BY AddToNodeView DEF c
<1>11. X.disLock = Broken => l = Broken
  OBVIOUS
<1> HIDE DEF l
<1> QED
  BY <1>7, <1>8, <1>9, <1>10, <1>11

\* Nobody shares a board whose lock works with its holder.
LEMMA NotRaced ==
  ASSUME Totals, NEW f \in Files, reader[f].pc \in Locked, Board(f).disLock # Broken
  PROVE  Increments(f) = {1}
<1>1. Holds(f, Board(f))
  BY DEF Totals
<1>2. \A g \in Files \ {f} : ~(reader[g].pc \in Locked /\ reader[g].board = reader[f].board)
  <2> SUFFICES ASSUME NEW g \in Files \ {f}, reader[g].pc \in Locked,
                      reader[g].board = reader[f].board
               PROVE FALSE
    OBVIOUS
  <2>1. Holds(g, Board(g)) /\ Board(g) = Board(f)
    BY DEF Totals, Board
  <2> QED
    BY <1>1, <2>1 DEF Holds
<1> QED
  BY <1>2 DEF Increments, Raced

\* CountPacket leaves the lock, or counts in both places.
LEMMA CountPacketView ==
  ASSUME Records, Totals, NEW f \in Files, CountPacket(f), ~Undefined
  PROVE  \E Y \in BoardRecord :
           /\ reader[f].board \in DOMAIN boards /\ Board(f) = boards[reader[f].board]
           /\ boards' = [boards EXCEPT ![reader[f].board] = Y]
           /\ Y.start = Board(f).start
           /\ Y.late = LateCounts(f, Board(f))
           /\ \/ Board(f).disLock = Broken /\ Y.disLock = Broken
              \/ Board(f).disLock # Broken /\ Y.disLock = Board(f).disLock
              \/ Board(f).disLock # Broken /\ (Agrees(Board(f)) => Agrees(Y))
<1> DEFINE b == reader[f].board
           X == Board(f)
           L == LateCounts(f, X)
<1>1. reader[f].pc \in Locked
  BY DEF CountPacket, Locked
<1>2. b \in DOMAIN boards /\ X \in BoardRecord /\ X = boards[b]
  BY <1>1, BoardView
<1>3. Increments(f) \subseteq {0, 1}
  BY DEF Increments
<1>4. X.disLock # Broken => Increments(f) = {1}
  BY <1>1, NotRaced
<1>5. CASE \E n, m \in Increments(f) : boards' = [boards EXCEPT ![b] = AddPacket(f, @, n, m)]
  <2>1. PICK n \in Increments(f), m \in Increments(f) :
             boards' = [boards EXCEPT ![b] = AddPacket(f, @, n, m)]
    BY <1>5
  <2> DEFINE Y == AddPacket(f, X, n, m)
  <2>2. n \in {0, 1} /\ m \in {0, 1}
    BY <1>3, <2>1
  <2>3. boards' = [boards EXCEPT ![b] = Y]
    BY <1>2, <2>1
  <2>4. /\ Y \in BoardRecord /\ Y.start = X.start /\ Y.late = L
        /\ X.disLock = Broken => Y.disLock = Broken
        /\ Agrees(X) /\ n = 1 /\ m = 1 => Agrees(Y)
    BY <1>2, <2>2, CountView
  <2>5. X.disLock # Broken => n = 1 /\ m = 1
    BY <1>4, <2>1
  <2> HIDE DEF Y, L, X, b
  <2> QED
    BY <1>2, <2>3, <2>4, <2>5 DEF X, L, b
<1>6. CASE \E n \in Increments(f) : boards' = [boards EXCEPT ![b] = AddToNode(f, @, n)]
  <2>1. PICK n \in Increments(f) : boards' = [boards EXCEPT ![b] = AddToNode(f, @, n)]
    BY <1>6
  <2> DEFINE Y == AddToNode(f, X, n)
  <2>2. n \in {0, 1}
    BY <1>3, <2>1
  <2>3. boards' = [boards EXCEPT ![b] = Y]
    BY <1>2, <2>1
  <2>4. Y \in BoardRecord /\ Y.start = X.start /\ Y.late = L /\ Y.disLock = X.disLock
    BY <1>2, <2>2, AddToNodeView
  <2> HIDE DEF Y, L, X, b
  <2> QED
    BY <1>2, <2>3, <2>4 DEF X, L, b
<1> QED
  BY <1>5, <1>6 DEF CountPacket

LEMMA CountPacketStep ==
  ASSUME IInv, NEW f \in Files, CountPacket(f)
  PROVE  IInv'
<1> SUFFICES ASSUME ~Undefined PROVE IInv'
  BY UndefinedStep
<1> DEFINE b == reader[f].board
<1>1. /\ UNCHANGED <<process, mainVars, file, cancelled, displayBoard>>
      /\ Leave(f, "read") /\ reader[f].pc \in Locked
  BY DEF CountPacket, Locked
<1>2. PICK Y \in BoardRecord :
           /\ b \in DOMAIN boards /\ Board(f) = boards[b]
           /\ boards' = [boards EXCEPT ![b] = Y]
           /\ \/ Board(f).disLock = Broken /\ Y.disLock = Broken
              \/ Board(f).disLock # Broken /\ Y.disLock = Board(f).disLock
              \/ Board(f).disLock # Broken /\ (Agrees(Board(f)) => Agrees(Y))
  BY CountPacketView DEF IInv
<1>3. Holds(f, Board(f))
  BY <1>1 DEF IInv, Totals
<1>4. Moves(f) /\ reader'[f].pc = "read"
  BY <1>1, LeaveView DEF IInv
<1> HIDE DEF b
<1>5. /\ Y.disLock = None => Agrees(Y)
      /\ boards[b].disLock \in {None, f, Broken}
      /\ boards[b].disLock = Broken => Y.disLock = Broken
  <2>1. None # Broken
    BY DEF None, Broken
  <2> QED
    BY <1>2, <1>3, <2>1, FilesFacts DEF Holds
<1>6. Records' /\ Totals'
  <2>1. reader'[f].pc \notin Locked /\ reader'[f].pc # "return"
    BY <1>4 DEF Locked
  <2> QED
    BY <1>1, <1>2, <1>4, <1>5, <2>1, ReaderHolds DEF IInv
<1>7. leaked' \in BOOLEAN
  BY DEF CountPacket, IInv, Simple
<1> QED
  BY <1>1, <1>4, <1>6, <1>7, ReaderStep

-----------------------------------------------------------------------------
(* The steps of main *)
\* main does not touch readers and boards.
LEMMA MainStep ==
  ASSUME IInv, UNCHANGED <<reader, boardVars>>, Simple', Round', Remembered'
  PROVE  IInv'
<1>1. Records'
  BY DEF IInv, Records, ReaderRecord, BoardRecord, boardVars
<1>2. Totals'
  BY DEF IInv, Totals, Board, Holds, Agrees, Counted, boardVars
<1> QED
  BY <1>1, <1>2 DEF IInv

LEMMA TakeFileStep ==
  ASSUME IInv, NEW f \in Files, TakeFile(f)
  PROVE  IInv'
<1> DEFINE n == Len(filesList)
<1>1. /\ main = "scan" /\ file[f] = "ready" /\ file' = [file EXCEPT ![f] = "taken"]
      /\ filesList' = Append(filesList, f)
      /\ UNCHANGED <<process, main, index, threads, joined, notCreated, reader, cancelled,
                     boardVars>>
  BY DEF TakeFile
<1>2. Simple'
  BY <1>1 DEF IInv, Simple, boardVars
<1>3. /\ filesList \in Seq(Files) /\ n \in Nat /\ DOMAIN filesList = 1..n
      /\ \A i, j \in 1..n : filesList[i] = filesList[j] => i = j
      /\ \A i \in 1..n : filesList[i] \in Files /\ file[filesList[i]] # "ready"
      /\ index = 1
  BY <1>1 DEF IInv, Round
<1>4. /\ filesList' \in Seq(Files) /\ Len(filesList') = n + 1 /\ DOMAIN filesList' = 1..(n + 1)
      /\ \A i \in 1..n : filesList'[i] = filesList[i]
      /\ filesList'[n + 1] = f
  BY <1>1, <1>3, AppendProperties
<1>5. /\ file \in [Files -> {"ready", "taken", "completed"}]
      /\ \A g \in Files : file'[g] = IF g = f THEN "taken" ELSE file[g]
  BY <1>1 DEF IInv, Simple
<1> HIDE DEF n
<1>6. Round'
  <2>1. \A i \in 1..(n + 1) : i \in 1..n \/ i = n + 1
    BY <1>3
  <2>2. \A i, j \in DOMAIN filesList' : filesList'[i] = filesList'[j] => i = j
    BY <1>1, <1>3, <1>4, <2>1
  <2>3. \A i \in DOMAIN filesList' : file'[filesList'[i]] # "ready"
    BY <1>3, <1>4, <1>5, <2>1
  <2>4. index' = 1 /\ 1 \in 1..(n + 1) + 1
    BY <1>1, <1>3
  <2> QED
    BY <1>4, <2>2, <2>3, <2>4 DEF Round
<1>7. Remembered'
  <2> SUFFICES ASSUME NEW g \in Files, file'[g] # "ready"
               PROVE  \/ \E i \in DOMAIN filesList' : filesList'[i] = g
                      \/ reader[g].pc # "none"
                      \/ g \in notCreated
    BY <1>1 DEF Remembered
  <2>1. CASE g = f
    <3>1. n + 1 \in DOMAIN filesList'
      BY <1>3, <1>4
    <3> QED
      BY <1>4, <2>1, <3>1
  <2>2. CASE g # f
    <3>1. file[g] # "ready"
      BY <1>5, <2>2
    <3>2. \A i \in 1..n : i \in 1..(n + 1)
      BY <1>3
    <3> QED
      BY <1>3, <1>4, <3>1, <3>2 DEF IInv, Remembered
  <2> QED
    BY <2>1, <2>2
<1> QED
  BY <1>1, <1>2, <1>6, <1>7, MainStep

LEMMA CountThreadsStep ==
  ASSUME IInv, CountThreads
  PROVE  IInv'
<1>1. /\ main = "scan" /\ main' \in {"join", "create"}
      /\ UNCHANGED <<process, filesList, index, threads, joined, notCreated, file, reader,
                     cancelled, boardVars>>
  BY DEF CountThreads
<1>2. Simple'
  BY <1>1 DEF IInv, Simple, boardVars
<1>3. Round'
  BY <1>1 DEF IInv, Round
<1>4. Remembered'
  <2>1. index = 1 /\ \A i \in DOMAIN filesList : i >= 1
    BY <1>1 DEF IInv, Round
  <2> QED
    BY <1>1, <2>1 DEF IInv, Remembered
<1> QED
  BY <1>1, <1>2, <1>3, <1>4, MainStep

LEMMA JoinThreadStep ==
  ASSUME IInv, JoinThread
  PROVE  IInv'
<1> SUFFICES ASSUME ~Undefined PROVE IInv'
  BY UndefinedStep
<1>1. /\ main = "join" /\ index <= Len(filesList) /\ index' = index + 1
      /\ UNCHANGED <<process, main, filesList, threads, notCreated, file, reader, boardVars>>
  BY DEF JoinThread
<1>2. Simple'
  <2>1. cancelled' \subseteq Files /\ joined' \subseteq Files
    BY DEF JoinThread, IInv, Simple
  <2> QED
    BY <1>1, <2>1 DEF IInv, Simple, boardVars
<1>3. Round'
  <2>1. index' \in 1..Len(filesList) + 1
    BY <1>1 DEF IInv, Round
  <2> QED
    BY <1>1, <2>1 DEF IInv, Round
<1>4. Remembered'
  BY <1>1 DEF IInv, Remembered
<1> QED
  BY <1>1, <1>2, <1>3, <1>4, MainStep

LEMMA EndJoinStep ==
  ASSUME IInv, EndJoin
  PROVE  IInv'
<1>1. /\ main = "join" /\ main' = "create" /\ index' = 1
      /\ UNCHANGED <<process, filesList, threads, joined, notCreated, file, reader,
                     cancelled, boardVars>>
  BY DEF EndJoin
<1>2. Simple'
  BY <1>1 DEF IInv, Simple, boardVars
<1>0. Len(filesList) \in Nat /\ DOMAIN filesList = 1..Len(filesList)
  BY DEF IInv, Round
<1>3. Round'
  <2>1. 1 \in 1..Len(filesList) + 1
    BY <1>0
  <2> QED
    BY <1>1, <2>1 DEF IInv, Round
<1>4. Remembered'
  <2>1. \A i \in DOMAIN filesList : i >= 1
    BY <1>0
  <2> QED
    BY <1>1, <2>1 DEF IInv, Remembered
<1> QED
  BY <1>1, <1>2, <1>3, <1>4, MainStep

LEMMA EndRoundStep ==
  ASSUME IInv, EndRound
  PROVE  IInv'
<1>1. /\ main = "create" /\ index > Len(filesList)
      /\ main' = "scan" /\ index' = 1 /\ filesList' = <<>>
      /\ UNCHANGED <<process, threads, joined, notCreated, file, reader, cancelled, boardVars>>
  BY DEF EndRound
<1>2. Simple'
  BY <1>1 DEF IInv, Simple, boardVars
<1>3. Round'
  <2>1. Len(filesList') = 0 /\ filesList' \in Seq(Files) /\ DOMAIN filesList' = {}
    BY <1>1
  <2>2. 1 \in 1..0 + 1
    OBVIOUS
  <2> QED
    BY <1>1, <2>1, <2>2 DEF Round
<1>4. Remembered'
  <2>1. \A i \in DOMAIN filesList : ~(i >= index)
    <3>1. Len(filesList) \in Nat /\ DOMAIN filesList = 1..Len(filesList)
          /\ index \in 1..Len(filesList) + 1
      BY DEF IInv, Round
    <3> QED
      BY <1>1, <3>1
  <2> QED
    BY <1>1, <2>1 DEF IInv, Remembered
<1> QED
  BY <1>1, <1>2, <1>3, <1>4, MainStep

LEMMA CreateThreadStep ==
  ASSUME IInv, CreateThread
  PROVE  IInv'
<1> SUFFICES ASSUME ~Undefined PROVE IInv'
  BY UndefinedStep
<1> DEFINE f == filesList[index]
<1>1. /\ main = "create" /\ index <= Len(filesList) /\ index' = index + 1
      /\ UNCHANGED <<process, main, filesList, joined, file, cancelled, boardVars>>
  BY DEF CreateThread
<1>2. /\ Len(filesList) \in Nat /\ DOMAIN filesList = 1..Len(filesList)
      /\ index \in DOMAIN filesList /\ index \in Nat /\ f \in Files
      /\ \A i \in DOMAIN filesList : filesList[i] = f => i = index
  BY <1>1 DEF IInv, Round
<1>3. \/ Goto(f, "open") /\ threads' = [threads EXCEPT ![index] = f] /\ UNCHANGED notCreated
      \/ notCreated' = notCreated \cup {f} /\ UNCHANGED <<reader, threads>>
  BY DEF CreateThread, Goto
<1>4. Round'
  <2>1. index' \in 1..Len(filesList) + 1
    BY <1>1, <1>2
  <2> QED
    BY <1>1, <2>1 DEF IInv, Round
<1>5. \A i \in DOMAIN filesList : i >= index /\ i # index => i >= index'
  BY <1>1, <1>2
<1>6. CASE Goto(f, "open") /\ threads' = [threads EXCEPT ![index] = f] /\ UNCHANGED notCreated
  <2>1. "open" \in Pcs \ {"none"} /\ "open" \notin {"early", "lock"} \cup Locked
    BY DEF Pcs, Locked
  <2> HIDE DEF f
  <2>2. Moves(f) /\ reader'[f].pc = "open"
    BY <1>2, <1>6, <2>1, GotoView DEF IInv
  <2>3. Records' /\ Totals'
    BY <1>1, <1>2, <2>1, <2>2, ReaderAlone DEF IInv, boardVars
  <2>4. Simple'
    BY <1>1, <1>2, <1>6 DEF IInv, Simple, boardVars
  <2>5. Remembered'
    <3> SUFFICES ASSUME NEW g \in Files, file[g] # "ready", g # f
                 PROVE  \/ \E i \in DOMAIN filesList : filesList[i] = g /\ i >= index'
                        \/ reader'[g].pc # "none"
                        \/ g \in notCreated
      BY <1>1, <1>6, <2>2 DEF Remembered
    <3>1. reader'[g] = reader[g]
      BY <2>2 DEF Moves
    <3>2. \/ \E i \in DOMAIN filesList : filesList[i] = g /\ i >= index
          \/ reader[g].pc # "none"
          \/ g \in notCreated
      BY <1>1 DEF IInv, Remembered
    <3>3. \A i \in DOMAIN filesList : filesList[i] = g => i # index
      BY <1>2 DEF f
    <3> QED
      BY <1>5, <3>1, <3>2, <3>3
  <2> QED
    BY <1>4, <2>3, <2>4, <2>5 DEF IInv
<1>7. CASE notCreated' = notCreated \cup {f} /\ UNCHANGED <<reader, threads>>
  <2> HIDE DEF f
  <2>1. Simple'
    BY <1>1, <1>2, <1>7 DEF IInv, Simple, boardVars
  <2>2. Remembered'
    <3> SUFFICES ASSUME NEW g \in Files, file[g] # "ready", g # f
                 PROVE  \/ \E i \in DOMAIN filesList : filesList[i] = g /\ i >= index'
                        \/ reader[g].pc # "none"
                        \/ g \in notCreated
      BY <1>1, <1>7 DEF Remembered
    <3>2. \/ \E i \in DOMAIN filesList : filesList[i] = g /\ i >= index
          \/ reader[g].pc # "none"
          \/ g \in notCreated
      BY <1>1 DEF IInv, Remembered
    <3>3. \A i \in DOMAIN filesList : filesList[i] = g => i # index
      BY <1>2 DEF f
    <3> QED
      BY <1>5, <3>2, <3>3
  <2> QED
    BY <1>1, <1>4, <1>7, <2>1, <2>2, MainStep
<1> QED
  BY <1>3, <1>6, <1>7

-----------------------------------------------------------------------------
\* The invariant is inductive.
LEMMA InitInv == Init => IInv
<1> SUFFICES ASSUME Init PROVE IInv
  OBVIOUS
<1>1. Simple
  BY DEF Init, Simple
<1>2. Records
  <2>1. [Idle EXCEPT !.pc = "none"] \in ReaderRecord
    BY IdleFacts DEF ReaderRecord, Idle, Pcs
  <2>2. \A f \in Files : reader[f].pc = "none"
    BY DEF Init, Idle
  <2>3. reader \in [Files -> ReaderRecord]
    BY <2>1 DEF Init
  <2>4. boards \in Seq(BoardRecord) /\ displayBoard = NULL
    BY DEF Init
  <2> QED
    BY <2>2, <2>3, <2>4 DEF Records, Locked
<1>3. Round
  <2>1. filesList = <<>> /\ index = 1
    BY DEF Init
  <2>2. Len(filesList) = 0 /\ DOMAIN filesList = {} /\ filesList \in Seq(Files)
    BY <2>1
  <2>3. 1 \in 1..0 + 1
    OBVIOUS
  <2> QED
    BY <2>1, <2>2, <2>3 DEF Round
<1>4. Totals
  <2>1. \A f \in Files : reader[f].pc = "none"
    BY DEF Init, Idle
  <2>2. DOMAIN boards = {}
    BY DEF Init
  <2> QED
    BY <2>1, <2>2 DEF Totals, Locked
<1>5. Remembered
  BY DEF Init, Remembered
<1> QED
  BY <1>1, <1>2, <1>3, <1>4, <1>5 DEF IInv

LEMMA NextInv == IInv /\ [Next]_vars => IInv'
<1> SUFFICES ASSUME IInv, [Next]_vars PROVE IInv'
  OBVIOUS
<1>1. CASE UNCHANGED vars
  <2>1. UNCHANGED <<reader, boardVars, process, mainVars, file, cancelled>>
    BY <1>1 DEF vars
  <2>2. Simple'
    BY <2>1 DEF IInv, Simple, mainVars, boardVars
  <2>3. Round' /\ Remembered'
    BY <2>1 DEF IInv, Round, Remembered, mainVars
  <2> QED
    BY <2>1, <2>2, <2>3, MainStep
<1>2. CASE Main
  BY <1>2, TakeFileStep, CountThreadsStep, JoinThreadStep, EndJoinStep,
     CreateThreadStep, EndRoundStep DEF Main
<1>3. ASSUME NEW f \in Files, readPcapFile(f) PROVE IInv'
  BY <1>3, OpenTraceStep, ReadPacketStep, getdashBStep, CheckTimeStep, LockStep,
     StartIntervalStep, CountPacketStep, StatsBoardStep, RenameCompletedStep, CancelStep
     DEF readPcapFile
<1> QED
  BY <1>1, <1>2, <1>3 DEF Next

\* The invariant holds in every reachable state.
THEOREM InvHolds == Spec => []IInv
BY InitInv, NextInv, PTL DEF Spec

\* If disLock works at all, whoever takes it finds totals that agree with the counts per
\* node, whichever threads counted, started a new interval or were cancelled before
\* (displayStats::addPkt).
THEOREM TotalsCorrect == Spec => []TotalsAgree
<1>1. IInv => TotalsAgree
  BY TypeFromInv DEF IInv, TotalsAgree, Totals, Agrees
<1> QED
  BY InvHolds, <1>1, PTL

\* main forgets no file it has taken, however often a round waits for earlier threads
\* (main, readPcapFile).
THEOREM NoFileForgottenCorrect == Spec => []NoFileForgotten
<1>1. IInv => NoFileForgotten
  BY DEF IInv, Remembered, NoFileForgotten
<1> QED
  BY InvHolds, <1>1, PTL

-----------------------------------------------------------------------------
(* Late packets *)
\* Between the look at the start and the unlock.
Looked == {"lock"} \cup Locked

\* Boards keep what is late in them or start afresh, and nobody passes the look at the
\* start who should not.
LEMMA LateKept ==
  ASSUME OnceLate,
         \A c \in DOMAIN boards' :
           \/ \A f \in Files : boards'[c].late[f] = 0
           \/ c \in DOMAIN boards /\ boards'[c].late = boards[c].late
              /\ boards'[c].start = boards[c].start,
         \A g \in Files : reader'[g].pc \in Looked =>
           \/ reader[g].pc \in Looked /\ reader'[g].board = reader[g].board
              /\ reader'[g].time = reader[g].time
           \/ boards' = boards /\ reader'[g].time >= boards[reader'[g].board].start
  PROVE  OnceLate'
<1> SUFFICES ASSUME NEW c \in DOMAIN boards', NEW g \in Files
             PROVE  /\ boards'[c].late[g] <= 1
                    /\ boards'[c].late[g] = 1 /\ reader'[g].pc \in Looked
                       /\ reader'[g].board = c => reader'[g].time >= boards'[c].start
  BY DEF OnceLate, Looked
<1>1. CASE \A f \in Files : boards'[c].late[f] = 0
  BY <1>1
<1>2. CASE c \in DOMAIN boards /\ boards'[c].late = boards[c].late
           /\ boards'[c].start = boards[c].start
  <2>1. /\ boards[c].late[g] <= 1
        /\ boards[c].late[g] = 1 /\ reader[g].pc \in Looked /\ reader[g].board = c
             => reader[g].time >= boards[c].start
    BY <1>2 DEF OnceLate, Looked
  <2> QED
    BY <1>2, <2>1
<1> QED
  BY <1>1, <1>2

\* A step that leaves the boards alone.
LEMMA LateUnchanged ==
  ASSUME OnceLate, boards' = boards,
         \A g \in Files : reader'[g].pc \in Looked =>
           reader[g].pc \in Looked /\ reader'[g].board = reader[g].board
           /\ reader'[g].time = reader[g].time
  PROVE  OnceLate'
BY LateKept

\* The same when a board is made.
LEMMA LateMade ==
  ASSUME Records, OnceLate, MakeBoard,
         \A g \in Files : reader'[g].pc \in Looked =>
           reader[g].pc \in Looked /\ reader'[g].board = reader[g].board
           /\ reader'[g].time = reader[g].time
  PROVE  OnceLate'
BY BoardMade, LateKept

\* A thread that goes on to pc keeps its packet; one that is done with it is elsewhere.
LEMMA LateGoto ==
  ASSUME Records, NEW f \in Files, NEW pc \in Pcs \ {"none"}, Goto(f, pc),
         pc \in {"early", "lock"} \cup Locked => reader[f].board # NULL,
         pc \in Looked => reader[f].pc \in Looked
  PROVE  \A g \in Files : reader'[g].pc \in Looked =>
           reader[g].pc \in Looked /\ reader'[g].board = reader[g].board
           /\ reader'[g].time = reader[g].time
BY GotoView DEF Moves

LEMMA LateElsewhere ==
  ASSUME NEW f \in Files, Moves(f), reader'[f].pc \notin Looked
  PROVE  \A g \in Files : reader'[g].pc \in Looked =>
           reader[g].pc \in Looked /\ reader'[g].board = reader[g].board
           /\ reader'[g].time = reader[g].time
BY DEF Moves

LEMMA LateLeave ==
  ASSUME Records, NEW f \in Files, NEW pc \in {"read", "ended"}, Leave(f, pc)
  PROVE  \A g \in Files : reader'[g].pc \in Looked =>
           reader[g].pc \in Looked /\ reader'[g].board = reader[g].board
           /\ reader'[g].time = reader[g].time
<1>1. Moves(f) /\ reader'[f].pc = pc
  BY LeaveView
<1>2. pc \notin Looked
  BY DEF Looked, Locked
<1> QED
  BY <1>1, <1>2, LateElsewhere

LEMMA LateUndefined ==
  ASSUME OnceLate, Undefined
  PROVE  OnceLate'
BY LateUnchanged DEF Undefined, boardVars

LEMMA LateMain ==
  ASSUME IInv, OnceLate, Main
  PROVE  OnceLate'
<1>1. CASE Undefined
  BY <1>1, LateUndefined
<1>2. CASE UNCHANGED <<reader, boards>>
  BY <1>2, LateUnchanged
<1>3. ASSUME NEW f \in Files, Goto(f, "open"), boards' = boards PROVE OnceLate'
  <2>1. "open" \in Pcs \ {"none"} /\ "open" \notin {"early", "lock"} \cup Locked
        /\ "open" \notin Looked
    BY DEF Pcs, Locked, Looked
  <2> QED
    BY <1>3, <2>1, LateGoto, LateUnchanged DEF IInv
<1>4. ASSUME CreateThread, ~Undefined PROVE OnceLate'
  <2>0. filesList[index] \in Files
    BY <1>4 DEF CreateThread, IInv, Round
  <2>1. boards' = boards
    BY <1>4 DEF CreateThread, boardVars
  <2>2. Goto(filesList[index], "open") \/ reader' = reader
    BY <1>4 DEF CreateThread, Goto
  <2> QED
    BY <1>2, <1>3, <2>0, <2>1, <2>2
<1>5. CASE ~CreateThread /\ ~Undefined
  BY <1>2, <1>5 DEF Main, TakeFile, CountThreads, JoinThread, EndJoin, EndRound, boardVars
<1> QED
  BY <1>1, <1>4, <1>5

\* The steps of a reader outside disLock.
LEMMA LateOutside ==
  ASSUME IInv, OnceLate, NEW f \in Files,
         OpenTrace(f) \/ ReadPacket(f) \/ getdashB(f) \/ StatsBoard(f) \/ RenameCompleted(f)
           \/ Cancel(f)
  PROVE  OnceLate'
<1>0. /\ Records
      /\ \A pc \in {"read", "new", "return", "statsNew", "rename", "board", "stats", "early"} :
           pc \notin Looked
      /\ \A pc \in {"read", "new", "return", "statsNew", "rename"} :
           pc \in Pcs \ {"none"} /\ pc \notin {"early", "lock"} \cup Locked
  BY DEF IInv, Looked, Locked, Pcs
<1>1. CASE Undefined
  BY <1>1, LateUndefined
<1>2. ASSUME NEW pc \in {"read", "new", "return", "statsNew", "rename"}, Goto(f, pc),
             boards' = boards \/ MakeBoard
      PROVE  OnceLate'
  <2>1. \A g \in Files : reader'[g].pc \in Looked =>
           reader[g].pc \in Looked /\ reader'[g].board = reader[g].board
           /\ reader'[g].time = reader[g].time
    BY <1>0, <1>2, LateGoto
  <2> QED
    BY <1>0, <1>2, <2>1, LateUnchanged, LateMade
<1>3. CASE OpenTrace(f)
  BY <1>1, <1>2, <1>3 DEF OpenTrace, boardVars
<1>4. CASE ReadPacket(f)
  <2>1. boards' = boards
    BY <1>4 DEF ReadPacket, boardVars
  <2>2. Moves(f) /\ reader'[f].pc \notin Looked
    BY <1>0, <1>4, ReadPacketMoves
  <2> QED
    BY <2>1, <2>2, LateElsewhere, LateUnchanged
<1>5. CASE getdashB(f)
  <2>1. CASE boards' = boards /\ displayBoard # NULL
             /\ reader' = [reader EXCEPT ![f].board = displayBoard, ![f].pc = "early"]
    <3>1. Moves(f) /\ reader'[f].pc \notin Looked
      BY <1>0, <2>1, BoardFound
    <3> QED
      BY <2>1, <3>1, LateElsewhere, LateUnchanged
  <2>2. reader[f].pc = "return" => displayBoard # NULL
    BY DEF IInv, Records
  <2> QED
    BY <1>2, <1>5, <2>1, <2>2 DEF getdashB
<1>6. CASE StatsBoard(f)
  <2>1. CASE Goto(f, IF displayBoard = NULL THEN "statsNew" ELSE "rename") /\ boards' = boards
    BY <1>2, <2>1
  <2>2. CASE MakeBoard /\ Goto(f, "rename")
    BY <1>2, <2>2
  <2> QED
    BY <1>6, <2>1, <2>2 DEF StatsBoard, boardVars
<1>7. CASE RenameCompleted(f) \/ Cancel(f)
  <2>1. Leave(f, "ended") /\ boards' = boards
    BY <1>7 DEF RenameCompleted, Cancel, boardVars
  <2> QED
    BY <1>0, <2>1, LateLeave, LateUnchanged
<1> QED
  BY <1>3, <1>4, <1>5, <1>6, <1>7

\* Whoever passes the look at the start is not late then.
LEMMA LateCheck ==
  ASSUME IInv, OnceLate, NEW f \in Files, CheckTime(f)
  PROVE  OnceLate'
<1>0. Records /\ boards' = boards /\ reader[f].pc = "early"
  BY DEF IInv, CheckTime, boardVars
<1>1. CASE Leave(f, "read")
  BY <1>0, <1>1, LateLeave, LateUnchanged
<1>2. CASE Goto(f, "lock") /\ ~(Board(f).start > reader[f].time)
  <2>1. "lock" \in Pcs \ {"none"} /\ reader[f].board # NULL
    BY <1>0 DEF Pcs, Records
  <2>2. /\ Moves(f) /\ reader'[f].board = reader[f].board /\ reader'[f].time = reader[f].time
    BY <1>0, <1>2, <2>1, GotoView
  <2>3. Board(f) \in BoardRecord /\ Board(f) = boards[reader[f].board]
    BY <1>0, BoardView
  <2>4. Board(f).start \in Nat /\ reader[f].time \in Nat
    BY <1>0, <2>3, TimesNat DEF BoardRecord
  <2>5. reader'[f].time >= boards[reader'[f].board].start
    BY <1>2, <2>2, <2>3, <2>4
  <2>6. \A g \in Files : reader'[g].pc \in Looked =>
           \/ reader[g].pc \in Looked /\ reader'[g].board = reader[g].board
              /\ reader'[g].time = reader[g].time
           \/ boards' = boards /\ reader'[g].time >= boards[reader'[g].board].start
    BY <1>0, <2>2, <2>5 DEF Moves
  <2> QED
    BY <1>0, <2>6, LateKept
<1> QED
  BY <1>1, <1>2 DEF CheckTime

\* The lock is taken, and the interval perhaps started.
LEMMA LateLocked ==
  ASSUME IInv, OnceLate, NEW f \in Files, Lock(f) \/ StartInterval(f)
  PROVE  OnceLate'
<1> SUFFICES ASSUME ~Undefined PROVE OnceLate'
  BY LateUndefined
<1> DEFINE b == reader[f].board
<1>0. Records /\ reader[f].board # NULL /\ reader[f].pc \in Looked
  BY DEF IInv, Records, Lock, StartInterval, Locked, Looked
<1>1. \E pc \in {"interval", "count"} : Goto(f, pc)
  BY DEF Lock, StartInterval
<1>2. \A g \in Files : reader'[g].pc \in Looked =>
           reader[g].pc \in Looked /\ reader'[g].board = reader[g].board
           /\ reader'[g].time = reader[g].time
  <2>1. PICK pc \in {"interval", "count"} : Goto(f, pc)
    BY <1>1
  <2>2. pc \in Pcs \ {"none"}
    BY DEF Pcs
  <2> QED
    BY <1>0, <2>1, <2>2, LateGoto
<1>3. \E Y \in BoardRecord :
        /\ b \in DOMAIN boards /\ boards' = [boards EXCEPT ![b] = Y]
        /\ \/ Y.late = boards[b].late /\ Y.start = boards[b].start
           \/ \A g \in Files : Y.late[g] = 0
  <2>1. CASE Lock(f)
    BY <1>0, <2>1, LocksView
  <2>2. CASE StartInterval(f)
    BY <1>0, <2>2, StartIntervalView
  <2> QED
    BY <2>1, <2>2
<1>4. PICK Y \in BoardRecord :
        /\ b \in DOMAIN boards /\ boards' = [boards EXCEPT ![b] = Y]
        /\ \/ Y.late = boards[b].late /\ Y.start = boards[b].start
           \/ \A g \in Files : Y.late[g] = 0
  BY <1>3
<1> HIDE DEF b
<1>5. DOMAIN boards' = DOMAIN boards /\ boards'[b] = Y
      /\ \A c \in DOMAIN boards : c # b => boards'[c] = boards[c]
  BY <1>0, <1>4, BoardChange
<1>6. \A c \in DOMAIN boards' :
        \/ \A g \in Files : boards'[c].late[g] = 0
        \/ c \in DOMAIN boards /\ boards'[c].late = boards[c].late
           /\ boards'[c].start = boards[c].start
  BY <1>4, <1>5
<1> QED
  BY <1>2, <1>6, LateKept

\* A late packet is counted: it is the first, and its thread is done with it.
LEMMA LateCounted ==
  ASSUME IInv, OnceLate, NEW f \in Files, CountPacket(f)
  PROVE  OnceLate'
<1> SUFFICES ASSUME ~Undefined PROVE OnceLate'
  BY LateUndefined
<1> DEFINE b == reader[f].board
           X == boards[b]
<1>0. Records /\ Totals /\ reader[f].pc \in Looked
  BY DEF IInv, CountPacket, Looked, Locked
<1>1. PICK Y \in BoardRecord :
           /\ b \in DOMAIN boards /\ Board(f) = X
           /\ boards' = [boards EXCEPT ![b] = Y]
           /\ Y.start = X.start /\ Y.late = LateCounts(f, X)
  BY <1>0, CountPacketView
<1>2. Moves(f) /\ reader'[f].pc = "read"
  BY <1>0, LeaveView DEF CountPacket
<1>3. "read" \notin Looked
  BY DEF Looked, Locked
<1>4. X \in BoardRecord /\ X.late \in [Files -> Nat] /\ X.start \in Nat /\ reader[f].time \in Nat
  BY <1>0, <1>1, BoardsNow, TimesNat DEF BoardRecord
<1>5. X.late[f] <= 1 /\ (X.late[f] = 1 => reader[f].time >= X.start)
  BY <1>0, <1>1 DEF OnceLate, Looked
<1>6. Y.late[f] <= 1 /\ \A g \in Files : g # f => Y.late[g] = X.late[g]
  <2>1. \A g \in Files : g # f => Y.late[g] = X.late[g]
    BY <1>1, <1>4 DEF LateCounts
  <2>2. Y.late[f] = X.late[f] + (IF reader[f].time < X.start THEN 1 ELSE 0)
    BY <1>1, <1>4 DEF LateCounts
  <2>3. X.late[f] \in Nat
    BY <1>4
  <2> HIDE DEF X
  <2>4. Y.late[f] <= 1
    BY <1>4, <1>5, <2>2, <2>3
  <2> QED
    BY <2>1, <2>4
<1> HIDE DEF b
<1>7. DOMAIN boards' = DOMAIN boards /\ boards'[b] = Y
      /\ \A c \in DOMAIN boards : c # b => boards'[c] = boards[c]
  BY <1>0, <1>1, BoardChange
<1>8. ASSUME NEW c \in DOMAIN boards', NEW g \in Files
      PROVE  /\ boards'[c].late[g] <= 1
             /\ boards'[c].late[g] = 1 /\ reader'[g].pc \in {"lock"} \cup Locked
                /\ reader'[g].board = c => reader'[g].time >= boards'[c].start
  <2>1. CASE c # b
    <3>1. boards'[c] = boards[c] /\ c \in DOMAIN boards
      BY <1>7, <2>1
    <3>2. g = f => reader'[g].pc \notin {"lock"} \cup Locked
      BY <1>2, <1>3 DEF Looked
    <3>3. g # f => reader'[g] = reader[g]
      BY <1>2 DEF Moves
    <3> QED
      BY <3>1, <3>2, <3>3 DEF OnceLate
  <2>2. CASE c = b /\ g = f
    BY <1>2, <1>3, <1>6, <1>7, <2>2 DEF Looked
  <2>3. CASE c = b /\ g # f
    <3>1. reader'[g] = reader[g] /\ Y.late[g] = X.late[g] /\ Y.start = X.start
      BY <1>1, <1>2, <1>6, <2>3 DEF Moves
    <3>2. /\ X.late[g] <= 1
          /\ X.late[g] = 1 /\ reader[g].pc \in {"lock"} \cup Locked /\ reader[g].board = c
               => reader[g].time >= X.start
      BY <1>1, <2>3 DEF OnceLate
    <3> HIDE DEF X
    <3> QED
      BY <1>7, <2>3, <3>1, <3>2
  <2> QED
    BY <2>1, <2>2, <2>3
<1> QED
  BY <1>8 DEF OnceLate

\* Until the next interval no thread counts a second late packet, though the look at the
\* interval's start is outside the lock (displayStats::addPkt), with or without a lock.
THEOREM OneLatePacketCorrect == Spec => []OneLatePacket
<1>1. Init => OnceLate
  BY DEF Init, OnceLate
<1>2. IInv /\ OnceLate /\ [Next]_vars => OnceLate'
  <2> SUFFICES ASSUME IInv, OnceLate, [Next]_vars PROVE OnceLate'
    OBVIOUS
  <2>1. CASE UNCHANGED vars
    BY <2>1, LateUnchanged DEF vars, boardVars
  <2>2. CASE Main
    BY <2>2, LateMain
  <2>3. ASSUME NEW f \in Files, readPcapFile(f) PROVE OnceLate'
    BY <2>3, LateOutside, LateCheck, LateLocked, LateCounted DEF readPcapFile
  <2> QED
    BY <2>1, <2>2, <2>3 DEF Next
<1>3. OnceLate => OneLatePacket
  BY DEF OnceLate, OneLatePacket
<1> QED
  BY InvHolds, <1>1, <1>2, <1>3, PTL DEF Spec
=============================================================================
