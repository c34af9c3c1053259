-------------------------- MODULE PcapDeviceProofs --------------------------
(***************************************************************************)
(* The proofs about PcapDevice, for any number of queues, names, mbufs and *)
(* opens.                                                                  *)
(*                                                                         *)
(* The handles' invariant says at each opened handle of devinit which      *)
(* queues have one and on which argument (Round), and that a handle no     *)
(* queue has is one of those the driver forgets (Losses).  Two queues      *)
(* never share one (Apart), else replacing the handle of one of them would *)
(* not lose it.  The counters' part needs none of this.                    *)
(*                                                                         *)
(* A sum over the queues is the library's fold over sets.  Induction over  *)
(* sets is out of the provers' reach as the library states it, so the few  *)
(* facts needed of a sum are proved from the smallest counterexample.      *)
(***************************************************************************)
EXTENDS PcapDevice, TLAPS, SequenceTheorems, FiniteSetTheorems, WellFoundedInduction

Opening == {"rx", "tx", "create"}
Alive == {"stopped", "starting", "started"}

\* devinit's pcaps of the tx queues are not among what the device keeps.
Kept ==
  ({txq[q].dumper : q \in 1..nTx}
     \cup (IF phase \in Opening THEN {} ELSE {txq[q].pcap : q \in 1..nTx})
     \cup RxHandles) \ {Null, Wild}

Over(n, k) == IF n <= k THEN 0 ELSE n - k

Lost ==
  IF phase = "rx" THEN Over(done, nRx)
  ELSE IF phase = "tx"
    THEN nRx * (nRx - 1) + (IF device.tx = "tx_pcap" THEN Over(done, nTx) ELSE done)
  ELSE Forgotten

QueuesHold ==
  /\ \A q \in 1..nRx : rxq[q].pcap \in open \cup {Null}
  /\ \A q \in 1..nTx :
       /\ txq[q].dumper \in IF device.tx = "tx_pcap" THEN open \cup {Null, Wild} ELSE {Null, Wild}
       /\ txq[q].pcap \in IF device.tx = "tx_pcap" THEN {Null} ELSE open \cup {Null}

Apart ==
  /\ \A q, r \in 1..nRx : q # r => rxq[q].pcap # rxq[r].pcap \/ rxq[q].pcap = Null
  /\ \A q, r \in 1..nTx : q # r =>
       /\ txq[q].dumper # txq[r].dumper \/ txq[q].dumper \in {Null, Wild}
       /\ txq[q].pcap # txq[r].pcap \/ txq[q].pcap = Null
  /\ ~single_iface => \A q \in 1..nTx, r \in 1..nRx :
       /\ txq[q].dumper # rxq[r].pcap \/ rxq[r].pcap = Null
       /\ txq[q].pcap # rxq[r].pcap \/ rxq[r].pcap = Null

\* Where the handler that opens for n queues has come, names being its arguments.
Round(d, n, names, i, handle, name) ==
  IF i <= d % n THEN handle \notin {Null, Wild} /\ name = names[(d \div n) + 1]
  ELSE IF d < n THEN handle \in {Null, Wild}
  ELSE handle \notin {Null, Wild} /\ name = names[d \div n]

RxRound == phase = "rx" =>
  /\ done <= nRx * nRx
  /\ \A i \in 1..nRx : Round(done, nRx, device.rxNames, i, rxq[i].pcap, rxq[i].name)
  /\ \A q \in 1..nTx : txq[q].pcap = Null /\ txq[q].dumper \in {Null, Wild}

TxRound == phase = "tx" =>
  /\ done <= nTx * nTx /\ ~single_iface
  /\ \A i \in 1..nTx : Round(done, nTx, device.txNames, i, TxHandle(i), txq[i].name)

RxDone ==
  /\ phase # "rx" => \A i \in 1..nRx : rxq[i].name = device.rxNames[nRx]
  /\ phase \in {"tx", "create"} => \A i \in 1..nRx : rxq[i].pcap # Null

TxDone == phase \notin {"rx", "tx"} =>
  \A i \in 1..nTx :
    /\ txq[i].name = device.txNames[nTx]
    /\ device.tx = "tx_pcap" => txq[i].dumper # Wild

Single == single_iface =>
  /\ phase = "rx" => opened = done
  /\ phase \in Alive \cup {"create"} =>
       /\ opened >= 1 /\ (phase = "create" => opened = 1)
       /\ IF opened = 1 THEN txq[1].pcap = Null /\ rxq[1].pcap = 1
          ELSE rxq[1].pcap = txq[1].pcap

Shape == phase \in Opening \cup Alive =>
  /\ QueuesHold /\ Apart
  /\ RxRound /\ TxRound /\ RxDone /\ TxDone
  /\ Single

Losses == phase \in Opening \cup Alive =>
  Cardinality(open \ Kept) = Lost

Started == phase = "started" => UnopenedTx = {} /\ UnopenedRx = {}

\* The whole invariant: what every action preserves.
IInv == TypeOK /\ BurstsAccounted /\ Shape /\ Losses /\ Started

-----------------------------------------------------------------------------
(* Sums over the queues *)

\* A set of natural numbers has a least element.
LEMMA Least ==
  ASSUME NEW S, S \subseteq Nat, S # {}
  PROVE  \E m \in S : \A k \in S : m <= k
<1> DEFINE R == OpToRel(<, Nat)
<1>1. IsWellFoundedOn(R, Nat)
  BY NatLessThanWellFounded
<1> HIDE DEF R
<1>2. PICK m \in S : \A k \in S : ~ (<<k, m>> \in R)
  BY <1>1, WFMin
<1>3. ASSUME NEW k \in S PROVE m <= k
  <2>1. k \in Nat /\ m \in Nat
    OBVIOUS
  <2>2. k < m => <<k, m>> \in R
    BY <2>1 DEF R, OpToRel
  <2>3. ~(k < m)
    BY <1>2, <2>2
  <2> QED
    BY <2>1, <2>3
<1> QED
  BY <1>3

Pick(s) == CHOOSE x \in s : TRUE

\* One step of the fold that Sum is.
Adds(iter, f, D) ==
  iter = [s \in D |-> IF s = {} THEN 0 ELSE f[Pick(s)] + iter[s \ {Pick(s)}]]

\* The sum is what the fold gives for the whole domain.
LEMMA SumIsFold ==
  ASSUME NEW f
  PROVE  SumFunction(f) = (CHOOSE iter : Adds(iter, f, SUBSET DOMAIN f))[DOMAIN f]
BY DEF SumFunction, SumFunctionOnSet, FoldFunctionOnSet, MapThenFoldSet, Adds, Pick

Small(S, n) == {s \in SUBSET S : Cardinality(s) <= n}

\* Taking the picked element away leaves a smaller subset.
LEMMA SmallLess ==
  ASSUME NEW S, IsFiniteSet(S), NEW n \in Nat, NEW s \in Small(S, n + 1), s # {}
  PROVE  s \ {Pick(s)} \in Small(S, n)
<1>1. Pick(s) \in s
  BY DEF Pick
<1>2. IsFiniteSet(s) /\ s \in SUBSET S /\ Cardinality(s) <= n + 1
  BY FS_Subset DEF Small
<1>3. Cardinality(s \ {Pick(s)}) = Cardinality(s) - 1 /\ Cardinality(s) \in Nat
  BY <1>1, <1>2, FS_RemoveElement, FS_CardinalityType
<1> QED
  BY <1>2, <1>3 DEF Small

\* A fold over the subsets of one size extends to the next.
LEMMA AddsNext ==
  ASSUME NEW S, IsFiniteSet(S), NEW f, NEW n \in Nat,
         NEW g, Adds(g, f, Small(S, n))
  PROVE  \E h : Adds(h, f, Small(S, n + 1))
<1> DEFINE h == [s \in Small(S, n + 1) |->
                   IF s = {} THEN 0 ELSE f[Pick(s)] + g[s \ {Pick(s)}]]
<1>1. \A s \in Small(S, n + 1) :
        h[s] = IF s = {} THEN 0 ELSE f[Pick(s)] + g[s \ {Pick(s)}]
  OBVIOUS
<1>2. \A s \in Small(S, n) :
        g[s] = IF s = {} THEN 0 ELSE f[Pick(s)] + g[s \ {Pick(s)}]
  BY DEF Adds
<1>3. Small(S, n) \subseteq Small(S, n + 1)
  <2>1. ASSUME NEW s \in Small(S, n) PROVE Cardinality(s) <= n + 1
    <3>1. s \in SUBSET S /\ Cardinality(s) <= n
      BY DEF Small
    <3>2. Cardinality(s) \in Nat
      BY <3>1, FS_Subset, FS_CardinalityType
    <3> QED
      BY <3>1, <3>2
  <2> QED
    BY <2>1 DEF Small
<1> HIDE DEF h
<1>4. \A s \in Small(S, n) : h[s] = g[s]
  BY <1>1, <1>2, <1>3
<1>5. \A s \in Small(S, n + 1) : s # {} => h[s \ {Pick(s)}] = g[s \ {Pick(s)}]
  BY <1>4, SmallLess
<1>6. h = [s \in Small(S, n + 1) |->
             IF s = {} THEN 0 ELSE f[Pick(s)] + h[s \ {Pick(s)}]]
  <2>1. \A s \in Small(S, n + 1) :
          (IF s = {} THEN 0 ELSE f[Pick(s)] + g[s \ {Pick(s)}])
            = (IF s = {} THEN 0 ELSE f[Pick(s)] + h[s \ {Pick(s)}])
    BY <1>5
  <2> QED
    BY <2>1 DEF h
<1> QED
  BY <1>6 DEF Adds

\* The empty set has a fold.
LEMMA AddsZero ==
  ASSUME NEW S, IsFiniteSet(S), NEW f
  PROVE  \E g : Adds(g, f, Small(S, 0))
<1>1. Small(S, 0) = {{}}
  <2>1. ASSUME NEW s \in Small(S, 0) PROVE s = {}
    <3>1. IsFiniteSet(s) /\ Cardinality(s) <= 0
      BY FS_Subset DEF Small
    <3>2. Cardinality(s) = 0
      BY <3>1, FS_CardinalityType
    <3> QED
      BY <3>1, <3>2, FS_EmptySet
  <2>2. {} \in Small(S, 0)
    BY FS_EmptySet DEF Small
  <2> QED
    BY <2>1, <2>2
<1> DEFINE g == [s \in Small(S, 0) |-> 0]
<1>2. g = [s \in Small(S, 0) |-> IF s = {} THEN 0 ELSE f[Pick(s)] + g[s \ {Pick(s)}]]
  BY <1>1
<1> QED
  BY <1>2 DEF Adds

\* So the fold exists for every subset of a finite set.
LEMMA AddsExists ==
  ASSUME NEW S, IsFiniteSet(S), NEW f
  PROVE  \E g : Adds(g, f, SUBSET S)
<1> DEFINE Bad == {n \in Nat : ~ \E g : Adds(g, f, Small(S, n))}
<1>1. Bad = {}
  <2> SUFFICES ASSUME Bad # {} PROVE FALSE
    OBVIOUS
  <2>1. PICK n \in Bad : \A k \in Bad : n <= k
    BY Least
  <2>2. n \in Nat /\ n # 0
    BY AddsZero
  <2>3. n - 1 \in Nat /\ n - 1 \notin Bad
    BY <2>1, <2>2
  <2>4. \E g : Adds(g, f, Small(S, n - 1))
    BY <2>3
  <2>5. \E g : Adds(g, f, Small(S, (n - 1) + 1))
    BY <2>3, <2>4, AddsNext
  <2>6. (n - 1) + 1 = n
    BY <2>2
  <2> QED
    BY <2>5, <2>6
<1>2. Cardinality(S) \in Nat
  BY FS_CardinalityType
<1>3. \E g : Adds(g, f, Small(S, Cardinality(S)))
  BY <1>1, <1>2
<1>4. Small(S, Cardinality(S)) = SUBSET S
  BY FS_Subset DEF Small
<1> QED
  BY <1>3, <1>4

\* The equation of the fold.
LEMMA SumAdds ==
  ASSUME NEW S, IsFiniteSet(S), NEW f, DOMAIN f = S
  PROVE  \E iter : Adds(iter, f, SUBSET S) /\ SumFunction(f) = iter[S]
BY SumIsFold, AddsExists

\* What holds of the empty set, and of a set when it holds without the picked
\* element, holds of every subset.
LEMMA PickInduction ==
  ASSUME NEW S, IsFiniteSet(S), NEW Q, {} \in Q,
         \A s \in SUBSET S : s # {} /\ s \ {Pick(s)} \in Q => s \in Q
  PROVE  SUBSET S \subseteq Q
<1> DEFINE Bad == {n \in Nat : \E s \in SUBSET S : s \notin Q /\ Cardinality(s) = n}
<1>1. Bad = {}
  <2> SUFFICES ASSUME Bad # {} PROVE FALSE
    OBVIOUS
  <2>1. PICK n \in Bad : \A k \in Bad : n <= k
    BY Least
  <2>2. PICK s \in SUBSET S : s \notin Q /\ Cardinality(s) = n
    OBVIOUS
  <2>3. s # {} /\ Pick(s) \in s
    BY <2>2 DEF Pick
  <2>4. IsFiniteSet(s)
    BY FS_Subset
  <2>5. Cardinality(s \ {Pick(s)}) = n - 1 /\ IsFiniteSet(s \ {Pick(s)})
    BY <2>2, <2>3, <2>4, FS_RemoveElement
  <2>6. n - 1 \in Nat
    BY <2>5, FS_CardinalityType
  <2>7. s \ {Pick(s)} \in SUBSET S /\ s \ {Pick(s)} \notin Q
    BY <2>2, <2>3
  <2>8. n - 1 \in Bad
    BY <2>5, <2>6, <2>7
  <2> QED
    BY <2>1, <2>8
<1>2. ASSUME NEW s \in SUBSET S PROVE s \in Q
  <2>1. Cardinality(s) \in Nat
    BY FS_Subset, FS_CardinalityType
  <2> QED
    BY <1>1, <2>1
<1> QED
  BY <1>2

\* A sum of integers is one, and adding to one summand adds to the sum.
LEMMA SumUpdate ==
  ASSUME NEW S, IsFiniteSet(S), NEW f \in [S -> Int], NEW g \in [S -> Int],
         NEW x \in S, NEW k \in Int,
         g[x] = f[x] + k, \A s \in S : s # x => g[s] = f[s]
  PROVE  SumFunction(f) \in Int /\ SumFunction(g) = SumFunction(f) + k
<1>1. \A s \in S : g[s] = f[s] + (IF s = x THEN k ELSE 0)
  OBVIOUS
<1>2. PICK F : Adds(F, f, SUBSET S) /\ SumFunction(f) = F[S]
  BY SumAdds
<1>3. PICK G : Adds(G, g, SUBSET S) /\ SumFunction(g) = G[S]
  BY <1>1, SumAdds
<1> DEFINE Q == {s \in SUBSET S : F[s] \in Int /\ G[s] = F[s] + (IF x \in s THEN k ELSE 0)}
<1>4. {} \in Q
  BY <1>2, <1>3 DEF Adds
<1>5. ASSUME NEW s \in SUBSET S, s # {}, s \ {Pick(s)} \in Q
      PROVE  s \in Q
  <2> DEFINE p == Pick(s)
             r == s \ {p}
  <2>1. p \in s /\ p \in S
    BY <1>5 DEF Pick
  <2>2. F[s] = f[p] + F[r] /\ G[s] = g[p] + G[r]
    BY <1>2, <1>3, <1>5 DEF Adds
  <2>3. F[r] \in Int /\ G[r] = F[r] + (IF x \in r THEN k ELSE 0)
    BY <1>5
  <2>4. f[p] \in Int /\ g[p] = f[p] + (IF p = x THEN k ELSE 0)
    BY <1>1, <2>1
  <2>5. x \in s <=> (x \in r \/ x = p)
    BY <2>1
  <2>6. x = p => x \notin r
    OBVIOUS
  <2> HIDE DEF p, r
  <2> QED
    BY <2>2, <2>3, <2>4, <2>5, <2>6
<1> HIDE DEF Q
<1>6. S \in Q
  BY <1>4, <1>5, PickInduction
<1> QED
  BY <1>2, <1>3, <1>6 DEF Q

\* The same for all functions at once.
LEMMA SumUpdates ==
  ASSUME NEW S, IsFiniteSet(S), NEW x \in S
  PROVE  \A f, g \in [S -> Int], k \in Int :
           g[x] = f[x] + k /\ (\A s \in S : s # x => g[s] = f[s])
             => SumFunction(f) \in Int /\ SumFunction(g) = SumFunction(f) + k
BY SumUpdate

\* No summands but zeros.
LEMMA SumZero ==
  ASSUME NEW S, IsFiniteSet(S), NEW f \in [S -> {0}]
  PROVE  SumFunction(f) = 0
<1>1. PICK F : Adds(F, f, SUBSET S) /\ SumFunction(f) = F[S]
  BY SumAdds
<1> DEFINE Q == {s \in SUBSET S : F[s] = 0}
<1>2. {} \in Q
  BY <1>1 DEF Adds
<1>3. ASSUME NEW s \in SUBSET S, s # {}, s \ {Pick(s)} \in Q
      PROVE  s \in Q
  <2>1. Pick(s) \in S /\ f[Pick(s)] = 0
    BY <1>3 DEF Pick
  <2>2. F[s] = f[Pick(s)] + F[s \ {Pick(s)}]
    BY <1>1, <1>3 DEF Adds
  <2> QED
    BY <1>3, <2>1, <2>2
<1> HIDE DEF Q
<1>4. S \in Q
  BY <1>2, <1>3, PickInduction
<1> QED
  BY <1>1, <1>4 DEF Q

-----------------------------------------------------------------------------
(* The device and its types *)

\* What the arguments of a device are.
LEMMA Queues ==
  ASSUME TypeOK
  PROVE  /\ nRx \in Nat /\ nTx \in Nat
         /\ device.rxNames \in [1..nRx -> Names] /\ device.txNames \in [1..nTx -> Names]
         /\ device.tx \in {"tx_pcap", "tx_iface", "iface"}
         /\ single_iface => /\ nRx = 1 /\ nTx = 1 /\ device.rxNames = device.txNames
                            /\ device.rx = "iface"
<1> DEFINE Of(d) ==
       /\ Len(d.rxNames) \in Nat /\ Len(d.txNames) \in Nat
       /\ d.rxNames \in [1..Len(d.rxNames) -> Names]
       /\ d.txNames \in [1..Len(d.txNames) -> Names]
       /\ d.tx \in {"tx_pcap", "tx_iface", "iface"}
       /\ d.tx = "iface" => /\ Len(d.rxNames) = 1 /\ Len(d.txNames) = 1
                            /\ d.rxNames = d.txNames /\ d.rx = "iface"
<1> HIDE DEF Of
<1>1. MaxQueues \in Nat
  BY DeviceAssumption DEF DeviceAssumption
<1>2. \A s \in Lists : Len(s) \in Nat /\ s \in [1..Len(s) -> Names]
  <2> SUFFICES ASSUME NEW n \in 0..MaxQueues, NEW s \in [1..n -> Names]
               PROVE  Len(s) \in Nat /\ s \in [1..Len(s) -> Names]
    BY DEF Lists
  <2>1. n \in Nat /\ s \in Seq(Names)
    BY <1>1
  <2>2. Len(s) = n
    BY <2>1, LenProperties
  <2> QED
    BY <2>1, <2>2
<1>3. ASSUME device \in [rx : {"rx_pcap", "rx_iface"}, tx : {"tx_pcap", "tx_iface"},
                        rxNames : Lists, txNames : Lists]
      PROVE  Of(device)
  BY <1>2, <1>3 DEF Of
<1>4. ASSUME NEW n \in Names,
             device = [rx |-> "iface", tx |-> "iface", rxNames |-> <<n>>, txNames |-> <<n>>]
      PROVE  Of(device)
  <2>1. /\ device.rxNames = <<n>> /\ device.txNames = <<n>>
        /\ device.tx = "iface" /\ device.rx = "iface"
    BY <1>4
  <2>2. <<n>> \in [1..1 -> Names] /\ Len(<<n>>) = 1
    OBVIOUS
  <2> QED
    BY <2>1, <2>2 DEF Of
<1>5. Of(device)
  BY <1>3, <1>4 DEF TypeOK, Arguments
<1> QED
  BY <1>5 DEF Of, nRx, nTx, single_iface

\* Round robin: the next of n queues, or the first one of the next round.
LEMMA NextInRound ==
  ASSUME NEW n \in Nat \ {0}, NEW d \in Nat
  PROVE  /\ d % n \in 0..(n - 1) /\ d \div n \in Nat
         /\ IF (d % n) + 1 < n
              THEN (d + 1) % n = (d % n) + 1 /\ (d + 1) \div n = d \div n
              ELSE (d + 1) % n = 0 /\ (d + 1) \div n = (d \div n) + 1
         /\ d < n <=> d \div n = 0
OBVIOUS

\* After n rounds of n the position is the first again.
LEMMA LastRound ==
  ASSUME NEW n \in Nat \ {0}
  PROVE  (n * n) % n = 0 /\ (n * n) \div n = n
OBVIOUS

\* As long as a handle is to be opened there is an argument for it.
LEMMA InRounds ==
  ASSUME NEW n \in Nat, NEW d \in Nat, d < n * n
  PROVE  n > 0 /\ d \div n + 1 \in 1..n
OBVIOUS

RxRecord == [pcap : 0..opened, name : Names \cup {""}]
TxRecord == [dumper : Wild..opened, pcap : 0..opened, name : Names \cup {""},
             tx_pkts : Nat, err_pkts : Nat]

Phases == {"rx", "tx", "create", "stopped", "starting", "started", "failed", "exited",
           "crashed", "undefined", "detached"}

\* The type invariant without the records.
LEMMA Plain ==
  ASSUME TypeOK
  PROVE  /\ phase \in Phases /\ done \in Nat /\ opened \in Nat /\ open \subseteq 1..opened
         /\ pool \subseteq Mbufs /\ caller \subseteq Mbufs /\ dropped \subseteq Mbufs
         /\ handed \in Nat
BY DEF TypeOK, Phases

\* The records of the queues.
LEMMA TypeNow ==
  ASSUME TypeOK
  PROVE  rxq \in [1..nRx -> RxRecord] /\ txq \in [1..nTx -> TxRecord]
BY DEF TypeOK, RxRecord, TxRecord

\* The types of the queues grow with the number of handles.
LEMMA Wider ==
  ASSUME TypeOK, opened' = opened + 1
  PROVE  /\ RxRecord \subseteq RxRecord' /\ TxRecord \subseteq TxRecord'
         /\ open \subseteq 1..opened' /\ opened' \in Nat
<1>1. opened \in Nat /\ opened' \in Nat /\ open \subseteq 1..opened
  BY Plain
<1>2. 0..opened \subseteq 0..opened' /\ Wild..opened \subseteq Wild..opened'
  BY <1>1 DEF Wild
<1>3. RxRecord' = [pcap : 0..opened', name : Names \cup {""}]
  BY DEF RxRecord
<1>4. TxRecord' = [dumper : Wild..opened', pcap : 0..opened', name : Names \cup {""},
                   tx_pkts : Nat, err_pkts : Nat]
  BY DEF TxRecord, Wild
<1>5. RxRecord \subseteq RxRecord'
  BY <1>2, <1>3 DEF RxRecord
<1>6. TxRecord \subseteq TxRecord'
  BY <1>2, <1>4 DEF TxRecord
<1>7. open \subseteq 1..opened'
  BY <1>1
<1> QED
  BY <1>1, <1>5, <1>6, <1>7

\* A new handle is none that is open, closed or no handle.
LEMMA TypeOpens ==
  ASSUME TypeOK, Opens
  PROVE  /\ opened' = opened + 1 /\ Fresh = opened + 1 /\ opened' \in Nat
         /\ open' = open \cup {Fresh} /\ open' \subseteq 1..opened'
         /\ Fresh \notin open /\ Fresh \notin {Null, Wild}
         /\ \A q \in 1..nRx : rxq[q].pcap # Fresh
         /\ \A q \in 1..nTx : txq[q].pcap # Fresh /\ txq[q].dumper # Fresh
<1>1. /\ opened \in Nat /\ opened' = opened + 1 /\ Fresh = opened + 1
      /\ open' = open \cup {Fresh} /\ open \subseteq 1..opened
  BY Plain DEF Opens, Fresh
<1>2. \A h \in Wild..opened : h # Fresh
  BY <1>1 DEF Wild
<1>3. \A q \in 1..nRx : rxq[q].pcap \in 0..opened
  BY TypeNow DEF RxRecord
<1>4. \A q \in 1..nTx : txq[q].pcap \in 0..opened /\ txq[q].dumper \in Wild..opened
  BY TypeNow DEF TxRecord
<1>5. 0..opened \subseteq Wild..opened
  BY <1>1 DEF Wild
<1> QED
  BY <1>1, <1>2, <1>3, <1>4, <1>5 DEF Null, Wild

\* The type invariant from its parts.
LEMMA TypeFrom ==
  ASSUME TypeOK, UNCHANGED device,
         phase' \in Phases,
         done' \in Nat, opened' \in Nat, open' \subseteq 1..opened',
         rxq' \in [1..nRx -> RxRecord'], txq' \in [1..nTx -> TxRecord'],
         pool' \subseteq Mbufs, caller' \subseteq Mbufs, dropped' \subseteq Mbufs, handed' \in Nat
  PROVE  TypeOK'
BY DEF TypeOK, RxRecord, TxRecord, nRx, nTx, Phases

\* The types, action by action.
LEMMA TypeOpenRx ==
  ASSUME TypeOK, OpenRx
  PROVE  TypeOK'
<1> USE DEF handles, mbufs
<1>1. CASE /\ Opens /\ done' = done + 1
           /\ rxq' = [rxq EXCEPT ![(done % nRx) + 1] =
                     [pcap |-> Fresh, name |-> device.rxNames[(done \div nRx) + 1]]]
           /\ UNCHANGED <<phase, txq>>
  <2>1. done < nRx * nRx /\ done \in Nat /\ UNCHANGED <<device, mbufs>>
    BY Plain DEF OpenRx
  <2>2. device.rxNames[(done \div nRx) + 1] \in Names
    BY <2>1, Queues, InRounds
  <2>6. Fresh \in 0..opened'
    BY <1>1, TypeOpens
  <2>3. [pcap |-> Fresh, name |-> device.rxNames[(done \div nRx) + 1]] \in RxRecord'
    BY <1>1, <2>2, <2>6 DEF RxRecord
  <2>4. rxq' \in [1..nRx -> RxRecord'] /\ txq' \in [1..nTx -> TxRecord']
    BY <1>1, <2>3, TypeNow, Wider, TypeOpens
  <2>5. /\ phase' \in Phases
        /\ pool' \subseteq Mbufs /\ caller' \subseteq Mbufs /\ dropped' \subseteq Mbufs /\ handed' \in Nat
    BY <1>1, <2>1, Plain
  <2> QED
    BY <1>1, <2>1, <2>4, <2>5, TypeOpens, TypeFrom
<1>2. CASE OpenFails(device.rx, "failed")
  BY <1>2 DEF OpenRx, OpenFails, TypeOK, nRx, nTx
<1> QED
  BY <1>1, <1>2 DEF OpenRx

\* A handle for a tx queue.
LEMMA TypeOpenTx ==
  ASSUME TypeOK, OpenTx
  PROVE  TypeOK'
<1> USE DEF handles, mbufs
<1> DEFINE q == (done % nTx) + 1
           name == device.txNames[(done \div nTx) + 1]
<1>1. CASE /\ Opens /\ done' = done + 1
           /\ txq' = IF device.tx = "tx_pcap"
                    THEN [txq EXCEPT ![q].dumper = Fresh, ![q].name = name]
                    ELSE [txq EXCEPT ![q].pcap = Fresh, ![q].name = name]
           /\ UNCHANGED <<phase, rxq>>
  <2>1. done < nTx * nTx /\ done \in Nat /\ UNCHANGED <<device, mbufs>>
    BY Plain DEF OpenTx
  <2>2. name \in Names
    BY <2>1, Queues, InRounds
  <2> HIDE DEF q, name
  <2>3. txq \in [1..nTx -> TxRecord'] /\ rxq \in [1..nRx -> RxRecord']
    BY TypeNow, Wider, TypeOpens, <1>1
  <2>4. Fresh \in Wild..opened' /\ Fresh \in 0..opened'
    BY <1>1, TypeOpens DEF Wild
  <2> DEFINE Dumps(r) == [r EXCEPT !.dumper = Fresh, !.name = name]
             Sends(r) == [r EXCEPT !.pcap = Fresh, !.name = name]
  <2>8. TxRecord' = [dumper : Wild..opened', pcap : 0..opened', name : Names \cup {""},
                     tx_pkts : Nat, err_pkts : Nat]
    BY DEF TxRecord, Wild
  <2>9. \A r \in TxRecord' : Dumps(r) \in TxRecord' /\ Sends(r) \in TxRecord'
    BY <2>2, <2>4, <2>8
  <2>10. \/ txq' = [txq EXCEPT ![q] = Dumps(txq[q])]
         \/ txq' = [txq EXCEPT ![q] = Sends(txq[q])]
    BY <1>1
  <2>11. q \in 1..nTx
    <3>1. nTx \in Nat \ {0}
      BY <2>1, Queues, InRounds
    <3>2. done % nTx \in 0..(nTx - 1)
      BY <2>1, <3>1, NextInRound
    <3> QED
      BY <3>1, <3>2 DEF q
  <2> HIDE DEF Dumps, Sends
  <2>5. rxq' \in [1..nRx -> RxRecord'] /\ txq' \in [1..nTx -> TxRecord']
    <3>1. \A r \in 1..nTx : txq[r] \in TxRecord'
      BY <2>3
    <3>2. CASE txq' = [txq EXCEPT ![q] = Dumps(txq[q])]
      BY <1>1, <2>3, <2>9, <2>11, <3>1, <3>2
    <3>3. CASE txq' = [txq EXCEPT ![q] = Sends(txq[q])]
      BY <1>1, <2>3, <2>9, <2>11, <3>1, <3>3
    <3> QED
      BY <2>10, <3>2, <3>3
  <2>6. /\ phase' \in Phases
        /\ pool' \subseteq Mbufs /\ caller' \subseteq Mbufs /\ dropped' \subseteq Mbufs /\ handed' \in Nat
    BY <1>1, <2>1, Plain
  <2>7. done' \in Nat /\ UNCHANGED device /\ opened' \in Nat /\ open' \subseteq 1..opened'
    BY <1>1, <2>1, TypeOpens
  <2> QED
    BY <2>5, <2>6, <2>7, TypeFrom
<1>2. CASE OpenFails(device.tx, "failed")
  BY <1>2 DEF OpenTx, OpenFails, TypeOK, nRx, nTx
<1> QED
  BY <1>1, <1>2 DEF OpenTx

\* The end of the handlers and the creation of the device.
LEMMA TypeDevinit ==
  ASSUME TypeOK, RxOpened \/ TxOpened \/ FromPcaps
  PROVE  TypeOK'
<1> USE DEF handles, mbufs
<1>1. CASE RxOpened
  <2>1. txq' \in [1..nTx -> TxRecord]
    <3>1. CASE single_iface
      <4>1. rxq[1].name \in Names \cup {""} /\ 1 \in 1..nTx
        <5>1. nRx = 1 /\ nTx = 1
          BY <3>1, Queues
        <5>2. 1 \in 1..nRx /\ 1 \in 1..nTx
          BY <5>1
        <5>3. rxq[1] \in RxRecord
          BY <5>2, TypeNow
        <5> QED
          BY <5>2, <5>3 DEF RxRecord
      <4> QED
        <5> DEFINE Named(r) == [r EXCEPT !.name = rxq[1].name]
        <5>1. \A r \in TxRecord : Named(r) \in TxRecord
          BY <4>1 DEF TxRecord
        <5>2. txq' = [txq EXCEPT ![1] = Named(txq[1])]
          BY <1>1, <3>1 DEF RxOpened
        <5> HIDE DEF Named
        <5> QED
          BY <4>1, <5>1, <5>2, TypeNow
    <3>2. CASE ~single_iface
      BY <1>1, <3>2, TypeNow DEF RxOpened
    <3> QED
      BY <3>1, <3>2
  <2> QED
    BY <1>1, <2>1 DEF RxOpened, TypeOK, TxRecord, nRx, nTx
<1>2. CASE TxOpened
  BY <1>2 DEF TxOpened, TypeOK, nRx, nTx
<1>3. CASE FromPcaps
  <2>1. txq' \in [1..nTx -> TxRecord]
    <3>1. ASSUME NEW r \in TxRecord
          PROVE  [r EXCEPT !.pcap = Null] \in TxRecord
      <4>1. Null \in 0..opened
        BY Plain DEF Null
      <4> QED
        BY <4>1 DEF TxRecord
    <3> QED
      BY <1>3, <3>1, TypeNow DEF FromPcaps
  <2> QED
    BY <1>3, <2>1 DEF FromPcaps, TypeOK, TxRecord, nRx, nTx
<1> QED
  BY <1>1, <1>2, <1>3

\* The Min of the model is the least element.
LEMMA Least1 ==
  ASSUME NEW S, S \subseteq Nat, S # {}
  PROVE  Min(S) \in S /\ \A k \in S : Min(S) <= k
<1>1. \E m \in S : \A k \in S : m <= k
  BY Least
<1> QED
  BY <1>1 DEF Min

\* The queue eth_dev_start opens next is one without a handle.
LEMMA TxUnopened ==
  ASSUME TypeOK, UnopenedTx # {}
  PROVE  Min(UnopenedTx) \in UnopenedTx /\ Min(UnopenedTx) \in 1..nTx
<1>1. UnopenedTx \subseteq 1..nTx /\ nTx \in Nat
  BY Queues DEF UnopenedTx
<1>2. UnopenedTx \subseteq Nat
  BY <1>1
<1>3. Min(UnopenedTx) \in UnopenedTx
  BY <1>2, Least1
<1> QED
  BY <1>1, <1>3

\* The same of the rx queues.
LEMMA RxUnopened ==
  ASSUME TypeOK, UnopenedRx # {}
  PROVE  Min(UnopenedRx) \in UnopenedRx /\ Min(UnopenedRx) \in 1..nRx
<1>1. UnopenedRx \subseteq 1..nRx /\ nRx \in Nat
  BY Queues DEF UnopenedRx
<1>2. UnopenedRx \subseteq Nat
  BY <1>1
<1>3. Min(UnopenedRx) \in UnopenedRx
  BY <1>2, Least1
<1> QED
  BY <1>1, <1>3

\* eth_dev_start.
LEMMA TypeStart ==
  ASSUME TypeOK, eth_dev_start
  PROVE  TypeOK'
<1> USE DEF handles, mbufs
<1>1. CASE rte_eth_dev_start \/ StatusUp
  BY <1>1 DEF rte_eth_dev_start, StatusUp, TypeOK, nRx, nTx
<1>2. CASE StartTx
  <2> DEFINE q == Min(UnopenedTx)
  <2>1. q \in 1..nTx /\ UNCHANGED <<device, mbufs>>
    BY <1>2, TxUnopened DEF StartTx
  <2>2. CASE OpenFails(device.tx, "stopped")
    BY <2>1, <2>2 DEF OpenFails, TypeOK, nRx, nTx
  <2>3. CASE /\ Opens
             /\ txq' = IF device.tx = "tx_pcap" THEN [txq EXCEPT ![q].dumper = Fresh]
                                           ELSE [txq EXCEPT ![q].pcap = Fresh]
             /\ rxq' = IF single_iface THEN [rxq EXCEPT ![1].pcap = Fresh] ELSE rxq
             /\ UNCHANGED <<phase, done>>
    <3> HIDE DEF q
    <3>1. txq \in [1..nTx -> TxRecord'] /\ rxq \in [1..nRx -> RxRecord']
      BY <2>3, TypeNow, Wider, TypeOpens
    <3>2. Fresh \in Wild..opened' /\ Fresh \in 0..opened'
      BY <2>3, TypeOpens DEF Wild
    <3>3. txq' \in [1..nTx -> TxRecord']
      <4> DEFINE Dumps(r) == [r EXCEPT !.dumper = Fresh]
                 Sends(r) == [r EXCEPT !.pcap = Fresh]
      <4>1. TxRecord' = [dumper : Wild..opened', pcap : 0..opened', name : Names \cup {""},
                         tx_pkts : Nat, err_pkts : Nat]
        BY DEF TxRecord, Wild
      <4>2. \A r \in TxRecord' : Dumps(r) \in TxRecord' /\ Sends(r) \in TxRecord'
        BY <3>2, <4>1
      <4>3. txq' = [txq EXCEPT ![q] = Dumps(txq[q])] \/ txq' = [txq EXCEPT ![q] = Sends(txq[q])]
        BY <2>3
      <4>4. \A r \in 1..nTx : txq[r] \in TxRecord'
        BY <3>1
      <4> HIDE DEF Dumps, Sends
      <4>5. CASE txq' = [txq EXCEPT ![q] = Dumps(txq[q])]
        BY <2>1, <3>1, <4>2, <4>4, <4>5
      <4>6. CASE txq' = [txq EXCEPT ![q] = Sends(txq[q])]
        BY <2>1, <3>1, <4>2, <4>4, <4>6
      <4> QED
        BY <4>3, <4>5, <4>6
    <3>4. rxq' \in [1..nRx -> RxRecord']
      BY <2>3, <3>1, <3>2 DEF RxRecord
    <3>5. /\ phase' \in Phases /\ done' \in Nat /\ opened' \in Nat /\ open' \subseteq 1..opened'
          /\ pool' \subseteq Mbufs /\ caller' \subseteq Mbufs /\ dropped' \subseteq Mbufs
          /\ handed' \in Nat
      BY <2>1, <2>3, TypeOpens, Plain
    <3> QED
      BY <2>1, <3>3, <3>4, <3>5, TypeFrom
  <2> QED
    BY <1>2, <2>2, <2>3 DEF StartTx
<1>3. CASE StartRx
  <2> DEFINE q == Min(UnopenedRx)
  <2>1. q \in 1..nRx /\ UNCHANGED <<device, mbufs>>
    BY <1>3, RxUnopened DEF StartRx
  <2>2. CASE OpenFails(device.rx, "stopped")
    BY <2>1, <2>2 DEF OpenFails, TypeOK, nRx, nTx
  <2>3. CASE /\ Opens /\ rxq' = [rxq EXCEPT ![q].pcap = Fresh]
             /\ UNCHANGED <<phase, done, txq>>
    <3> HIDE DEF q
    <3>1. txq \in [1..nTx -> TxRecord'] /\ rxq \in [1..nRx -> RxRecord']
      BY <2>3, TypeNow, Wider, TypeOpens
    <3>2. Fresh \in 0..opened'
      BY <2>3, TypeOpens
    <3>3. txq' \in [1..nTx -> TxRecord']
      BY <2>3, <3>1
    <3>4. rxq' \in [1..nRx -> RxRecord']
      BY <2>3, <3>1, <3>2 DEF RxRecord
    <3>5. /\ phase' \in Phases /\ done' \in Nat /\ opened' \in Nat /\ open' \subseteq 1..opened'
          /\ pool' \subseteq Mbufs /\ caller' \subseteq Mbufs /\ dropped' \subseteq Mbufs
          /\ handed' \in Nat
      BY <2>1, <2>3, TypeOpens, Plain
    <3> QED
      BY <2>1, <3>3, <3>4, <3>5, TypeFrom
  <2> QED
    BY <1>3, <2>2, <2>3 DEF StartRx
<1> QED
  BY <1>1, <1>2, <1>3 DEF eth_dev_start

\* eth_dev_stop and devuninit.
LEMMA TypeStop ==
  ASSUME TypeOK, eth_dev_stop \/ devuninit
  PROVE  TypeOK'
<1> USE DEF handles, mbufs
<1>1. CASE devuninit
  BY <1>1 DEF devuninit, TypeOK, nRx, nTx
<1>2. CASE eth_dev_stop
  <2>1. UNCHANGED <<device, done, opened, mbufs>> /\ phase' \in Phases
    BY <1>2 DEF eth_dev_stop, Phases
  <2>2. open' \subseteq 1..opened'
    BY <1>2, <2>1, Plain DEF eth_dev_stop
  <2>3. Null \in 0..opened /\ Null \in Wild..opened
    BY Plain DEF Null, Wild
  <2>4. rxq' \in [1..nRx -> RxRecord]
    <3>1. \A r \in RxRecord : [r EXCEPT !.pcap = Null] \in RxRecord
      BY <2>3 DEF RxRecord
    <3>2. CloseRx \in [1..nRx -> RxRecord]
      BY <3>1, TypeNow DEF CloseRx
    <3> QED
      BY <1>2, <3>2, TypeNow DEF eth_dev_stop
  <2>5. txq' \in [1..nTx -> TxRecord]
    <3>1. \A r \in TxRecord : /\ [r EXCEPT !.pcap = Null] \in TxRecord
                              /\ [r EXCEPT !.pcap = Null, !.dumper = Null] \in TxRecord
      BY <2>3 DEF TxRecord
    <3>2. \/ txq' = txq
          \/ txq' = [i \in 1..nTx |-> IF single_iface THEN [txq[i] EXCEPT !.pcap = Null]
                                      ELSE [txq[i] EXCEPT !.pcap = Null, !.dumper = Null]]
      BY <1>2 DEF eth_dev_stop
    <3> QED
      BY <3>1, <3>2, TypeNow
  <2>6. RxRecord' = RxRecord /\ TxRecord' = TxRecord
    BY <2>1 DEF RxRecord, TxRecord
  <2>7. /\ done' \in Nat /\ opened' \in Nat /\ UNCHANGED device
        /\ pool' \subseteq Mbufs /\ caller' \subseteq Mbufs /\ dropped' \subseteq Mbufs
        /\ handed' \in Nat
    BY <2>1, Plain
  <2>8. rxq' \in [1..nRx -> RxRecord'] /\ txq' \in [1..nTx -> TxRecord']
    BY <2>4, <2>5, <2>6
  <2> QED
    BY <2>1, <2>2, <2>7, <2>8, TypeFrom
<1> QED
  BY <1>1, <1>2

\* The counters of a burst.
LEMMA BurstType ==
  ASSUME TypeOK, NEW q \in 1..nTx, NEW batch \in SUBSET caller, NEW outcome \in TxLoop(batch)
  PROVE  /\ outcome.sent \subseteq batch /\ outcome.freed = outcome.sent \cup outcome.tooLong
         /\ outcome.tooLong \subseteq batch \ outcome.sent
         /\ Cardinality(batch) \in Nat /\ Cardinality(outcome.sent) \in 0..Cardinality(batch)
         /\ Counted(q, Cardinality(batch), Cardinality(outcome.sent)) \in [1..nTx -> TxRecord]
<1>1. IsFiniteSet(batch)
  BY FS_Subset, DeviceAssumption, Plain DEF DeviceAssumption
<1>2. /\ outcome.sent \subseteq batch /\ outcome.freed = outcome.sent \cup outcome.tooLong
      /\ outcome.tooLong \subseteq batch \ outcome.sent
  <2>1. CASE outcome \in {[sent |-> s, freed |-> s, tooLong |-> {}] : s \in SUBSET batch}
    BY <2>1
  <2>2. ASSUME NEW s \in SUBSET batch,
               outcome \in {[sent |-> s, freed |-> s \cup {m}, tooLong |-> {m}] : m \in batch \ s}
        PROVE  /\ outcome.sent \subseteq batch /\ outcome.freed = outcome.sent \cup outcome.tooLong
               /\ outcome.tooLong \subseteq batch \ outcome.sent
    BY <2>2
  <2> QED
    BY <2>1, <2>2 DEF TxLoop
<1>3. /\ IsFiniteSet(outcome.sent) /\ Cardinality(outcome.sent) <= Cardinality(batch)
      /\ Cardinality(outcome.sent) \in Nat /\ Cardinality(batch) \in Nat
  BY <1>1, <1>2, FS_Subset, FS_CardinalityType
<1> DEFINE b == Cardinality(batch)
           s == Cardinality(outcome.sent)
<1>4. b \in Nat /\ s \in Nat /\ s <= b
  BY <1>3
<1> HIDE DEF b, s
<1>5. Counted(q, b, s) \in [1..nTx -> TxRecord]
  <2>1. txq[q].tx_pkts \in Nat /\ txq[q].err_pkts \in Nat
    BY TypeNow DEF TxRecord
  <2>2. txq[q].tx_pkts + s \in Nat /\ txq[q].err_pkts + b - s \in Nat
    BY <1>4, <2>1
  <2> QED
    BY <2>2, TypeNow DEF Counted, TxRecord
<1> QED
  BY <1>2, <1>4, <1>5 DEF b, s

\* A burst keeps the types.
LEMMA TypeBurst ==
  ASSUME TypeOK, NEW q \in 1..nTx, TxBurst(q)
  PROVE  TypeOK'
<1>1. PICK batch \in SUBSET (caller \ dropped) :
       /\ \E outcome \in TxLoop(batch) :
            /\ pool' = pool \cup outcome.freed
            /\ caller' = caller \ outcome.sent
            /\ dropped' = dropped \cup outcome.tooLong
            /\ txq' = Counted(q, Cardinality(batch), Cardinality(outcome.sent))
       /\ handed' = handed + Cardinality(batch)
  BY DEF TxBurst
<1>2. PICK outcome \in TxLoop(batch) :
            /\ pool' = pool \cup outcome.freed
            /\ caller' = caller \ outcome.sent
            /\ dropped' = dropped \cup outcome.tooLong
            /\ txq' = Counted(q, Cardinality(batch), Cardinality(outcome.sent))
  BY <1>1
<1>3. batch \in SUBSET caller
  OBVIOUS
<1>4. UNCHANGED <<device, phase, done, handles, rxq>>
  BY DEF TxBurst
<1>5. txq' \in [1..nTx -> TxRecord'] /\ rxq' \in [1..nRx -> RxRecord']
  BY <1>2, <1>3, <1>4, BurstType, TypeNow DEF TxRecord, RxRecord, handles
<1>6. /\ pool' \subseteq Mbufs /\ caller' \subseteq Mbufs /\ dropped' \subseteq Mbufs
      /\ handed' \in Nat
  BY <1>1, <1>2, <1>3, BurstType, Plain
<1>7. phase' \in Phases /\ done' \in Nat /\ opened' \in Nat /\ open' \subseteq 1..opened'
  BY <1>4, Plain DEF handles
<1> QED
  BY <1>4, <1>5, <1>6, <1>7, TypeFrom

\* So does the application.
LEMMA TypeApplication ==
  ASSUME TypeOK, rte_pktmbuf_alloc \/ rte_pktmbuf_free \/ eth_stats_reset
  PROVE  TypeOK'
<1> USE DEF handles
<1>1. CASE rte_pktmbuf_alloc
  BY <1>1 DEF rte_pktmbuf_alloc, OwnedTwice, TypeOK, nRx, nTx
<1>2. CASE rte_pktmbuf_free
  BY <1>2 DEF rte_pktmbuf_free, OwnedTwice, TypeOK, nRx, nTx
<1>3. CASE eth_stats_reset
  <2>1. txq' \in [1..nTx -> TxRecord]
    <3>1. \A r \in TxRecord : [r EXCEPT !.tx_pkts = 0, !.err_pkts = 0] \in TxRecord
      BY DEF TxRecord
    <3> QED
      BY <1>3, <3>1, TypeNow DEF eth_stats_reset
  <2> QED
    BY <1>3, <2>1 DEF eth_stats_reset, TypeOK, TxRecord, nRx, nTx
<1> QED
  BY <1>1, <1>2, <1>3

-----------------------------------------------------------------------------
(* The bursts and the counters *)

Sent == [q \in 1..nTx |-> txq[q].tx_pkts]
NotSent == [q \in 1..nTx |-> txq[q].err_pkts]

\* The statistics are the sums of the counters.
LEMMA Stats ==
  eth_stats_get.opackets = SumFunction(Sent) /\ eth_stats_get.oerrors = SumFunction(NotSent)
BY DEF eth_stats_get, Sent, NotSent

SameCounters == \A q \in 1..nTx : /\ txq'[q].tx_pkts = txq[q].tx_pkts
                                  /\ txq'[q].err_pkts = txq[q].err_pkts

\* The queues are finitely many.
LEMMA TxFinite ==
  ASSUME TypeOK
  PROVE  nTx \in Nat /\ IsFiniteSet(1..nTx)
<1>1. nTx \in Int /\ nTx \in Nat /\ 1 \in Int
  BY Queues
<1> QED
  BY <1>1, FS_Interval

\* Counters that stay keep their sums.
LEMMA SameStats ==
  ASSUME UNCHANGED device, SameCounters
  PROVE  SumFunction(Sent)' = SumFunction(Sent) /\ SumFunction(NotSent)' = SumFunction(NotSent)
<1>1. nTx' = nTx
  BY DEF nTx
<1>2. Sent' = Sent /\ NotSent' = NotSent
  BY <1>1 DEF Sent, NotSent, SameCounters
<1> QED
  BY <1>2

\* A queue that gets a handle, and perhaps a name, keeps its counters.
LEMMA SameWith ==
  ASSUME TypeOK, NEW i, NEW name, NEW h,
         \/ txq' = txq
         \/ txq' = [txq EXCEPT ![i].dumper = h, ![i].name = name]
         \/ txq' = [txq EXCEPT ![i].pcap = h, ![i].name = name]
         \/ txq' = [txq EXCEPT ![i].dumper = h]
         \/ txq' = [txq EXCEPT ![i].pcap = h]
  PROVE  SameCounters
<1>1. /\ txq \in [1..nTx -> TxRecord]
      /\ \A r \in TxRecord :
           /\ [r EXCEPT !.dumper = h, !.name = name].tx_pkts = r.tx_pkts
           /\ [r EXCEPT !.dumper = h, !.name = name].err_pkts = r.err_pkts
           /\ [r EXCEPT !.pcap = h, !.name = name].tx_pkts = r.tx_pkts
           /\ [r EXCEPT !.pcap = h, !.name = name].err_pkts = r.err_pkts
           /\ [r EXCEPT !.dumper = h].tx_pkts = r.tx_pkts
           /\ [r EXCEPT !.dumper = h].err_pkts = r.err_pkts
           /\ [r EXCEPT !.pcap = h].tx_pkts = r.tx_pkts
           /\ [r EXCEPT !.pcap = h].err_pkts = r.err_pkts
  BY TypeNow DEF TxRecord
<1>2. CASE txq' = txq
  BY <1>2 DEF SameCounters
<1>3. CASE txq' = [txq EXCEPT ![i].dumper = h, ![i].name = name]
  <2>1. \A r \in 1..nTx : txq'[r] = IF r = i THEN [txq[r] EXCEPT !.dumper = h, !.name = name] ELSE txq[r]
    BY <1>1, <1>3
  <2> QED
    BY <1>1, <2>1 DEF SameCounters
<1>4. CASE txq' = [txq EXCEPT ![i].pcap = h, ![i].name = name]
  <2>1. \A r \in 1..nTx : txq'[r] = IF r = i THEN [txq[r] EXCEPT !.pcap = h, !.name = name] ELSE txq[r]
    BY <1>1, <1>4
  <2> QED
    BY <1>1, <2>1 DEF SameCounters
<1>5. CASE txq' = [txq EXCEPT ![i].dumper = h]
  <2>1. \A r \in 1..nTx : txq'[r] = IF r = i THEN [txq[r] EXCEPT !.dumper = h] ELSE txq[r]
    BY <1>1, <1>5
  <2> QED
    BY <1>1, <2>1 DEF SameCounters
<1>6. CASE txq' = [txq EXCEPT ![i].pcap = h]
  <2>1. \A r \in 1..nTx : txq'[r] = IF r = i THEN [txq[r] EXCEPT !.pcap = h] ELSE txq[r]
    BY <1>1, <1>6
  <2> QED
    BY <1>1, <2>1 DEF SameCounters
<1> QED
  BY <1>2, <1>3, <1>4, <1>5, <1>6

\* What the devices' own operations leave alone.
LEMMA NoBurst ==
  ASSUME TypeOK, devinit \/ eth_dev_start \/ eth_dev_stop \/ devuninit
  PROVE  /\ UNCHANGED <<device, mbufs>> /\ SameCounters
         /\ phase # "undefined" /\ phase' # "undefined"
<1> USE DEF SameCounters
<1>1. CASE devinit
  <2>1. CASE OpenRx \/ TxOpened
    BY <2>1 DEF OpenRx, TxOpened, OpenFails
  <2>2. CASE OpenTx
    <3> DEFINE i == (done % nTx) + 1
               name == device.txNames[(done \div nTx) + 1]
    <3>2. \/ txq' = txq
          \/ txq' = [txq EXCEPT ![i].dumper = Fresh, ![i].name = name]
          \/ txq' = [txq EXCEPT ![i].pcap = Fresh, ![i].name = name]
      BY <2>2 DEF OpenTx, OpenFails
    <3>3. UNCHANGED <<device, mbufs>> /\ phase = "tx" /\ phase' # "undefined"
      BY <2>2 DEF OpenTx, OpenFails
    <3> HIDE DEF i, name
    <3>4. SameCounters
      BY <3>2, SameWith
    <3> QED
      BY <3>3, <3>4
  <2>3. CASE RxOpened
    <3>1. txq \in [1..nTx -> TxRecord]
      BY TypeNow
    <3> QED
      BY <2>3, <3>1 DEF RxOpened, TxRecord
  <2>4. CASE FromPcaps
    <3>1. txq \in [1..nTx -> TxRecord]
      BY TypeNow
    <3> QED
      BY <2>4, <3>1 DEF FromPcaps, TxRecord
  <2> QED
    BY <1>1, <2>1, <2>2, <2>3, <2>4 DEF devinit
<1>2. CASE eth_dev_start
  <2>1. CASE rte_eth_dev_start \/ StartRx \/ StatusUp
    BY <2>1 DEF rte_eth_dev_start, StartRx, StatusUp, OpenFails
  <2>2. CASE StartTx
    <3> DEFINE i == Min(UnopenedTx)
    <3>2. \/ txq' = txq
          \/ txq' = [txq EXCEPT ![i].dumper = Fresh]
          \/ txq' = [txq EXCEPT ![i].pcap = Fresh]
      BY <2>2 DEF StartTx, OpenFails
    <3>3. UNCHANGED <<device, mbufs>> /\ phase = "starting" /\ phase' # "undefined"
      BY <2>2 DEF StartTx, OpenFails
    <3> HIDE DEF i
    <3>4. SameCounters
      BY <3>2, SameWith
    <3> QED
      BY <3>3, <3>4
  <2> QED
    BY <1>2, <2>1, <2>2 DEF eth_dev_start
<1>3. CASE eth_dev_stop
  <2>1. txq \in [1..nTx -> TxRecord]
    BY TypeNow
  <2>2. \/ txq' = txq
        \/ txq' = [i \in 1..nTx |-> IF single_iface THEN [txq[i] EXCEPT !.pcap = Null]
                                      ELSE [txq[i] EXCEPT !.pcap = Null, !.dumper = Null]]
    BY <1>3 DEF eth_dev_stop
  <2>3. UNCHANGED <<device, mbufs>> /\ phase = "started" /\ phase' # "undefined"
    BY <1>3 DEF eth_dev_stop
  <2> QED
    BY <2>1, <2>2, <2>3 DEF TxRecord
<1>4. CASE devuninit
  BY <1>4 DEF devuninit
<1> QED
  BY <1>1, <1>2, <1>3, <1>4

\* The initial counters are zero.
LEMMA InitBursts == Init => TypeOK /\ BurstsAccounted
<1> SUFFICES ASSUME Init PROVE TypeOK /\ BurstsAccounted
  OBVIOUS
<1>1. TypeOK
  <2>1. /\ rxq = [i \in 1..nRx |-> [pcap |-> Null, name |-> ""]]
        /\ txq \in [1..nTx -> [dumper : {Null, Wild}, pcap : {Null}, name : {""},
                               tx_pkts : {0}, err_pkts : {0}]]
        /\ device \in Arguments /\ phase = "rx" /\ done = 0 /\ opened = 0 /\ open = {}
        /\ pool = Mbufs /\ caller = {} /\ dropped = {} /\ handed = 0
    BY DEF Init
  <2>2. 0 \in 0..opened /\ {Null, Wild} \subseteq Wild..opened /\ {Null} \subseteq 0..opened
    <3>1. Null = 0 /\ Wild = -1 /\ opened = 0
      BY <2>1 DEF Null, Wild
    <3>2. 0 \in 0..0 /\ 0 \in -1..0 /\ -1 \in -1..0
      OBVIOUS
    <3> QED
      BY <3>1, <3>2
  <2>3. rxq \in [1..nRx -> [pcap : 0..opened, name : Names \cup {""}]]
    BY <2>1, <2>2
  <2>5. [dumper : {Null, Wild}, pcap : {Null}, name : {""}, tx_pkts : {0}, err_pkts : {0}]
          \subseteq [dumper : Wild..opened, pcap : 0..opened, name : Names \cup {""},
                      tx_pkts : Nat, err_pkts : Nat]
    <3>1. \A S, T, A, B, N, M, P, R :
            S \subseteq T /\ A \subseteq B /\ N \subseteq M /\ P \subseteq R
              => [dumper : S, pcap : A, name : N, tx_pkts : P, err_pkts : P]
                   \subseteq [dumper : T, pcap : B, name : M, tx_pkts : R, err_pkts : R]
      OBVIOUS
    <3>2. {""} \subseteq Names \cup {""} /\ {0} \subseteq Nat
      OBVIOUS
    <3> QED
      BY <2>2, <3>1, <3>2
  <2>4. txq \in [1..nTx -> [dumper : Wild..opened, pcap : 0..opened, name : Names \cup {""},
                            tx_pkts : Nat, err_pkts : Nat]]
    BY <2>1, <2>5
  <2>6. open \subseteq 1..opened
    BY <2>1
  <2> QED
    BY <2>1, <2>3, <2>4, <2>6 DEF TypeOK
<1>2. nTx \in Nat /\ IsFiniteSet(1..nTx)
  BY <1>1, TxFinite
<1>3. Sent \in [1..nTx -> {0}] /\ NotSent \in [1..nTx -> {0}]
  BY DEF Init, Sent, NotSent
<1>4. SumFunction(Sent) = 0 /\ SumFunction(NotSent) = 0
  BY <1>2, <1>3, SumZero
<1>5. pool = Mbufs /\ caller = {} /\ dropped = {} /\ handed = 0
  BY DEF Init
<1>6. eth_stats_get.opackets + eth_stats_get.oerrors = handed
  BY <1>4, <1>5, Stats
<1> QED
  BY <1>1, <1>5, <1>6 DEF BurstsAccounted

\* A burst adds what was sent to one counter and the rest to the other.
LEMMA BurstSums ==
  ASSUME TypeOK, UNCHANGED device, NEW q, q \in 1..nTx, NEW b \in Nat, NEW s \in Nat,
         txq' = Counted(q, b, s)
  PROVE  SumFunction(Sent)' + SumFunction(NotSent)'
           = SumFunction(Sent) + SumFunction(NotSent) + b
<1>1. IsFiniteSet(1..nTx) /\ nTx' = nTx
  BY TxFinite DEF nTx
<1>2. Sent \in [1..nTx -> Int] /\ NotSent \in [1..nTx -> Int]
  <2>1. \A r \in 1..nTx : txq[r].tx_pkts \in Nat /\ txq[r].err_pkts \in Nat
    BY TypeNow DEF TxRecord
  <2>2. \A r \in 1..nTx : txq[r].tx_pkts \in Int /\ txq[r].err_pkts \in Int
    BY <2>1
  <2> QED
    BY <2>2 DEF Sent, NotSent
<1>3. /\ Sent' \in [1..nTx -> Int] /\ Sent'[q] = Sent[q] + s
      /\ \A r \in 1..nTx : r # q => Sent'[r] = Sent[r]
  <2>1. \A r \in 1..nTx :
          /\ txq'[r].tx_pkts = (IF r = q THEN txq[q].tx_pkts + s ELSE txq[r].tx_pkts)
          /\ txq[r].tx_pkts \in Nat
    BY TypeNow DEF Counted, TxRecord
  <2>2. \A r \in 1..nTx : txq'[r].tx_pkts \in Int
    BY <2>1
  <2> QED
    BY <1>1, <2>1, <2>2 DEF Sent
<1>4. /\ NotSent' \in [1..nTx -> Int] /\ NotSent'[q] = NotSent[q] + (b - s)
      /\ \A r \in 1..nTx : r # q => NotSent'[r] = NotSent[r]
  <2>1. \A r \in 1..nTx :
          /\ txq'[r].err_pkts = (IF r = q THEN txq[q].err_pkts + b - s ELSE txq[r].err_pkts)
          /\ txq[r].err_pkts \in Nat
    BY TypeNow DEF Counted, TxRecord
  <2>2. \A r \in 1..nTx : txq'[r].err_pkts \in Int
    BY <2>1
  <2>3. txq'[q].err_pkts = txq[q].err_pkts + (b - s)
    BY <2>1
  <2> QED
    BY <1>1, <2>1, <2>2, <2>3 DEF NotSent
<1>5. b - s \in Int /\ s \in Int
  OBVIOUS
<1>6. SumFunction(Sent) \in Int /\ SumFunction(Sent)' = SumFunction(Sent) + s
  <2> DEFINE D == 1..nTx
             f == Sent
             g == Sent'
  <2>1. /\ IsFiniteSet(D) /\ f \in [D -> Int] /\ g \in [D -> Int] /\ q \in D
        /\ g[q] = f[q] + s /\ \A r \in D : r # q => g[r] = f[r]
    BY <1>1, <1>2, <1>3
  <2> HIDE DEF D, f, g
  <2>2. SumFunction(f) \in Int /\ SumFunction(g) = SumFunction(f) + s
    BY ONLY <1>5, <2>1, SumUpdates
  <2> QED
    BY <2>2 DEF f, g
<1>7. SumFunction(NotSent) \in Int /\ SumFunction(NotSent)' = SumFunction(NotSent) + (b - s)
  <2> DEFINE D == 1..nTx
             k == b - s
             f == NotSent
             g == NotSent'
  <2>1. /\ IsFiniteSet(D) /\ f \in [D -> Int] /\ g \in [D -> Int] /\ q \in D /\ k \in Int
        /\ g[q] = f[q] + k /\ \A r \in D : r # q => g[r] = f[r]
    BY <1>1, <1>2, <1>4, <1>5
  <2> HIDE DEF D, f, g, k
  <2>2. SumFunction(f) \in Int /\ SumFunction(g) = SumFunction(f) + k
    BY ONLY <2>1, SumUpdates
  <2> QED
    BY <2>2 DEF f, g, k
<1> QED
  BY <1>6, <1>7

\* The bursts' property is inductive with the types.
LEMMA BurstsNext ==
  ASSUME TypeOK, BurstsAccounted, [Next]_vars
  PROVE  TypeOK' /\ BurstsAccounted'
<1> DEFINE Accounted ==
      /\ pool \cup caller = Mbufs
      /\ pool \cap caller = dropped
      /\ SumFunction(Sent) + SumFunction(NotSent) = handed
<1>1. BurstsAccounted <=> (phase # "undefined" => Accounted)
  BY Stats DEF BurstsAccounted
<1>2. BurstsAccounted' <=> (phase' # "undefined" => Accounted')
  <2>1. /\ eth_stats_get'.opackets = SumFunction(Sent)'
        /\ eth_stats_get'.oerrors = SumFunction(NotSent)'
    BY DEF eth_stats_get, Sent, NotSent
  <2> QED
    BY <2>1 DEF BurstsAccounted
<1>3. CASE devinit \/ eth_dev_start \/ eth_dev_stop \/ devuninit
  <2>1. TypeOK'
    BY <1>3, TypeOpenRx, TypeOpenTx, TypeDevinit, TypeStart, TypeStop DEF devinit
  <2>2. Accounted'
    BY <1>1, <1>3, NoBurst, SameStats DEF mbufs
  <2> QED
    BY <1>2, <2>1, <2>2
<1>4. CASE rte_pktmbuf_alloc
  <2>1. PICK m \in pool : OwnedTwice(m) /\ pool' = pool \ {m} /\ caller' = caller \cup {m}
    BY <1>4 DEF rte_pktmbuf_alloc
  <2>2. UNCHANGED <<device, txq, dropped, handed>> /\ phase = "started"
    BY <1>4 DEF rte_pktmbuf_alloc
  <2>3. SumFunction(Sent)' = SumFunction(Sent) /\ SumFunction(NotSent)' = SumFunction(NotSent)
    BY <2>2, SameStats DEF SameCounters
  <2>4. phase' # "undefined" => m \notin dropped
    BY <2>1 DEF OwnedTwice
  <2>5. phase' # "undefined" => Accounted'
    BY <1>1, <2>1, <2>2, <2>3, <2>4
  <2> QED
    BY <1>2, <1>4, <2>5, TypeApplication
<1>5. CASE rte_pktmbuf_free
  <2>1. PICK m \in caller : OwnedTwice(m) /\ pool' = pool \cup {m} /\ caller' = caller \ {m}
    BY <1>5 DEF rte_pktmbuf_free
  <2>2. UNCHANGED <<device, txq, dropped, handed>> /\ phase = "started"
    BY <1>5 DEF rte_pktmbuf_free
  <2>3. SumFunction(Sent)' = SumFunction(Sent) /\ SumFunction(NotSent)' = SumFunction(NotSent)
    BY <2>2, SameStats DEF SameCounters
  <2>4. phase' # "undefined" => m \notin dropped
    BY <2>1 DEF OwnedTwice
  <2>5. phase' # "undefined" => Accounted'
    BY <1>1, <2>1, <2>2, <2>3, <2>4
  <2> QED
    BY <1>2, <1>5, <2>5, TypeApplication
<1>6. CASE eth_stats_reset
  <2>1. /\ txq' = [i \in 1..nTx |-> [txq[i] EXCEPT !.tx_pkts = 0, !.err_pkts = 0]]
        /\ handed' = 0 /\ phase \in {"stopped", "started"}
        /\ UNCHANGED <<device, phase, pool, caller, dropped>>
    BY <1>6 DEF eth_stats_reset
  <2>2. IsFiniteSet(1..nTx) /\ nTx' = nTx
    BY <2>1, TxFinite DEF nTx
  <2>3. Sent' \in [1..nTx -> {0}] /\ NotSent' \in [1..nTx -> {0}]
    <3>1. \A i \in 1..nTx : txq'[i].tx_pkts = 0 /\ txq'[i].err_pkts = 0
      BY <2>1, TypeNow DEF TxRecord
    <3> QED
      BY <2>2, <3>1 DEF Sent, NotSent
  <2>4. SumFunction(Sent)' = 0 /\ SumFunction(NotSent)' = 0
    BY <2>2, <2>3, SumZero
  <2>5. pool' \cup caller' = Mbufs /\ pool' \cap caller' = dropped'
    BY <1>1, <2>1
  <2>8. handed' = 0
    BY <1>6 DEF eth_stats_reset
  <2>7. SumFunction(Sent)' + SumFunction(NotSent)' = handed'
    BY <2>4, <2>8
  <2>6. Accounted'
    BY <2>5, <2>7
  <2> QED
    BY <1>2, <1>6, <2>6, TypeApplication
<1>7. ASSUME NEW q \in 1..nTx, TxBurst(q)
      PROVE  TypeOK' /\ BurstsAccounted'
  <2>1. PICK batch \in SUBSET (caller \ dropped) :
         /\ \E outcome \in TxLoop(batch) :
              /\ pool' = pool \cup outcome.freed
              /\ caller' = caller \ outcome.sent
              /\ dropped' = dropped \cup outcome.tooLong
              /\ txq' = Counted(q, Cardinality(batch), Cardinality(outcome.sent))
         /\ handed' = handed + Cardinality(batch)
    BY <1>7 DEF TxBurst
  <2>2. PICK outcome \in TxLoop(batch) :
              /\ pool' = pool \cup outcome.freed
              /\ caller' = caller \ outcome.sent
              /\ dropped' = dropped \cup outcome.tooLong
              /\ txq' = Counted(q, Cardinality(batch), Cardinality(outcome.sent))
    BY <2>1
  <2>3. phase = "started" /\ UNCHANGED <<device, phase>>
    BY <1>7 DEF TxBurst
  <2>4. /\ outcome.sent \subseteq batch /\ outcome.freed = outcome.sent \cup outcome.tooLong
        /\ outcome.tooLong \subseteq batch \ outcome.sent
        /\ Cardinality(batch) \in Nat /\ Cardinality(outcome.sent) \in Nat
    BY <2>1, BurstType
  <2>5. SumFunction(Sent)' + SumFunction(NotSent)'
          = SumFunction(Sent) + SumFunction(NotSent) + Cardinality(batch)
    BY <2>2, <2>3, <2>4, BurstSums
  <2>6. /\ pool \cup caller = Mbufs /\ pool \cap caller = dropped
        /\ SumFunction(Sent) + SumFunction(NotSent) = handed
    BY <1>1, <2>3
  <2>7. pool' \cup caller' = Mbufs /\ pool' \cap caller' = dropped'
    BY <2>1, <2>2, <2>4, <2>6
  <2>8. Accounted'
    BY <2>1, <2>5, <2>6, <2>7
  <2> QED
    BY <1>2, <1>7, <2>8, TypeBurst
<1>8. CASE UNCHANGED vars
  <2>1. UNCHANGED <<device, phase, txq, pool, caller, dropped, handed>>
    BY <1>8 DEF vars, mbufs
  <2>2. SumFunction(Sent)' = SumFunction(Sent) /\ SumFunction(NotSent)' = SumFunction(NotSent)
    BY <2>1, SameStats DEF SameCounters
  <2>3. TypeOK'
    BY <1>8 DEF vars, mbufs, handles, TypeOK, nRx, nTx
  <2> QED
    BY <1>1, <1>2, <2>1, <2>2, <2>3
<1> QED
  BY <1>3, <1>4, <1>5, <1>6, <1>7, <1>8 DEF Next

-----------------------------------------------------------------------------
(* What keeps the handles as they are *)

\* The handles of the queues and what they were opened on, as an action
\* leaves them when it opens nothing.
SameQueues ==
  /\ UNCHANGED <<device, open, opened, done, rxq>>
  /\ \A q \in 1..nTx : /\ txq'[q].dumper = txq[q].dumper /\ txq'[q].pcap = txq[q].pcap
                       /\ txq'[q].name = txq[q].name

\* The queues are as many as the arguments say.
LEMMA SameDevice ==
  ASSUME UNCHANGED device
  PROVE  /\ nRx' = nRx /\ nTx' = nTx /\ (single_iface' <=> single_iface)
         /\ device.tx' = device.tx /\ device.rxNames' = device.rxNames
         /\ device.txNames' = device.txNames
BY DEF nRx, nTx, single_iface

\* An action that opens and closes nothing keeps the shape and the losses.
LEMMA SameShape ==
  ASSUME TypeOK, Shape, SameQueues, phase \in Opening \cup Alive,
         phase' = phase \/ {phase, phase'} \subseteq Alive
  PROVE  Shape'
<1>1. /\ QueuesHold /\ Apart /\ RxRound /\ TxRound /\ RxDone /\ TxDone /\ Single
      /\ phase' \in Opening \cup Alive
  BY DEF Shape
<1>2. nRx' = nRx /\ nTx' = nTx /\ (single_iface' <=> single_iface) /\ device' = device
  BY SameDevice DEF SameQueues
<1>3. /\ open' = open /\ opened' = opened /\ done' = done /\ rxq' = rxq
      /\ \A q \in 1..nTx : /\ txq'[q].dumper = txq[q].dumper /\ txq'[q].pcap = txq[q].pcap
                           /\ txq'[q].name = txq[q].name
  BY DEF SameQueues
<1>4. phase' = phase \/ {phase, phase'} \subseteq Alive
  OBVIOUS
<1>5. QueuesHold' /\ Apart'
  BY <1>1, <1>2, <1>3 DEF QueuesHold, Apart
<1>6. RxRound'
  BY <1>1, <1>2, <1>3, <1>4 DEF RxRound, Round, Alive
<1>7. TxRound'
  BY <1>1, <1>2, <1>3, <1>4 DEF TxRound, Round, Alive, TxHandle
<1>8. RxDone'
  BY <1>1, <1>2, <1>3, <1>4 DEF RxDone, Alive
<1>9. TxDone'
  BY <1>1, <1>2, <1>3, <1>4 DEF TxDone, Alive
<1>10. Single'
  <2>1. CASE single_iface
    <3>1. 1 \in 1..nTx
      BY <2>1, Queues
    <3>2. txq'[1].pcap = txq[1].pcap
      BY <1>3, <3>1
    <3>3. phase' \in Alive \cup {"create"} => phase \in Alive \cup {"create"}
      BY <1>4
    <3>4. (phase' = "rx" => phase = "rx") /\ (phase' = "create" => phase = "create")
      BY <1>4 DEF Alive
    <3> QED
      BY <1>1, <1>3, <2>1, <3>2, <3>3, <3>4 DEF Single
  <2>2. CASE ~single_iface
    BY <1>2, <2>2 DEF Single
  <2> QED
    BY <2>1, <2>2
<1> QED
  BY <1>1, <1>5, <1>6, <1>7, <1>8, <1>9, <1>10 DEF Shape

\* And so stay the handles no queue has.
LEMMA SameLosses ==
  ASSUME Losses, SameQueues, phase \in Opening \cup Alive,
         phase' = phase \/ {phase, phase'} \subseteq Alive
  PROVE  Losses'
<1>1. nRx' = nRx /\ nTx' = nTx /\ (single_iface' <=> single_iface) /\ device' = device
  BY SameDevice DEF SameQueues
<1>2. /\ open' = open /\ opened' = opened /\ done' = done /\ rxq' = rxq
      /\ \A q \in 1..nTx : txq'[q].dumper = txq[q].dumper /\ txq'[q].pcap = txq[q].pcap
  BY DEF SameQueues
<1>3. phase' \in Opening <=> phase \in Opening
  BY DEF Opening, Alive
<1>4. Kept' = Kept
  <2>1. {txq[q].dumper : q \in 1..nTx}' = {txq[q].dumper : q \in 1..nTx}
    BY <1>1, <1>2
  <2>2. {txq[q].pcap : q \in 1..nTx}' = {txq[q].pcap : q \in 1..nTx}
    BY <1>1, <1>2
  <2>3. RxHandles' = RxHandles
    BY <1>1, <1>2 DEF RxHandles
  <2> QED
    BY <1>3, <2>1, <2>2, <2>3 DEF Kept
<1>5. Lost' = Lost
  <2>1. Forgotten' = Forgotten
    BY <1>1, <1>2 DEF Forgotten
  <2>2. (phase' = "rx" <=> phase = "rx") /\ (phase' = "tx" <=> phase = "tx")
    BY DEF Alive
  <2> QED
    BY <1>1, <1>2, <2>1, <2>2 DEF Lost, Over
<1> QED
  BY <1>2, <1>4, <1>5 DEF Losses

\* What a new handle does to those no queue has: nothing when a queue that had
\* none gets it, one more when it takes the place of another.
LEMMA LossesSame ==
  ASSUME Losses, phase \in Opening \cup Alive,
         open' \ Kept' = open \ Kept, Lost' = Lost
  PROVE  Losses'
BY DEF Losses

\* One more is lost.
LEMMA LossesMore ==
  ASSUME TypeOK, Losses, phase \in Opening \cup Alive, NEW h,
         h \notin open \ Kept, open' \ Kept' = (open \ Kept) \cup {h}, Lost' = Lost + 1
  PROVE  Losses'
<1>1. IsFiniteSet(open)
  <2>1. opened \in Int /\ 1 \in Int /\ open \subseteq 1..opened
    BY Plain
  <2> QED
    BY <2>1, FS_Interval, FS_Subset
<1>2. IsFiniteSet(open \ Kept)
  BY <1>1, FS_Subset
<1>3. Cardinality((open \ Kept) \cup {h}) = Cardinality(open \ Kept) + 1
  BY <1>2, FS_AddElement
<1> QED
  BY <1>3 DEF Losses

\* A start opens what is not yet open.
LEMMA SameUnopened ==
  ASSUME SameQueues
  PROVE  UnopenedTx' = UnopenedTx /\ UnopenedRx' = UnopenedRx
<1>1. nRx' = nRx /\ nTx' = nTx /\ (single_iface' <=> single_iface) /\ device' = device
  BY SameDevice DEF SameQueues
<1>2. rxq' = rxq /\ \A q \in 1..nTx : txq'[q].dumper = txq[q].dumper /\ txq'[q].pcap = txq[q].pcap
  BY DEF SameQueues
<1> QED
  BY <1>1, <1>2 DEF UnopenedTx, UnopenedRx

\* The actions that open and close nothing.
LEMMA QuietQueues ==
  ASSUME TypeOK, [Next]_vars, ~OpenRx, ~OpenTx, ~RxOpened, ~TxOpened, ~FromPcaps, ~StartTx, ~StartRx,
         ~eth_dev_stop
  PROVE  /\ SameQueues
         /\ \/ phase' = phase
            \/ phase = "stopped" /\ phase' = "starting"
            \/ phase = "starting" /\ phase' = "started" /\ UnopenedTx = {} /\ UnopenedRx = {}
            \/ phase' \in {"detached", "undefined"}
<1> USE DEF handles
<1>1. CASE rte_eth_dev_start \/ StatusUp \/ devuninit
  BY <1>1 DEF rte_eth_dev_start, StatusUp, devuninit, SameQueues
<1>2. CASE rte_pktmbuf_alloc \/ rte_pktmbuf_free
  BY <1>2 DEF rte_pktmbuf_alloc, rte_pktmbuf_free, OwnedTwice, SameQueues
<1>3. CASE eth_stats_reset
  <2>1. \A r \in TxRecord : LET s == [r EXCEPT !.tx_pkts = 0, !.err_pkts = 0]
                            IN s.dumper = r.dumper /\ s.pcap = r.pcap /\ s.name = r.name
    BY DEF TxRecord
  <2>2. txq' = [q \in 1..nTx |-> [txq[q] EXCEPT !.tx_pkts = 0, !.err_pkts = 0]]
    BY <1>3 DEF eth_stats_reset
  <2>3. \A q \in 1..nTx : /\ txq'[q].dumper = txq[q].dumper /\ txq'[q].pcap = txq[q].pcap
                          /\ txq'[q].name = txq[q].name
    BY <2>1, <2>2, TypeNow
  <2> QED
    BY <1>3, <2>3 DEF eth_stats_reset, SameQueues
<1>4. ASSUME NEW q \in 1..nTx, TxBurst(q)
      PROVE  SameQueues /\ phase' = phase
  <2>1. PICK b, s : txq' = Counted(q, b, s)
    BY <1>4 DEF TxBurst
  <2>2. \A r \in 1..nTx : /\ txq'[r].dumper = txq[r].dumper /\ txq'[r].pcap = txq[r].pcap
                          /\ txq'[r].name = txq[r].name
    BY <2>1, TypeNow DEF Counted, TxRecord
  <2> QED
    BY <1>4, <2>2 DEF TxBurst, SameQueues
<1>5. CASE UNCHANGED vars
  BY <1>5 DEF vars, SameQueues
<1> QED
  BY <1>1, <1>2, <1>3, <1>4, <1>5 DEF Next, devinit, eth_dev_start

-----------------------------------------------------------------------------
(* devinit *)

\* Each argument's handles but the last one's.
LEMMA OverSquare ==
  ASSUME NEW n \in Nat
  PROVE  Over(n * n, n) = n * (n - 1)
<1>1. CASE n = 0 \/ n = 1
  BY <1>1 DEF Over
<1>2. CASE n > 1
  <2>1. n * n > n /\ n * n - n = n * (n - 1)
    BY <1>2
  <2> QED
    BY <2>1 DEF Over
<1> QED
  BY <1>1, <1>2

\* A handle is replaced once every queue has one.
LEMMA OverNext ==
  ASSUME NEW n \in Nat, NEW d \in Nat
  PROVE  Over(d + 1, n) = Over(d, n) + (IF d < n THEN 0 ELSE 1) /\ Over(d, n) \in Nat
BY DEF Over

\* One handle more: the next queue has it, on the name its argument gives.
LEMMA RoundNext ==
  ASSUME NEW n \in Nat \ {0}, NEW k \in Nat, NEW names, NEW j \in 1..n,
         NEW h, NEW name, NEW h1, NEW name1,
         Round(k, n, names, j, h, name),
         IF j = (k % n) + 1 THEN h1 \notin {Null, Wild} /\ name1 = names[(k \div n) + 1]
                            ELSE h1 = h /\ name1 = name
  PROVE  Round(k + 1, n, names, j, h1, name1)
<1> DEFINE m == k % n
           d == k \div n
           m1 == (k + 1) % n
           d1 == (k + 1) \div n
<1>1. /\ m \in 0..(n - 1) /\ d \in Nat
      /\ IF m + 1 < n THEN m1 = m + 1 /\ d1 = d ELSE m1 = 0 /\ d1 = d + 1
      /\ k < n <=> d = 0
  BY NextInRound
<1>2. k + 1 \in Nat /\ (k + 1 < n <=> d1 = 0)
  <2>1. k + 1 \in Nat
    OBVIOUS
  <2> QED
    BY <2>1, NextInRound
<1>3. /\ IF j <= m THEN h \notin {Null, Wild} /\ name = names[d + 1]
         ELSE IF k < n THEN h \in {Null, Wild}
         ELSE h \notin {Null, Wild} /\ name = names[d]
      /\ IF j = m + 1 THEN h1 \notin {Null, Wild} /\ name1 = names[d + 1] ELSE h1 = h /\ name1 = name
  BY DEF Round
<1> HIDE DEF m, d, m1, d1
<1>4. IF j <= m1 THEN h1 \notin {Null, Wild} /\ name1 = names[d1 + 1]
      ELSE IF k + 1 < n THEN h1 \in {Null, Wild}
      ELSE h1 \notin {Null, Wild} /\ name1 = names[d1]
  <2>1. CASE m + 1 < n
    <3>1. m1 = m + 1 /\ d1 = d
      BY <1>1, <2>1
    <3>2. k + 1 < n <=> k < n
      BY <1>1, <1>2, <3>1
    <3>3. j <= m1 <=> j <= m \/ j = m + 1
      BY <1>1, <3>1
    <3> QED
      BY <1>1, <1>3, <3>1, <3>2, <3>3
  <2>2. CASE ~(m + 1 < n)
    <3>1. m1 = 0 /\ d1 = d + 1 /\ ~(j <= m1) /\ ~(k + 1 < n)
      BY <1>1, <1>2, <2>2
    <3>2. j <= m \/ j = m + 1
      BY <1>1, <2>2
    <3> QED
      BY <1>1, <1>3, <3>1, <3>2
  <2> QED
    BY <2>1, <2>2
<1> QED
  BY <1>4 DEF Round, m1, d1

\* The handlers' state after a handle has been opened.
LEMMA OpenRxView ==
  ASSUME TypeOK, OpenRx, phase' = "rx"
  PROVE  /\ phase = "rx" /\ Opens /\ done \in Nat /\ done < nRx * nRx /\ done' = done + 1
         /\ nRx \in Nat \ {0} /\ (done % nRx) + 1 \in 1..nRx
         /\ UNCHANGED <<device, txq>>
         /\ \A r \in 1..nRx :
              /\ rxq'[r].pcap = (IF r = (done % nRx) + 1 THEN Fresh ELSE rxq[r].pcap)
              /\ rxq'[r].name = (IF r = (done % nRx) + 1 THEN device.rxNames[(done \div nRx) + 1]
                                                         ELSE rxq[r].name)
<1> DEFINE i == (done % nRx) + 1
           name == device.rxNames[(done \div nRx) + 1]
<1>1. done \in Nat /\ nRx \in Nat /\ done < nRx * nRx /\ phase = "rx" /\ UNCHANGED device
  BY Plain, Queues DEF OpenRx
<1>2. nRx \in Nat \ {0}
  BY <1>1, InRounds
<1>3. i \in 1..nRx
  <2>1. done % nRx \in 0..(nRx - 1)
    BY <1>1, <1>2, NextInRound
  <2> QED
    BY <1>2, <2>1
<1>4. Opens /\ done' = done + 1 /\ rxq' = [rxq EXCEPT ![i] = [pcap |-> Fresh, name |-> name]]
      /\ UNCHANGED txq
  BY DEF OpenRx, OpenFails
<1> HIDE DEF i, name
<1>5. \A r \in 1..nRx : /\ rxq'[r].pcap = (IF r = i THEN Fresh ELSE rxq[r].pcap)
                        /\ rxq'[r].name = (IF r = i THEN name ELSE rxq[r].name)
  BY <1>4, TypeNow
<1> QED
  BY <1>1, <1>2, <1>3, <1>4, <1>5 DEF i, name

\* The same of the tx queues.
LEMMA OpenTxView ==
  ASSUME TypeOK, OpenTx, phase' = "tx"
  PROVE  /\ phase = "tx" /\ Opens /\ done \in Nat /\ done < nTx * nTx /\ done' = done + 1
         /\ nTx \in Nat \ {0} /\ (done % nTx) + 1 \in 1..nTx
         /\ UNCHANGED <<device, rxq>>
         /\ \A r \in 1..nTx :
              /\ txq'[r].dumper = (IF device.tx = "tx_pcap" /\ r = (done % nTx) + 1
                                     THEN Fresh ELSE txq[r].dumper)
              /\ txq'[r].pcap = (IF device.tx # "tx_pcap" /\ r = (done % nTx) + 1
                                   THEN Fresh ELSE txq[r].pcap)
              /\ txq'[r].name = (IF r = (done % nTx) + 1 THEN device.txNames[(done \div nTx) + 1]
                                                         ELSE txq[r].name)
<1> DEFINE i == (done % nTx) + 1
           name == device.txNames[(done \div nTx) + 1]
<1>1. done \in Nat /\ nTx \in Nat /\ done < nTx * nTx /\ phase = "tx" /\ UNCHANGED device
  BY Plain, Queues DEF OpenTx
<1>2. nTx \in Nat \ {0}
  BY <1>1, InRounds
<1>3. i \in 1..nTx
  <2>1. done % nTx \in 0..(nTx - 1)
    BY <1>1, <1>2, NextInRound
  <2> QED
    BY <1>2, <2>1
<1>4. /\ Opens /\ done' = done + 1 /\ UNCHANGED rxq
      /\ txq' = IF device.tx = "tx_pcap"
                  THEN [txq EXCEPT ![i].dumper = Fresh, ![i].name = name]
                  ELSE [txq EXCEPT ![i].pcap = Fresh, ![i].name = name]
  BY DEF OpenTx, OpenFails
<1> HIDE DEF i, name
<1> DEFINE Dumps(r) == [r EXCEPT !.dumper = Fresh, !.name = name]
           Sends(r) == [r EXCEPT !.pcap = Fresh, !.name = name]
<1>5. \A r \in TxRecord :
        /\ Dumps(r).dumper = Fresh /\ Dumps(r).pcap = r.pcap /\ Dumps(r).name = name
        /\ Sends(r).dumper = r.dumper /\ Sends(r).pcap = Fresh /\ Sends(r).name = name
  BY DEF TxRecord
<1>6. CASE device.tx = "tx_pcap"
  <2>1. \A r \in 1..nTx :
          txq'[r] = IF r = i THEN Dumps(txq[r]) ELSE txq[r]
    BY <1>4, <1>6, TypeNow
  <2> HIDE DEF Dumps
  <2>2. \A r \in 1..nTx : txq[r] \in TxRecord
    BY TypeNow
  <2>3. \A r \in 1..nTx :
          /\ txq'[r].dumper = (IF r = i THEN Fresh ELSE txq[r].dumper)
          /\ txq'[r].pcap = (IF r = i THEN txq[r].pcap ELSE txq[r].pcap)
          /\ txq'[r].name = (IF r = i THEN name ELSE txq[r].name)
    BY <1>5, <2>1, <2>2
  <2> QED
    BY <1>1, <1>2, <1>3, <1>4, <1>6, <2>3 DEF i, name
<1>7. CASE device.tx # "tx_pcap"
  <2>1. \A r \in 1..nTx :
          txq'[r] = IF r = i THEN Sends(txq[r]) ELSE txq[r]
    BY <1>4, <1>7, TypeNow
  <2> HIDE DEF Sends
  <2>2. \A r \in 1..nTx : txq[r] \in TxRecord
    BY TypeNow
  <2>3. \A r \in 1..nTx :
          /\ txq'[r].dumper = (IF r = i THEN txq[r].dumper ELSE txq[r].dumper)
          /\ txq'[r].pcap = (IF r = i THEN Fresh ELSE txq[r].pcap)
          /\ txq'[r].name = (IF r = i THEN name ELSE txq[r].name)
    BY <1>5, <2>1, <2>2
  <2> QED
    BY <1>1, <1>2, <1>3, <1>4, <1>7, <2>3 DEF i, name
<1> QED
  BY <1>6, <1>7

\* A handle more in the place of one that no other queue has.
LEMMA Replaced ==
  ASSUME NEW O, NEW K, NEW O1, NEW K1, NEW f, NEW h,
         f \notin O, f # h, h \in O, h \in K,
         O1 = O \cup {f}, K1 = (K \ {h}) \cup {f}
  PROVE  h \notin O \ K /\ O1 \ K1 = (O \ K) \cup {h}
OBVIOUS

\* A handle more where there was none.
LEMMA Added ==
  ASSUME NEW O, NEW K, NEW O1, NEW K1, NEW f, f \notin O,
         O1 = O \cup {f}, K1 = K \cup {f}
  PROVE  O1 \ K1 = O \ K
OBVIOUS

\* open_rx_pcap and open_rx_iface: the next queue has the new handle.
LEMMA OpenRxShape ==
  ASSUME TypeOK, Shape, OpenRx, phase' = "rx"
  PROVE  Shape'
<1> DEFINE i == (done % nRx) + 1
           name == device.rxNames[(done \div nRx) + 1]
<1>1. /\ phase = "rx" /\ done \in Nat /\ done < nRx * nRx /\ done' = done + 1
      /\ nRx \in Nat \ {0} /\ i \in 1..nRx
      /\ UNCHANGED <<device, txq>>
      /\ \A r \in 1..nRx : /\ rxq'[r].pcap = (IF r = i THEN Fresh ELSE rxq[r].pcap)
                           /\ rxq'[r].name = (IF r = i THEN name ELSE rxq[r].name)
  BY OpenRxView
<1>2. /\ opened' = opened + 1 /\ open' = open \cup {Fresh}
      /\ Fresh \notin open /\ Fresh \notin {Null, Wild}
      /\ \A q \in 1..nRx : rxq[q].pcap # Fresh
      /\ \A q \in 1..nTx : txq[q].pcap # Fresh /\ txq[q].dumper # Fresh
  BY OpenRxView, TypeOpens
<1>3. QueuesHold /\ Apart /\ RxRound /\ Single
  BY <1>1 DEF Shape, Opening
<1>4. nRx' = nRx /\ nTx' = nTx /\ (single_iface' <=> single_iface) /\ device' = device
  BY <1>1, SameDevice
<1>5. QueuesHold'
  <2> HIDE DEF i, name
  <2> QED
    BY <1>1, <1>2, <1>3, <1>4 DEF QueuesHold
<1>6. Apart'
  <2> HIDE DEF i, name
  <2>1. \A q, r \in 1..nRx : q # r => rxq'[q].pcap # rxq'[r].pcap \/ rxq'[q].pcap = Null
    BY <1>1, <1>2, <1>3 DEF Apart
  <2>2. \A q \in 1..nTx, r \in 1..nRx : ~single_iface =>
          /\ txq[q].dumper # rxq'[r].pcap \/ rxq'[r].pcap = Null
          /\ txq[q].pcap # rxq'[r].pcap \/ rxq'[r].pcap = Null
    BY <1>1, <1>2, <1>3 DEF Apart
  <2> QED
    BY <1>1, <1>3, <1>4, <2>1, <2>2 DEF Apart
<1>7. RxRound'
  <2>1. ASSUME NEW j \in 1..nRx
        PROVE  Round(done', nRx, device.rxNames, j, rxq'[j].pcap, rxq'[j].name)
    <3>1. Round(done, nRx, device.rxNames, j, rxq[j].pcap, rxq[j].name)
      BY <1>1, <1>3 DEF RxRound
    <3>2. IF j = (done % nRx) + 1
            THEN rxq'[j].pcap \notin {Null, Wild} /\ rxq'[j].name = device.rxNames[(done \div nRx) + 1]
            ELSE rxq'[j].pcap = rxq[j].pcap /\ rxq'[j].name = rxq[j].name
      BY <1>1, <1>2
    <3> DEFINE n == nRx
               names == device.rxNames
               h == rxq[j].pcap
               nm == rxq[j].name
               h1 == rxq'[j].pcap
               nm1 == rxq'[j].name
    <3>3. n \in Nat \ {0} /\ done \in Nat /\ j \in 1..n
      BY <1>1
    <3> HIDE DEF n, names, h, nm, h1, nm1
    <3>4. Round(done + 1, n, names, j, h1, nm1)
      BY <3>1, <3>2, <3>3, RoundNext DEF n, names, h, nm, h1, nm1
    <3> QED
      BY <1>1, <3>4 DEF n, names, h1, nm1
  <2>2. done' <= nRx * nRx
    BY <1>1
  <2> QED
    BY <1>1, <1>3, <1>4, <2>1, <2>2 DEF RxRound, Null, Wild
<1>8. Single'
  BY <1>1, <1>2, <1>3, <1>4 DEF Single, Alive
<1>9. TxRound' /\ RxDone' /\ TxDone'
  BY DEF TxRound, RxDone, TxDone
<1> QED
  BY <1>5, <1>6, <1>7, <1>8, <1>9 DEF Shape

\* They lose a handle when the queue had one.
LEMMA OpenRxLosses ==
  ASSUME TypeOK, Shape, Losses, OpenRx, phase' = "rx"
  PROVE  Losses'
<1> DEFINE i == (done % nRx) + 1
<1>1. /\ phase = "rx" /\ done \in Nat /\ done < nRx * nRx /\ done' = done + 1
      /\ nRx \in Nat \ {0} /\ i \in 1..nRx
      /\ UNCHANGED <<device, txq>>
      /\ \A r \in 1..nRx : rxq'[r].pcap = (IF r = i THEN Fresh ELSE rxq[r].pcap)
  BY OpenRxView
<1>2. /\ open' = open \cup {Fresh}
      /\ Fresh \notin open /\ Fresh \notin {Null, Wild}
      /\ \A q \in 1..nRx : rxq[q].pcap # Fresh
  BY OpenRxView, TypeOpens
<1>3. QueuesHold /\ Apart /\ RxRound
  BY <1>1 DEF Shape, Opening
<1>4. nRx' = nRx /\ nTx' = nTx /\ (single_iface' <=> single_iface) /\ device' = device
  BY <1>1, SameDevice
<1>5. phase \in Opening /\ phase' \in Opening
  BY <1>1 DEF Opening
<1>6. \A q \in 1..nTx : txq[q].dumper \in {Null, Wild}
  BY <1>1, <1>3 DEF RxRound
<1>7. Kept = {rxq[q].pcap : q \in 1..nRx} \ {Null, Wild}
  BY <1>5, <1>6 DEF Kept, RxHandles
<1>8. Kept' = {rxq'[q].pcap : q \in 1..nRx} \ {Null, Wild}
  BY <1>1, <1>4, <1>5, <1>6 DEF Kept, RxHandles, Null, Wild
<1>9. Lost = Over(done, nRx) /\ Lost' = Over(done + 1, nRx)
  BY <1>1, <1>4 DEF Lost, Over
<1>10. Round(done, nRx, device.rxNames, i, rxq[i].pcap, rxq[i].name)
  BY <1>1, <1>3 DEF RxRound
<1>11. ~(i <= done % nRx)
  <2>1. done % nRx \in 0..(nRx - 1)
    BY <1>1, NextInRound
  <2> QED
    BY <2>1
<1> HIDE DEF i
<1>12. CASE done < nRx
  <2>1. rxq[i].pcap \in {Null, Wild}
    BY <1>10, <1>11, <1>12 DEF Round
  <2>2. Kept' = Kept \cup {Fresh}
    BY <1>1, <1>2, <1>7, <1>8, <2>1
  <2>3. open' \ Kept' = open \ Kept
    BY <1>2, <2>2
  <2>4. Lost' = Lost
    BY <1>1, <1>9, <1>12, OverNext
  <2> QED
    BY <1>5, <2>3, <2>4, LossesSame
<1>13. CASE ~(done < nRx)
  <2>1. rxq[i].pcap \notin {Null, Wild} /\ rxq[i].pcap \in open
    BY <1>1, <1>3, <1>10, <1>11, <1>13 DEF Round, QueuesHold
  <2>2. \A q \in 1..nRx : q # i => rxq[q].pcap # rxq[i].pcap
    BY <1>1, <1>3, <2>1 DEF Apart
  <2> DEFINE h == rxq[i].pcap
  <2>3. h \in Kept /\ h # Fresh
    BY <1>1, <1>2, <1>7, <2>1
  <2>4. Kept' = (Kept \ {h}) \cup {Fresh}
    BY <1>1, <1>2, <1>7, <1>8, <2>1, <2>2
  <2> HIDE DEF h
  <2>5. h \notin open \ Kept /\ open' \ Kept' = (open \ Kept) \cup {h}
    BY <1>2, <2>1, <2>3, <2>4 DEF h
  <2>6. Lost' = Lost + 1
    BY <1>1, <1>9, <1>13, OverNext
  <2> QED
    BY <1>5, <2>5, <2>6, LossesMore
<1> QED
  BY <1>12, <1>13

\* open_tx_pcap and open_tx_iface likewise.
LEMMA OpenTxShape ==
  ASSUME TypeOK, Shape, OpenTx, phase' = "tx"
  PROVE  Shape'
<1> DEFINE i == (done % nTx) + 1
           name == device.txNames[(done \div nTx) + 1]
           tp == device.tx = "tx_pcap"
<1>1. /\ phase = "tx" /\ done \in Nat /\ done < nTx * nTx /\ done' = done + 1
      /\ nTx \in Nat \ {0} /\ i \in 1..nTx
      /\ UNCHANGED <<device, rxq>>
      /\ \A r \in 1..nTx : /\ txq'[r].dumper = (IF tp /\ r = i THEN Fresh ELSE txq[r].dumper)
                           /\ txq'[r].pcap = (IF ~tp /\ r = i THEN Fresh ELSE txq[r].pcap)
                           /\ txq'[r].name = (IF r = i THEN name ELSE txq[r].name)
  BY OpenTxView
<1>2. /\ opened' = opened + 1 /\ open' = open \cup {Fresh}
      /\ Fresh \notin open /\ Fresh \notin {Null, Wild}
      /\ \A q \in 1..nRx : rxq[q].pcap # Fresh
      /\ \A q \in 1..nTx : txq[q].pcap # Fresh /\ txq[q].dumper # Fresh
  BY OpenTxView, TypeOpens
<1>3. QueuesHold /\ Apart /\ TxRound /\ RxDone
  BY <1>1 DEF Shape, Opening
<1>4. nRx' = nRx /\ nTx' = nTx /\ (single_iface' <=> single_iface) /\ device' = device
  BY <1>1, SameDevice
<1>5. ~single_iface
  BY <1>1, <1>3 DEF TxRound
<1>6. QueuesHold'
  <2> HIDE DEF i, name
  <2>1. \A q \in 1..nRx : rxq[q].pcap \in open' \cup {Null}
    BY <1>2, <1>3 DEF QueuesHold
  <2>2. \A q \in 1..nTx :
          /\ txq'[q].dumper \in IF tp THEN open' \cup {Null, Wild} ELSE {Null, Wild}
          /\ txq'[q].pcap \in IF tp THEN {Null} ELSE open' \cup {Null}
    BY <1>1, <1>2, <1>3 DEF QueuesHold
  <2> QED
    BY <1>1, <1>4, <2>1, <2>2 DEF QueuesHold, Null, Wild
<1>7. Apart'
  <2> HIDE DEF i, name, tp
  <2>1. \A q, r \in 1..nTx : q # r =>
          /\ txq'[q].dumper # txq'[r].dumper \/ txq'[q].dumper \in {Null, Wild}
          /\ txq'[q].pcap # txq'[r].pcap \/ txq'[q].pcap = Null
    BY <1>1, <1>2, <1>3 DEF Apart
  <2>2. \A q \in 1..nTx, r \in 1..nRx :
          /\ txq'[q].dumper # rxq[r].pcap \/ rxq[r].pcap = Null
          /\ txq'[q].pcap # rxq[r].pcap \/ rxq[r].pcap = Null
    BY <1>1, <1>2, <1>3, <1>5 DEF Apart
  <2> QED
    BY <1>1, <1>3, <1>4, <2>1, <2>2 DEF Apart, Null, Wild
<1>8. TxRound'
  <2>1. ASSUME NEW j \in 1..nTx
        PROVE  Round(done', nTx, device.txNames, j, TxHandle(j)', txq'[j].name)
    <3>1. Round(done, nTx, device.txNames, j, TxHandle(j), txq[j].name)
      BY <1>1, <1>3 DEF TxRound
    <3>2. TxHandle(j)' = IF j = i THEN Fresh ELSE TxHandle(j)
      <4> HIDE DEF i, name
      <4> QED
        BY <1>1 DEF TxHandle
    <3>3. IF j = (done % nTx) + 1
            THEN TxHandle(j)' \notin {Null, Wild} /\ txq'[j].name = device.txNames[(done \div nTx) + 1]
            ELSE TxHandle(j)' = TxHandle(j) /\ txq'[j].name = txq[j].name
      BY <1>1, <1>2, <3>2
    <3> DEFINE n == nTx
               names == device.txNames
               h == TxHandle(j)
               nm == txq[j].name
               h1 == TxHandle(j)'
               nm1 == txq'[j].name
    <3>4. n \in Nat \ {0} /\ done \in Nat /\ j \in 1..n
      BY <1>1
    <3> HIDE DEF n, names, h, nm, h1, nm1
    <3>5. Round(done + 1, n, names, j, h1, nm1)
      BY <3>1, <3>3, <3>4, RoundNext DEF n, names, h, nm, h1, nm1
    <3> QED
      BY <1>1, <3>5 DEF n, names, h1, nm1
  <2>2. done' <= nTx * nTx
    BY <1>1
  <2> QED
    BY <1>1, <1>4, <1>5, <2>1, <2>2 DEF TxRound
<1>9. RxDone'
  BY <1>1, <1>3, <1>4 DEF RxDone, Null
<1>10. RxRound' /\ TxDone' /\ Single'
  BY <1>4, <1>5 DEF RxRound, TxDone, Single
<1> QED
  BY <1>6, <1>7, <1>8, <1>9, <1>10 DEF Shape

\* The interfaces of the tx queues are all lost, the dumpers but the last.
LEMMA OpenTxLosses ==
  ASSUME TypeOK, Shape, Losses, OpenTx, phase' = "tx"
  PROVE  Losses'
<1> DEFINE i == (done % nTx) + 1
           R == {rxq[q].pcap : q \in 1..nRx}
           D == {txq[q].dumper : q \in 1..nTx}
           D1 == {txq'[q].dumper : q \in 1..nTx}
<1>1. /\ phase = "tx" /\ done \in Nat /\ done < nTx * nTx /\ done' = done + 1
      /\ nTx \in Nat \ {0} /\ i \in 1..nTx
      /\ UNCHANGED <<device, rxq>>
      /\ \A r \in 1..nTx :
           /\ txq'[r].dumper = (IF device.tx = "tx_pcap" /\ r = i THEN Fresh ELSE txq[r].dumper)
           /\ txq'[r].pcap = (IF device.tx # "tx_pcap" /\ r = i THEN Fresh ELSE txq[r].pcap)
  BY OpenTxView
<1>2. /\ open' = open \cup {Fresh}
      /\ Fresh \notin open /\ Fresh \notin {Null, Wild}
      /\ \A q \in 1..nTx : txq[q].dumper # Fresh
      /\ \A q \in 1..nRx : rxq[q].pcap # Fresh
  BY OpenTxView, TypeOpens
<1>3. QueuesHold /\ Apart /\ TxRound
  BY <1>1 DEF Shape, Opening
<1>4. nRx' = nRx /\ nTx' = nTx /\ (single_iface' <=> single_iface) /\ device' = device
  BY <1>1, SameDevice
<1>5. phase \in Opening /\ phase' \in Opening /\ ~single_iface
  BY <1>1, <1>3 DEF Opening, TxRound
<1>6. Kept = (D \cup R) \ {Null, Wild} /\ Kept' = (D1 \cup R) \ {Null, Wild}
  BY <1>1, <1>4, <1>5 DEF Kept, RxHandles, Null, Wild
<1>7. nRx \in Nat
  BY Queues
<1> DEFINE base == nRx * (nRx - 1)
<1>8. base \in Int
  BY <1>7
<1> HIDE DEF i, base
<1>9. CASE device.tx # "tx_pcap"
  <2>1. D1 = D
    BY <1>1, <1>9
  <2>2. Kept' = Kept /\ Fresh \notin open \ Kept
    BY <1>2, <1>6, <2>1
  <2>3. Fresh \notin Kept
    <3>1. Fresh \notin D /\ Fresh \notin R
      BY <1>2
    <3> QED
      BY <1>6, <3>1
  <2>4. open' \ Kept' = (open \ Kept) \cup {Fresh}
    BY <1>2, <2>2, <2>3
  <2>5. Lost = base + done /\ Lost' = base + done + 1
    BY <1>1, <1>4, <1>8, <1>9 DEF Lost, base
  <2>6. Lost' = Lost + 1
    BY <1>1, <1>8, <2>5
  <2> QED
    BY <1>5, <2>2, <2>4, <2>6, LossesMore
<1>10. CASE device.tx = "tx_pcap"
  <2>1. Lost = base + Over(done, nTx) /\ Lost' = base + Over(done + 1, nTx)
    BY <1>1, <1>4, <1>8, <1>10 DEF Lost, base, Over
  <2>2. Round(done, nTx, device.txNames, i, txq[i].dumper, txq[i].name)
    BY <1>1, <1>3, <1>10 DEF TxRound, TxHandle
  <2>3. ~(i <= done % nTx)
    <3>1. done % nTx \in 0..(nTx - 1)
      BY <1>1, NextInRound
    <3> QED
      BY <3>1 DEF i
  <2>4. \A q \in 1..nTx : txq'[q].dumper = (IF q = i THEN Fresh ELSE txq[q].dumper)
    BY <1>1, <1>10
  <2>5. CASE done < nTx
    <3>1. txq[i].dumper \in {Null, Wild}
      BY <2>2, <2>3, <2>5 DEF Round
    <3>2. D1 \ {Null, Wild} = (D \ {Null, Wild}) \cup {Fresh}
      BY <1>1, <1>2, <2>4, <3>1
    <3>3. Kept' = Kept \cup {Fresh}
      BY <1>2, <1>6, <3>2
    <3>4. open' \ Kept' = open \ Kept
      BY <1>2, <3>3
    <3>5. Lost' = Lost
      <4>1. Over(done + 1, nTx) = Over(done, nTx)
        BY <1>1, <2>5, OverNext
      <4> QED
        BY <2>1, <4>1
    <3> QED
      BY <1>5, <3>4, <3>5, LossesSame
  <2>6. CASE ~(done < nTx)
    <3> DEFINE h == txq[i].dumper
    <3>1. h \notin {Null, Wild} /\ h \in open /\ h # Fresh
      BY <1>1, <1>2, <1>3, <1>10, <2>2, <2>3, <2>6 DEF Round, QueuesHold
    <3>2. \A q \in 1..nTx : q # i => txq[q].dumper # h
      BY <1>1, <1>3, <3>1 DEF Apart
    <3>3. \A q \in 1..nRx : rxq[q].pcap # h
      BY <1>1, <1>3, <1>5, <3>1 DEF Apart
    <3> HIDE DEF h
    <3>4. D1 \ {Null, Wild} = ((D \ {Null, Wild}) \ {h}) \cup {Fresh}
      BY <1>1, <1>2, <2>4, <3>1, <3>2 DEF h
    <3>5. h \notin R /\ h \in D
      BY <1>1, <3>3 DEF h
    <3>6. h \in Kept /\ Kept' = (Kept \ {h}) \cup {Fresh}
      BY <1>6, <3>1, <3>4, <3>5
    <3>7. h \notin open \ Kept /\ open' \ Kept' = (open \ Kept) \cup {h}
      BY <1>2, <3>1, <3>6
    <3>8. Lost' = Lost + 1
      <4>1. Over(done + 1, nTx) = Over(done, nTx) + 1 /\ Over(done, nTx) \in Nat
        BY <1>1, <2>6, OverNext
      <4> QED
        BY <1>8, <2>1, <4>1
    <3> QED
      BY <1>5, <3>7, <3>8, LossesMore
  <2> QED
    BY <2>5, <2>6
<1> QED
  BY <1>9, <1>10

\* After the last round every queue is open, on what the last argument names.
LEMMA RoundsOver ==
  ASSUME NEW n \in Nat, NEW names, NEW j \in 1..n, NEW h, NEW name,
         Round(n * n, n, names, j, h, name)
  PROVE  h \notin {Null, Wild} /\ name = names[n]
<1>1. n \in Nat \ {0}
  OBVIOUS
<1>2. (n * n) % n = 0 /\ (n * n) \div n = n
  BY <1>1, LastRound
<1>3. ~(n * n < n) /\ ~(j <= 0)
  BY <1>1
<1> QED
  BY <1>2, <1>3 DEF Round

\* After the rx handlers.
LEMMA RxOpenedView ==
  ASSUME TypeOK, RxOpened
  PROVE  /\ phase = "rx" /\ done = nRx * nRx /\ done' = 0
         /\ phase' = (IF single_iface THEN "create" ELSE "tx")
         /\ UNCHANGED <<device, open, opened, rxq>>
         /\ \A r \in 1..nTx : /\ txq'[r].dumper = txq[r].dumper /\ txq'[r].pcap = txq[r].pcap
                              /\ txq'[r].name = (IF single_iface THEN rxq[1].name ELSE txq[r].name)
<1>1. /\ phase = "rx" /\ done = nRx * nRx /\ done' = 0
      /\ phase' = (IF single_iface THEN "create" ELSE "tx")
      /\ UNCHANGED <<device, open, opened, rxq>>
      /\ txq' = IF single_iface THEN [txq EXCEPT ![1].name = rxq[1].name] ELSE txq
  BY DEF RxOpened, handles
<1>2. CASE single_iface
  <2> DEFINE Named(r) == [r EXCEPT !.name = rxq[1].name]
  <2>1. \A r \in TxRecord : /\ Named(r).dumper = r.dumper /\ Named(r).pcap = r.pcap
                            /\ Named(r).name = rxq[1].name
    BY DEF TxRecord
  <2>2. \A r \in 1..nTx : r = 1
    BY <1>2, Queues
  <2>3. \A r \in 1..nTx : txq'[r] = Named(txq[r])
    BY <1>1, <1>2, <2>2, TypeNow
  <2>4. \A r \in 1..nTx : txq[r] \in TxRecord
    BY TypeNow
  <2> HIDE DEF Named
  <2>5. \A r \in 1..nTx : /\ txq'[r].dumper = txq[r].dumper /\ txq'[r].pcap = txq[r].pcap
                          /\ txq'[r].name = rxq[1].name
    BY <2>1, <2>3, <2>4
  <2> QED
    BY <1>1, <1>2, <2>5
<1>3. CASE ~single_iface
  BY <1>1, <1>3
<1> QED
  BY <1>2, <1>3

\* Every rx queue is open, and a single interface has its one handle.
LEMMA RxOpenedShape ==
  ASSUME TypeOK, Shape, RxOpened
  PROVE  Shape'
<1>1. /\ phase = "rx" /\ done = nRx * nRx /\ done' = 0
      /\ phase' = (IF single_iface THEN "create" ELSE "tx")
      /\ UNCHANGED <<device, open, opened, rxq>>
      /\ \A r \in 1..nTx : /\ txq'[r].dumper = txq[r].dumper /\ txq'[r].pcap = txq[r].pcap
                           /\ txq'[r].name = (IF single_iface THEN rxq[1].name ELSE txq[r].name)
  BY RxOpenedView
<1>2. QueuesHold /\ Apart /\ RxRound /\ Single
  BY <1>1 DEF Shape, Opening
<1>3. nRx' = nRx /\ nTx' = nTx /\ (single_iface' <=> single_iface) /\ device' = device
  BY <1>1, SameDevice
<1>4. nRx \in Nat /\ nTx \in Nat
  BY Queues
<1>5. \A q \in 1..nTx : txq[q].pcap = Null /\ txq[q].dumper \in {Null, Wild}
  BY <1>1, <1>2 DEF RxRound
<1>6. \A j \in 1..nRx : rxq[j].pcap \notin {Null, Wild} /\ rxq[j].name = device.rxNames[nRx]
  <2>1. \A j \in 1..nRx : Round(nRx * nRx, nRx, device.rxNames, j, rxq[j].pcap, rxq[j].name)
    BY <1>1, <1>2 DEF RxRound
  <2> QED
    BY <1>4, <2>1, RoundsOver
<1>7. QueuesHold' /\ Apart'
  BY <1>1, <1>2, <1>3 DEF QueuesHold, Apart, Null, Wild
<1>8. RxRound'
  BY <1>1 DEF RxRound
<1>9. RxDone'
  BY <1>1, <1>3, <1>6 DEF RxDone, Null
<1>10. TxRound'
  <2>1. CASE single_iface
    BY <1>1, <2>1 DEF TxRound
  <2>2. CASE ~single_iface
    <3>1. ASSUME NEW j \in 1..nTx
          PROVE  Round(0, nTx, device.txNames, j, TxHandle(j)', txq'[j].name)
      <4>1. TxHandle(j)' \in {Null, Wild}
        BY <1>1, <1>5 DEF TxHandle
      <4>2. 0 % nTx = 0 /\ ~(j <= 0) /\ 0 < nTx
        BY <1>4
      <4> QED
        BY <4>1, <4>2 DEF Round
    <3>2. 0 <= nTx * nTx
      BY <1>4
    <3> QED
      BY <1>1, <1>3, <2>2, <3>1, <3>2 DEF TxRound
  <2> QED
    BY <2>1, <2>2
<1>11. TxDone' /\ Single'
  <2>1. CASE single_iface
    <3>1. nRx = 1 /\ nTx = 1 /\ device.rxNames = device.txNames /\ device.tx = "iface"
      BY <2>1, Queues DEF single_iface
    <3>2. 1 \in 1..nRx /\ 1 \in 1..nTx /\ \A q \in 1..nTx : q = 1
      BY <3>1
    <3>3. TxDone'
      BY <1>1, <1>3, <1>6, <2>1, <3>1, <3>2 DEF TxDone
    <3>4. opened = 1 /\ open \subseteq 1..1
      <4>1. opened = 1
        BY <1>1, <1>2, <2>1, <3>1 DEF Single
      <4> QED
        BY <4>1, Plain
    <3>5. rxq[1].pcap = 1
      <4>1. rxq[1].pcap \in open
        BY <1>2, <1>6, <3>2 DEF QueuesHold
      <4>2. \A h \in 1..1 : h = 1
        OBVIOUS
      <4> QED
        BY <3>4, <4>1, <4>2
    <3>6. txq'[1].pcap = Null
      BY <1>1, <1>5, <3>2
    <3> QED
      BY <1>1, <2>1, <3>3, <3>4, <3>5, <3>6 DEF Single, Null
  <2>2. CASE ~single_iface
    BY <1>1, <1>3, <2>2 DEF TxDone, Single
  <2> QED
    BY <2>1, <2>2
<1> QED
  BY <1>7, <1>8, <1>9, <1>10, <1>11 DEF Shape

\* They have lost all but the last handles.
LEMMA RxOpenedLosses ==
  ASSUME TypeOK, Shape, Losses, RxOpened
  PROVE  Losses'
<1>1. /\ phase = "rx" /\ done = nRx * nRx /\ done' = 0
      /\ phase' = (IF single_iface THEN "create" ELSE "tx")
      /\ UNCHANGED <<device, open, opened, rxq>>
      /\ \A r \in 1..nTx : txq'[r].dumper = txq[r].dumper
  BY RxOpenedView
<1>2. Single
  BY <1>1 DEF Shape, Opening
<1>3. nRx' = nRx /\ nTx' = nTx /\ (single_iface' <=> single_iface) /\ device' = device
  BY <1>1, SameDevice
<1>4. nRx \in Nat /\ nTx \in Nat
  BY Queues
<1>5. phase \in Opening /\ phase' \in Opening
  BY <1>1 DEF Opening
<1>6. Kept' = Kept
  <2>1. {txq'[q].dumper : q \in 1..nTx} = {txq[q].dumper : q \in 1..nTx}
    BY <1>1
  <2> QED
    BY <1>1, <1>3, <1>5, <2>1 DEF Kept, RxHandles, Null, Wild
<1>7. Lost = nRx * (nRx - 1)
  BY <1>1, <1>4, OverSquare DEF Lost
<1>8. CASE single_iface
  <2>1. nRx = 1 /\ opened = 1
    BY <1>1, <1>2, <1>8, Queues DEF Single
  <2>2. Lost' = Forgotten' /\ Forgotten' = 0
    BY <1>1, <1>3, <1>8, <2>1 DEF Lost, Forgotten
  <2> QED
    BY <1>1, <1>5, <1>6, <1>7, <2>1, <2>2, LossesSame
<1>9. CASE ~single_iface
  <2>1. Over(0, nTx) = 0
    BY <1>4 DEF Over
  <2>2. Lost' = nRx * (nRx - 1)
    BY <1>1, <1>3, <1>4, <1>9, <2>1 DEF Lost, Over
  <2> QED
    BY <1>1, <1>5, <1>6, <1>7, <2>2, LossesSame
<1> QED
  BY <1>8, <1>9

\* After the tx handlers.
LEMMA TxOpenedShape ==
  ASSUME TypeOK, Shape, Losses, TxOpened
  PROVE  Shape' /\ Losses'
<1>1. /\ phase = "tx" /\ done = nTx * nTx /\ phase' = "create"
      /\ UNCHANGED <<device, done, open, opened, rxq, txq>>
  BY DEF TxOpened, handles
<1>2. QueuesHold /\ Apart /\ TxRound /\ RxDone
  BY <1>1 DEF Shape, Opening
<1>3. nRx' = nRx /\ nTx' = nTx /\ (single_iface' <=> single_iface) /\ device' = device
  BY <1>1, SameDevice
<1>4. nRx \in Nat /\ nTx \in Nat /\ ~single_iface
  BY <1>1, <1>2, Queues DEF TxRound
<1>5. \A j \in 1..nTx : TxHandle(j) \notin {Null, Wild} /\ txq[j].name = device.txNames[nTx]
  <2>1. \A j \in 1..nTx : Round(nTx * nTx, nTx, device.txNames, j, TxHandle(j), txq[j].name)
    BY <1>1, <1>2 DEF TxRound
  <2> QED
    BY <1>4, <2>1, RoundsOver
<1>6. QueuesHold' /\ Apart'
  BY <1>1, <1>2, <1>3 DEF QueuesHold, Apart, Null, Wild
<1>7. RxRound' /\ TxRound' /\ Single'
  BY <1>1, <1>3, <1>4 DEF RxRound, TxRound, Single
<1>8. RxDone'
  BY <1>1, <1>2, <1>3 DEF RxDone, Null
<1>9. TxDone'
  BY <1>1, <1>3, <1>5 DEF TxDone, TxHandle, Wild
<1>10. phase \in Opening /\ phase' \in Opening
  BY <1>1 DEF Opening
<1>11. Kept' = Kept
  BY <1>1, <1>3, <1>10 DEF Kept, RxHandles, Null, Wild
<1>12. Lost' = Lost
  <2>1. Lost' = Forgotten'
    BY <1>1 DEF Lost
  <2>2. Forgotten' = nRx * (nRx - 1) + (IF device.tx = "tx_pcap" THEN nTx * (nTx - 1) ELSE nTx * nTx)
    BY <1>3, <1>4 DEF Forgotten
  <2>3. Lost = nRx * (nRx - 1) + (IF device.tx = "tx_pcap" THEN Over(nTx * nTx, nTx) ELSE nTx * nTx)
    BY <1>1 DEF Lost
  <2>4. Over(nTx * nTx, nTx) = nTx * (nTx - 1)
    BY <1>4, OverSquare
  <2> QED
    BY <2>1, <2>2, <2>3, <2>4
<1>13. Losses'
  BY <1>1, <1>10, <1>11, <1>12, LossesSame
<1> QED
  BY <1>6, <1>7, <1>8, <1>9, <1>13 DEF Shape

\* The driver keeps no pcap_t of a tx queue until the first start.
LEMMA FromPcapsShape ==
  ASSUME TypeOK, Shape, Losses, FromPcaps, phase' = "stopped"
  PROVE  Shape' /\ Losses'
<1>1. /\ phase = "create" /\ UNCHANGED <<device, done, open, opened, rxq>>
      /\ txq' = [q \in 1..nTx |-> [txq[q] EXCEPT !.pcap = Null]]
  BY DEF FromPcaps, handles
<1>2. QueuesHold /\ Apart /\ RxDone /\ TxDone /\ Single
  BY <1>1 DEF Shape, Opening
<1>3. nRx' = nRx /\ nTx' = nTx /\ (single_iface' <=> single_iface) /\ device' = device
  BY <1>1, SameDevice
<1>4. \A q \in 1..nTx : /\ txq'[q].dumper = txq[q].dumper /\ txq'[q].pcap = Null
                        /\ txq'[q].name = txq[q].name
  <2> DEFINE Without(r) == [r EXCEPT !.pcap = Null]
  <2>1. \A r \in TxRecord : /\ Without(r).dumper = r.dumper /\ Without(r).pcap = Null
                            /\ Without(r).name = r.name
    BY DEF TxRecord
  <2>2. \A q \in 1..nTx : txq'[q] = Without(txq[q]) /\ txq[q] \in TxRecord
    BY <1>1, TypeNow
  <2> HIDE DEF Without
  <2> QED
    BY <2>1, <2>2
<1>5. QueuesHold' /\ Apart'
  <2>1. QueuesHold'
    BY <1>1, <1>2, <1>3, <1>4 DEF QueuesHold, Null, Wild
  <2>2. \A q, r \in 1..nTx : q # r =>
          /\ txq'[q].dumper # txq'[r].dumper \/ txq'[q].dumper \in {Null, Wild}
          /\ txq'[q].pcap # txq'[r].pcap \/ txq'[q].pcap = Null
    BY <1>2, <1>4 DEF Apart
  <2>3. ~single_iface => \A q \in 1..nTx, r \in 1..nRx :
          /\ txq'[q].dumper # rxq[r].pcap \/ rxq[r].pcap = Null
          /\ txq'[q].pcap # rxq[r].pcap \/ rxq[r].pcap = Null
    BY <1>2, <1>4 DEF Apart
  <2>4. \A q, r \in 1..nRx : q # r => rxq[q].pcap # rxq[r].pcap \/ rxq[q].pcap = Null
    BY <1>2 DEF Apart
  <2>5. Apart'
    <3>1. rxq' = rxq
      BY <1>1
    <3>2. /\ \A q, r \in 1..nRx : q # r => rxq'[q].pcap # rxq'[r].pcap \/ rxq'[q].pcap = Null
          /\ \A q, r \in 1..nTx : q # r =>
               /\ txq'[q].dumper # txq'[r].dumper \/ txq'[q].dumper \in {Null, Wild}
               /\ txq'[q].pcap # txq'[r].pcap \/ txq'[q].pcap = Null
          /\ ~single_iface' => \A q \in 1..nTx, r \in 1..nRx :
               /\ txq'[q].dumper # rxq'[r].pcap \/ rxq'[r].pcap = Null
               /\ txq'[q].pcap # rxq'[r].pcap \/ rxq'[r].pcap = Null
      BY <1>3, <2>2, <2>3, <2>4, <3>1
    <3> QED
      BY <1>3, <3>2 DEF Apart, Null, Wild
  <2> QED
    BY <2>1, <2>5
<1>6. RxRound' /\ TxRound'
  BY DEF RxRound, TxRound
<1>7. RxDone'
  BY <1>1, <1>2, <1>3 DEF RxDone
<1>8. TxDone'
  BY <1>1, <1>2, <1>3, <1>4 DEF TxDone, Wild
<1>9. Single'
  <2>1. CASE single_iface
    <3>1. 1 \in 1..nTx
      BY <2>1, Queues
    <3>2. txq'[1].pcap = Null
      BY <1>4, <3>1
    <3>3. opened = 1 /\ rxq[1].pcap = 1
      BY <1>1, <1>2, <2>1 DEF Single
    <3> QED
      BY <1>1, <3>2, <3>3 DEF Single, Null
  <2>2. CASE ~single_iface
    BY <1>3, <2>2 DEF Single
  <2> QED
    BY <2>1, <2>2
<1>10. Kept' = Kept
  <2>1. phase \in Opening /\ phase' \notin Opening
    BY <1>1 DEF Opening
  <2>2. {txq'[q].dumper : q \in 1..nTx} = {txq[q].dumper : q \in 1..nTx}
    BY <1>4
  <2>3. {txq'[q].pcap : q \in 1..nTx} \subseteq {Null, Wild}
    BY <1>4
  <2>4. Kept = ({txq[q].dumper : q \in 1..nTx} \cup RxHandles) \ {Null, Wild}
    BY <2>1 DEF Kept
  <2>5. Kept' = ({txq'[q].dumper : q \in 1..nTx} \cup {txq'[q].pcap : q \in 1..nTx}
                   \cup RxHandles) \ {Null, Wild}
    BY <1>1, <1>3, <2>1 DEF Kept, RxHandles, Null, Wild
  <2> QED
    BY <2>2, <2>3, <2>4, <2>5
<1>11. Lost' = Lost
  BY <1>1, <1>3 DEF Lost, Forgotten
<1>12. phase \in Opening
  BY <1>1 DEF Opening
<1>13. Losses'
  BY <1>1, <1>10, <1>11, <1>12, LossesSame
<1> QED
  BY <1>5, <1>6, <1>7, <1>8, <1>9, <1>13 DEF Shape

-----------------------------------------------------------------------------
(* Starts and stops *)

\* What eth_dev_start changes for a tx queue.
LEMMA StartTxView ==
  ASSUME TypeOK, StartTx, phase' = "starting"
  PROVE  \E i \in UnopenedTx :
           /\ phase = "starting" /\ Opens /\ UNCHANGED <<device, done>> /\ i \in 1..nTx
           /\ \A r \in 1..nTx :
                /\ txq'[r].dumper = (IF device.tx = "tx_pcap" /\ r = i THEN Fresh ELSE txq[r].dumper)
                /\ txq'[r].pcap = (IF device.tx # "tx_pcap" /\ r = i THEN Fresh ELSE txq[r].pcap)
                /\ txq'[r].name = txq[r].name
           /\ \A r \in 1..nRx :
                /\ rxq'[r].pcap = (IF single_iface THEN Fresh ELSE rxq[r].pcap)
                /\ rxq'[r].name = rxq[r].name
<1> DEFINE i == Min(UnopenedTx)
<1>1. i \in UnopenedTx /\ i \in 1..nTx
  BY TxUnopened DEF StartTx
<1>2. /\ phase = "starting" /\ Opens /\ UNCHANGED <<device, done>>
      /\ txq' = IF device.tx = "tx_pcap" THEN [txq EXCEPT ![i].dumper = Fresh]
                                         ELSE [txq EXCEPT ![i].pcap = Fresh]
      /\ rxq' = IF single_iface THEN [rxq EXCEPT ![1].pcap = Fresh] ELSE rxq
  BY DEF StartTx, OpenFails
<1> HIDE DEF i
<1> DEFINE Dumps(r) == [r EXCEPT !.dumper = Fresh]
           Sends(r) == [r EXCEPT !.pcap = Fresh]
<1>3. \A r \in TxRecord :
        /\ Dumps(r).dumper = Fresh /\ Dumps(r).pcap = r.pcap /\ Dumps(r).name = r.name
        /\ Sends(r).dumper = r.dumper /\ Sends(r).pcap = Fresh /\ Sends(r).name = r.name
  BY DEF TxRecord
<1>4. \A r \in RxRecord : Sends(r).pcap = Fresh /\ Sends(r).name = r.name
  BY DEF RxRecord
<1>5. \A r \in 1..nTx : txq[r] \in TxRecord
  BY TypeNow
<1>6. \A r \in 1..nRx : rxq[r] \in RxRecord
  BY TypeNow
<1>7. \A r \in 1..nTx :
        txq'[r] = IF r # i THEN txq[r] ELSE IF device.tx = "tx_pcap" THEN Dumps(txq[r]) ELSE Sends(txq[r])
  <2>1. CASE device.tx = "tx_pcap"
    BY <1>1, <1>2, <2>1, TypeNow
  <2>2. CASE device.tx # "tx_pcap"
    BY <1>1, <1>2, <2>2, TypeNow
  <2> QED
    BY <2>1, <2>2
<1>8. \A r \in 1..nRx : rxq'[r] = IF single_iface THEN Sends(rxq[r]) ELSE rxq[r]
  <2>1. CASE single_iface
    <3>1. \A r \in 1..nRx : r = 1
      BY <2>1, Queues
    <3> QED
      BY <1>2, <2>1, <3>1, TypeNow
  <2>2. CASE ~single_iface
    BY <1>2, <2>2
  <2> QED
    BY <2>1, <2>2
<1> HIDE DEF Dumps, Sends
<1>9. \A r \in 1..nTx :
        /\ txq'[r].dumper = (IF device.tx = "tx_pcap" /\ r = i THEN Fresh ELSE txq[r].dumper)
        /\ txq'[r].pcap = (IF device.tx # "tx_pcap" /\ r = i THEN Fresh ELSE txq[r].pcap)
        /\ txq'[r].name = txq[r].name
  BY <1>3, <1>5, <1>7
<1>10. \A r \in 1..nRx : /\ rxq'[r].pcap = (IF single_iface THEN Fresh ELSE rxq[r].pcap)
                         /\ rxq'[r].name = rxq[r].name
  BY <1>4, <1>6, <1>8
<1> QED
  BY <1>1, <1>2, <1>9, <1>10

\* What it changes for an rx queue.
LEMMA StartRxView ==
  ASSUME TypeOK, StartRx, phase' = "starting"
  PROVE  \E i \in UnopenedRx :
           /\ phase = "starting" /\ Opens /\ UNCHANGED <<device, done, txq>> /\ i \in 1..nRx
           /\ \A r \in 1..nRx : /\ rxq'[r].pcap = (IF r = i THEN Fresh ELSE rxq[r].pcap)
                                /\ rxq'[r].name = rxq[r].name
<1> DEFINE i == Min(UnopenedRx)
<1>1. i \in UnopenedRx /\ i \in 1..nRx
  BY RxUnopened DEF StartRx
<1>2. /\ phase = "starting" /\ Opens /\ UNCHANGED <<device, done, txq>>
      /\ rxq' = [rxq EXCEPT ![i].pcap = Fresh]
  BY DEF StartRx, OpenFails
<1> HIDE DEF i
<1> DEFINE Sends(r) == [r EXCEPT !.pcap = Fresh]
<1>3. \A r \in RxRecord : Sends(r).pcap = Fresh /\ Sends(r).name = r.name
  BY DEF RxRecord
<1>4. \A r \in 1..nRx : rxq[r] \in RxRecord /\ rxq'[r] = IF r = i THEN Sends(rxq[r]) ELSE rxq[r]
  BY <1>1, <1>2, TypeNow
<1> HIDE DEF Sends
<1>5. \A r \in 1..nRx : /\ rxq'[r].pcap = (IF r = i THEN Fresh ELSE rxq[r].pcap)
                        /\ rxq'[r].name = rxq[r].name
  BY <1>3, <1>4
<1> QED
  BY <1>1, <1>2, <1>5

\* A start opens a queue that has no handle.
LEMMA StartTxShape ==
  ASSUME TypeOK, Shape, StartTx, phase' = "starting"
  PROVE  Shape'
<1>1. PICK i \in UnopenedTx :
        /\ phase = "starting" /\ Opens /\ UNCHANGED <<device, done>> /\ i \in 1..nTx
        /\ \A r \in 1..nTx :
             /\ txq'[r].dumper = (IF device.tx = "tx_pcap" /\ r = i THEN Fresh ELSE txq[r].dumper)
             /\ txq'[r].pcap = (IF device.tx # "tx_pcap" /\ r = i THEN Fresh ELSE txq[r].pcap)
             /\ txq'[r].name = txq[r].name
        /\ \A r \in 1..nRx : /\ rxq'[r].pcap = (IF single_iface THEN Fresh ELSE rxq[r].pcap)
                             /\ rxq'[r].name = rxq[r].name
  BY StartTxView
<1>2. /\ opened' = opened + 1 /\ open' = open \cup {Fresh} /\ opened \in Nat
      /\ Fresh \notin open /\ Fresh \notin {Null, Wild}
      /\ \A q \in 1..nRx : rxq[q].pcap # Fresh
      /\ \A q \in 1..nTx : txq[q].pcap # Fresh /\ txq[q].dumper # Fresh
  BY <1>1, TypeOpens, Plain
<1>3. QueuesHold /\ Apart /\ RxDone /\ TxDone /\ Single
  BY <1>1 DEF Shape, Alive
<1>4. nRx' = nRx /\ nTx' = nTx /\ (single_iface' <=> single_iface) /\ device' = device
  BY <1>1, SameDevice
<1>5. single_iface => device.tx = "iface" /\ \A q, r \in 1..nRx : q = r
  BY Queues DEF single_iface
<1>6. QueuesHold'
  <2>1. \A q \in 1..nRx : rxq'[q].pcap \in open' \cup {Null}
    BY <1>1, <1>2, <1>3 DEF QueuesHold
  <2>2. \A q \in 1..nTx :
          /\ txq'[q].dumper \in IF device.tx = "tx_pcap" THEN open' \cup {Null, Wild} ELSE {Null, Wild}
          /\ txq'[q].pcap \in IF device.tx = "tx_pcap" THEN {Null} ELSE open' \cup {Null}
    BY <1>1, <1>2, <1>3 DEF QueuesHold
  <2> QED
    BY <1>4, <2>1, <2>2 DEF QueuesHold, Null, Wild
<1>7. Apart'
  <2>1. \A q, r \in 1..nRx : q # r => rxq'[q].pcap # rxq'[r].pcap \/ rxq'[q].pcap = Null
    BY <1>1, <1>3, <1>5 DEF Apart
  <2>2. \A q, r \in 1..nTx : q # r =>
          /\ txq'[q].dumper # txq'[r].dumper \/ txq'[q].dumper \in {Null, Wild}
          /\ txq'[q].pcap # txq'[r].pcap \/ txq'[q].pcap = Null
    BY <1>1, <1>2, <1>3 DEF Apart
  <2>3. ~single_iface => \A q \in 1..nTx, r \in 1..nRx :
          /\ txq'[q].dumper # rxq'[r].pcap \/ rxq'[r].pcap = Null
          /\ txq'[q].pcap # rxq'[r].pcap \/ rxq'[r].pcap = Null
    BY <1>1, <1>2, <1>3 DEF Apart
  <2> QED
    BY <1>4, <2>1, <2>2, <2>3 DEF Apart, Null, Wild
<1>8. RxRound' /\ TxRound'
  BY DEF RxRound, TxRound
<1>9. RxDone'
  BY <1>1, <1>3, <1>4 DEF RxDone
<1>10. TxDone'
  BY <1>1, <1>2, <1>3, <1>4 DEF TxDone, Wild
<1>11. Single'
  <2>1. CASE single_iface
    <3>1. nTx = 1 /\ nRx = 1
      BY <2>1, Queues
    <3>2. 1 \in 1..nTx /\ 1 \in 1..nRx /\ i = 1
      BY <1>1, <3>1
    <3>3. txq'[1].pcap = Fresh /\ rxq'[1].pcap = Fresh
      BY <1>1, <1>5, <2>1, <3>2
    <3>4. opened >= 1
      BY <1>1, <1>3, <2>1 DEF Single, Alive
    <3>5. opened' >= 1 /\ opened' # 1
      BY <1>2, <3>4
    <3> QED
      BY <1>1, <3>3, <3>5 DEF Single
  <2>2. CASE ~single_iface
    BY <1>4, <2>2 DEF Single
  <2> QED
    BY <2>1, <2>2
<1> QED
  BY <1>6, <1>7, <1>8, <1>9, <1>10, <1>11 DEF Shape

\* The same for the rx queues.
LEMMA StartRxShape ==
  ASSUME TypeOK, Shape, StartRx, phase' = "starting"
  PROVE  Shape'
<1>1. PICK i \in UnopenedRx :
        /\ phase = "starting" /\ Opens /\ UNCHANGED <<device, done, txq>> /\ i \in 1..nRx
        /\ \A r \in 1..nRx : /\ rxq'[r].pcap = (IF r = i THEN Fresh ELSE rxq[r].pcap)
                             /\ rxq'[r].name = rxq[r].name
  BY StartRxView
<1>2. /\ opened' = opened + 1 /\ open' = open \cup {Fresh} /\ opened \in Nat
      /\ Fresh \notin open /\ Fresh \notin {Null, Wild}
      /\ \A q \in 1..nRx : rxq[q].pcap # Fresh
      /\ \A q \in 1..nTx : txq[q].pcap # Fresh /\ txq[q].dumper # Fresh
  BY <1>1, TypeOpens, Plain
<1>3. QueuesHold /\ Apart /\ RxDone /\ TxDone
  BY <1>1 DEF Shape, Alive
<1>4. nRx' = nRx /\ nTx' = nTx /\ (single_iface' <=> single_iface) /\ device' = device
  BY <1>1, SameDevice
<1>5. ~single_iface
  BY <1>1 DEF UnopenedRx
<1>6. QueuesHold'
  <2>1. \A q \in 1..nRx : rxq'[q].pcap \in open' \cup {Null}
    BY <1>1, <1>2, <1>3 DEF QueuesHold
  <2>2. \A q \in 1..nTx :
          /\ txq[q].dumper \in IF device.tx = "tx_pcap" THEN open' \cup {Null, Wild} ELSE {Null, Wild}
          /\ txq[q].pcap \in IF device.tx = "tx_pcap" THEN {Null} ELSE open' \cup {Null}
    BY <1>1, <1>2, <1>3 DEF QueuesHold
  <2> QED
    BY <1>1, <1>4, <2>1, <2>2 DEF QueuesHold, Null, Wild
<1>7. Apart'
  <2>1. \A q, r \in 1..nRx : q # r => rxq'[q].pcap # rxq'[r].pcap \/ rxq'[q].pcap = Null
    BY <1>1, <1>2, <1>3 DEF Apart
  <2>2. \A q \in 1..nTx, r \in 1..nRx :
          /\ txq[q].dumper # rxq'[r].pcap \/ rxq'[r].pcap = Null
          /\ txq[q].pcap # rxq'[r].pcap \/ rxq'[r].pcap = Null
    BY <1>1, <1>2, <1>3, <1>5 DEF Apart
  <2> QED
    BY <1>1, <1>3, <1>4, <2>1, <2>2 DEF Apart, Null, Wild
<1>8. RxRound' /\ TxRound' /\ Single'
  BY <1>4, <1>5 DEF RxRound, TxRound, Single
<1>9. RxDone'
  BY <1>1, <1>3, <1>4 DEF RxDone
<1>10. TxDone'
  BY <1>1, <1>3, <1>4 DEF TxDone, Wild
<1> QED
  BY <1>6, <1>7, <1>8, <1>9, <1>10 DEF Shape

\* They lose nothing.
LEMMA StartRxLosses ==
  ASSUME TypeOK, Shape, Losses, StartRx, phase' = "starting"
  PROVE  Losses'
<1> DEFINE T == {txq[q].dumper : q \in 1..nTx} \cup {txq[q].pcap : q \in 1..nTx}
           R == {rxq[q].pcap : q \in 1..nRx}
           R1 == {rxq'[q].pcap : q \in 1..nRx}
<1>1. PICK i \in UnopenedRx :
        /\ phase = "starting" /\ Opens /\ UNCHANGED <<device, done, txq>> /\ i \in 1..nRx
        /\ \A r \in 1..nRx : rxq'[r].pcap = (IF r = i THEN Fresh ELSE rxq[r].pcap)
  BY StartRxView
<1>2. open' = open \cup {Fresh} /\ Fresh \notin open /\ Fresh \notin {Null, Wild}
  BY <1>1, TypeOpens
<1>3. nRx' = nRx /\ nTx' = nTx /\ (single_iface' <=> single_iface) /\ device' = device
  BY <1>1, SameDevice
<1>4. ~single_iface /\ rxq[i].pcap = Null
  BY <1>1 DEF UnopenedRx
<1>5. phase \notin Opening /\ phase' \notin Opening /\ phase \in Alive
  BY <1>1 DEF Opening, Alive
<1>6. Kept = (T \cup R) \ {Null, Wild}
  BY <1>5 DEF Kept, RxHandles
<1>7. Kept' = (T \cup R1) \ {Null, Wild}
  BY <1>1, <1>3, <1>5 DEF Kept, RxHandles, Null, Wild
<1>8. R1 \ {Null, Wild} = (R \ {Null, Wild}) \cup {Fresh}
  BY <1>1, <1>2, <1>4
<1> HIDE DEF T, R, R1
<1>9. Kept' = Kept \cup {Fresh}
  BY <1>2, <1>6, <1>7, <1>8
<1>10. open' \ Kept' = open \ Kept
  BY <1>2, <1>9
<1>11. Lost' = Lost
  BY <1>1, <1>3, <1>4 DEF Lost, Forgotten
<1> QED
  BY <1>5, <1>10, <1>11, LossesSame

\* The first start of a single interface loses the handle devinit opened.
LEMMA StartTxLosses ==
  ASSUME TypeOK, Shape, Losses, StartTx, phase' = "starting"
  PROVE  Losses'
<1> DEFINE D == {txq[q].dumper : q \in 1..nTx}
           P == {txq[q].pcap : q \in 1..nTx}
           R == {rxq[q].pcap : q \in 1..nRx}
           D1 == {txq'[q].dumper : q \in 1..nTx}
           P1 == {txq'[q].pcap : q \in 1..nTx}
           R1 == {rxq'[q].pcap : q \in 1..nRx}
<1>1. PICK i \in UnopenedTx :
        /\ phase = "starting" /\ Opens /\ UNCHANGED <<device, done>> /\ i \in 1..nTx
        /\ \A r \in 1..nTx :
             /\ txq'[r].dumper = (IF device.tx = "tx_pcap" /\ r = i THEN Fresh ELSE txq[r].dumper)
             /\ txq'[r].pcap = (IF device.tx # "tx_pcap" /\ r = i THEN Fresh ELSE txq[r].pcap)
        /\ \A r \in 1..nRx : rxq'[r].pcap = (IF single_iface THEN Fresh ELSE rxq[r].pcap)
  BY StartTxView
<1>2. /\ opened' = opened + 1 /\ opened \in Nat
      /\ open' = open \cup {Fresh} /\ Fresh \notin open /\ Fresh \notin {Null, Wild}
  BY <1>1, TypeOpens, Plain
<1>3. nRx' = nRx /\ nTx' = nTx /\ (single_iface' <=> single_iface) /\ device' = device
  BY <1>1, SameDevice
<1>4. phase \notin Opening /\ phase' \notin Opening /\ phase \in Alive
  BY <1>1 DEF Opening, Alive
<1>5. QueuesHold /\ Single
  BY <1>4 DEF Shape
<1>6. Kept = (D \cup P \cup R) \ {Null, Wild}
  BY <1>4 DEF Kept, RxHandles
<1>7. Kept' = (D1 \cup P1 \cup R1) \ {Null, Wild}
  BY <1>3, <1>4 DEF Kept, RxHandles, Null, Wild
<1>8. IF device.tx = "tx_pcap" THEN txq[i].dumper = Null ELSE txq[i].pcap = Null
  BY <1>1, Queues DEF UnopenedTx
<1>9. CASE ~single_iface
  <2>1. R1 = R
    BY <1>1, <1>9
  <2>2. (D1 \cup P1) \ {Null, Wild} = ((D \cup P) \ {Null, Wild}) \cup {Fresh}
    <3>1. CASE device.tx = "tx_pcap"
      <4>1. P1 = P
        BY <1>1, <3>1
      <4>2. D1 \ {Null, Wild} = (D \ {Null, Wild}) \cup {Fresh}
        BY <1>1, <1>2, <1>8, <3>1
      <4> QED
        BY <1>2, <4>1, <4>2
    <3>2. CASE device.tx # "tx_pcap"
      <4>1. D1 = D
        BY <1>1, <3>2
      <4>2. P1 \ {Null, Wild} = (P \ {Null, Wild}) \cup {Fresh}
        BY <1>1, <1>2, <1>8, <3>2
      <4> QED
        BY <1>2, <4>1, <4>2
    <3> QED
      BY <3>1, <3>2
  <2> HIDE DEF D, P, R, D1, P1, R1
  <2>3. Kept' = Kept \cup {Fresh}
    BY <1>2, <1>6, <1>7, <2>1, <2>2
  <2>4. open' \ Kept' = open \ Kept
    BY <1>2, <2>3
  <2>5. Lost' = Lost
    BY <1>1, <1>3, <1>9 DEF Lost, Forgotten
  <2> QED
    BY <1>4, <2>4, <2>5, LossesSame
<1>10. CASE single_iface
  <2>1. nTx = 1 /\ nRx = 1 /\ device.tx = "iface"
    BY <1>10, Queues DEF single_iface
  <2>2. 1 \in 1..nTx /\ 1 \in 1..nRx /\ i = 1 /\ \A q \in 1..nTx : q = 1
    BY <1>1, <2>1
  <2>3. txq[1].dumper \in {Null, Wild} /\ txq[1].pcap = Null /\ rxq[1].pcap \in open \cup {Null}
    BY <1>5, <1>8, <2>1, <2>2 DEF QueuesHold
  <2>4. txq'[1].dumper = txq[1].dumper /\ txq'[1].pcap = Fresh /\ rxq'[1].pcap = Fresh
    BY <1>1, <1>10, <2>1, <2>2
  <2>5. Kept = {rxq[1].pcap} \ {Null, Wild}
    <3>1. D = {txq[1].dumper} /\ P = {txq[1].pcap} /\ R = {rxq[1].pcap}
      BY <2>1, <2>2
    <3> HIDE DEF D, P, R, D1, P1, R1
    <3> QED
      BY <1>6, <2>3, <3>1
  <2>6. Kept' = {Fresh}
    <3>1. D1 = {txq'[1].dumper} /\ P1 = {txq'[1].pcap} /\ R1 = {rxq'[1].pcap}
      BY <2>1, <2>2
    <3> HIDE DEF D, P, R, D1, P1, R1
    <3> QED
      BY <1>2, <1>7, <2>3, <2>4, <3>1
  <2>7. opened >= 1 /\ (IF opened = 1 THEN rxq[1].pcap = 1 ELSE rxq[1].pcap = txq[1].pcap)
    BY <1>1, <1>5, <1>10 DEF Single, Alive
  <2>8. Lost = (IF opened > 1 THEN 1 ELSE 0) /\ Lost' = (IF opened' > 1 THEN 1 ELSE 0)
    BY <1>1, <1>3, <1>10 DEF Lost, Forgotten
  <2>9. CASE opened = 1
    <3>1. Lost' = Lost + 1
      BY <1>2, <2>8, <2>9
    <3>2. Kept = {1} /\ 1 \in open
      BY <2>3, <2>5, <2>7, <2>9 DEF Null, Wild
    <3>3. 1 \notin open \ Kept /\ open' \ Kept' = (open \ Kept) \cup {1}
      BY <1>2, <2>6, <3>2
    <3> QED
      BY <1>4, <3>1, <3>3, LossesMore
  <2>10. CASE opened # 1
    <3>1. Lost' = Lost
      BY <1>2, <2>7, <2>8, <2>10
    <3>2. Kept = {}
      BY <2>3, <2>5, <2>7, <2>10
    <3>3. open' \ Kept' = open \ Kept
      BY <1>2, <2>6, <3>2
    <3> QED
      BY <1>4, <3>1, <3>3, LossesSame
  <2> QED
    BY <2>9, <2>10
<1> QED
  BY <1>9, <1>10

\* A stop closes the handles the queues have, and the queues forget them.
LEMMA StopView ==
  ASSUME TypeOK, eth_dev_stop, phase' = "stopped"
  PROVE  /\ phase = "started" /\ open' = open \ Closed /\ UNCHANGED <<device, done, opened>>
         /\ \A r \in 1..nRx : rxq'[r].pcap = Null /\ rxq'[r].name = rxq[r].name
         /\ \A r \in 1..nTx :
              /\ txq'[r].dumper = (IF single_iface THEN txq[r].dumper ELSE Null)
              /\ txq'[r].pcap = Null /\ txq'[r].name = txq[r].name
<1>1. /\ phase = "started" /\ open' = open \ Closed /\ UNCHANGED <<device, done, opened>>
      /\ rxq' = CloseRx
      /\ txq' = [q \in 1..nTx |-> IF single_iface THEN [txq[q] EXCEPT !.pcap = Null]
                                  ELSE [txq[q] EXCEPT !.pcap = Null, !.dumper = Null]]
  BY DEF eth_dev_stop
<1> DEFINE Sends(r) == [r EXCEPT !.pcap = Null]
           Both(r) == [r EXCEPT !.pcap = Null, !.dumper = Null]
<1>2. \A r \in TxRecord :
        /\ Sends(r).dumper = r.dumper /\ Sends(r).pcap = Null /\ Sends(r).name = r.name
        /\ Both(r).dumper = Null /\ Both(r).pcap = Null /\ Both(r).name = r.name
  BY DEF TxRecord
<1>3. \A r \in RxRecord : Sends(r).pcap = Null /\ Sends(r).name = r.name
  BY DEF RxRecord
<1>4. \A r \in 1..nTx : txq[r] \in TxRecord /\ txq'[r] = IF single_iface THEN Sends(txq[r]) ELSE Both(txq[r])
  BY <1>1, TypeNow
<1>5. \A r \in 1..nRx : rxq[r] \in RxRecord /\ rxq'[r] = Sends(rxq[r])
  BY <1>1, TypeNow DEF CloseRx
<1> HIDE DEF Sends, Both
<1>6. \A r \in 1..nRx : rxq'[r].pcap = Null /\ rxq'[r].name = rxq[r].name
  BY <1>3, <1>5
<1>7. \A r \in 1..nTx :
        /\ txq'[r].dumper = (IF single_iface THEN txq[r].dumper ELSE Null)
        /\ txq'[r].pcap = Null /\ txq'[r].name = txq[r].name
  BY <1>2, <1>4
<1> QED
  BY <1>1, <1>6, <1>7

\* Nothing is lost by a stop: all that a queue had is closed.
LEMMA StopShape ==
  ASSUME TypeOK, Shape, Losses, Started, eth_dev_stop, phase' = "stopped"
  PROVE  Shape' /\ Losses'
<1> DEFINE T == {txq[q].dumper : q \in 1..nTx} \cup {txq[q].pcap : q \in 1..nTx}
           R == {rxq[q].pcap : q \in 1..nRx}
<1>1. /\ phase = "started" /\ open' = open \ Closed /\ UNCHANGED <<device, done, opened>>
      /\ \A r \in 1..nRx : rxq'[r].pcap = Null /\ rxq'[r].name = rxq[r].name
      /\ \A r \in 1..nTx :
           /\ txq'[r].dumper = (IF single_iface THEN txq[r].dumper ELSE Null)
           /\ txq'[r].pcap = Null /\ txq'[r].name = txq[r].name
  BY StopView
<1>2. nRx' = nRx /\ nTx' = nTx /\ (single_iface' <=> single_iface) /\ device' = device
  BY <1>1, SameDevice
<1>3. phase \notin Opening /\ phase' \notin Opening /\ phase \in Alive
  BY <1>1 DEF Opening, Alive
<1>4. QueuesHold /\ Apart /\ RxDone /\ TxDone /\ Single
  BY <1>3 DEF Shape
<1>5. single_iface => /\ nRx = 1 /\ nTx = 1 /\ device.tx = "iface"
                      /\ 1 \in 1..nTx /\ 1 \in 1..nRx /\ \A q \in 1..nTx : q = 1
  BY Queues DEF single_iface
<1>6. \A q \in 1..nTx : txq'[q].dumper \in {Null, Wild}
  BY <1>1, <1>4, <1>5 DEF QueuesHold
<1>7. QueuesHold'
  BY <1>1, <1>2, <1>6 DEF QueuesHold, Null, Wild
<1>8. Apart'
  <2>1. \A q \in 1..nTx : txq'[q].dumper \in {Null, Wild} /\ txq'[q].pcap = Null
    BY <1>1, <1>6
  <2>2. \A q \in 1..nRx : rxq'[q].pcap = Null
    BY <1>1
  <2> QED
    BY <1>2, <2>1, <2>2 DEF Apart, Null, Wild
<1>9. RxRound' /\ TxRound'
  BY <1>3 DEF RxRound, TxRound, Opening
<1>10. RxDone'
  BY <1>1, <1>2, <1>4 DEF RxDone
<1>11. TxDone'
  BY <1>1, <1>2, <1>4, <1>5 DEF TxDone, Null, Wild
<1>12. single_iface => opened > 1 /\ rxq[1].pcap = txq[1].pcap
  <2> SUFFICES ASSUME single_iface PROVE opened > 1 /\ rxq[1].pcap = txq[1].pcap
    OBVIOUS
  <2>1. txq[1].pcap # Null
    <3>1. 1 \notin UnopenedTx
      BY <1>1 DEF Started
    <3> QED
      BY <1>5, <3>1 DEF UnopenedTx
  <2>2. opened >= 1 /\ (IF opened = 1 THEN txq[1].pcap = Null ELSE rxq[1].pcap = txq[1].pcap)
    BY <1>3, <1>4 DEF Single
  <2>3. opened \in Nat
    BY Plain
  <2> QED
    BY <2>1, <2>2, <2>3
<1>13. Single'
  <2>1. CASE single_iface
    <3>1. txq'[1].pcap = Null /\ rxq'[1].pcap = Null
      BY <1>1, <1>5, <2>1
    <3>2. opened' = opened /\ opened > 1 /\ opened \in Nat
      BY <1>1, <1>12, <2>1, Plain
    <3>3. opened' >= 1 /\ opened' # 1
      BY <3>2
    <3>4. phase' = "stopped"
      OBVIOUS
    <3> QED
      BY <3>1, <3>3, <3>4 DEF Single
  <2>2. CASE ~single_iface
    BY <1>2, <2>2 DEF Single
  <2> QED
    BY <2>1, <2>2
<1>14. Kept = (T \cup R) \ {Null, Wild} /\ open \cap {Null, Wild} = {}
  <2>1. open \subseteq 1..opened
    BY Plain
  <2>2. open \cap {Null, Wild} = {}
    BY <2>1 DEF Null, Wild
  <2> QED
    BY <1>3, <2>2 DEF Kept, RxHandles
<1>15. Kept' = {}
  <2>1. \A q \in 1..nTx : txq'[q].dumper \in {Null, Wild} /\ txq'[q].pcap \in {Null, Wild}
    BY <1>1, <1>6
  <2>2. \A q \in 1..nRx : rxq'[q].pcap \in {Null, Wild}
    BY <1>1
  <2> QED
    BY <1>2, <1>3, <2>1, <2>2 DEF Kept, RxHandles, Null, Wild
<1>16. open' \ Kept' = open \ Kept
  <2>1. CASE single_iface
    <3>1. T = {txq[1].dumper, txq[1].pcap} /\ R = {rxq[1].pcap}
      BY <1>5, <2>1
    <3>2. txq[1].dumper \in {Null, Wild}
      BY <1>4, <1>5, <2>1 DEF QueuesHold
    <3>3. Closed = {txq[1].pcap}
      BY <2>1 DEF Closed
    <3> HIDE DEF T, R
    <3> QED
      BY <1>1, <1>12, <1>14, <1>15, <2>1, <3>1, <3>2, <3>3
  <2>2. CASE ~single_iface
    <3>1. Closed = T \cup R
      BY <2>2 DEF Closed, TxHandles, RxHandles
    <3> HIDE DEF T, R
    <3> QED
      BY <1>1, <1>14, <1>15, <3>1
  <2> QED
    BY <2>1, <2>2
<1>17. Lost' = Lost
  BY <1>1, <1>2 DEF Lost, Forgotten
<1>18. Losses'
  BY <1>3, <1>16, <1>17, LossesSame
<1> QED
  BY <1>7, <1>8, <1>9, <1>10, <1>11, <1>13, <1>18 DEF Shape

\* Nothing is open at first.
LEMMA HandlesInit == Init => Shape /\ Losses /\ Started
<1> SUFFICES ASSUME Init PROVE Shape /\ Losses /\ Started
  OBVIOUS
<1>1. /\ phase = "rx" /\ done = 0 /\ opened = 0 /\ open = {}
      /\ \A i \in 1..nRx : rxq[i].pcap = Null
      /\ \A i \in 1..nTx : txq[i].dumper \in {Null, Wild} /\ txq[i].pcap = Null
  BY DEF Init
<1>2. TypeOK
  BY InitBursts
<1>3. nRx \in Nat /\ nTx \in Nat
  BY <1>2, Queues
<1>4. QueuesHold /\ Apart
  BY <1>1 DEF QueuesHold, Apart
<1>5. RxRound
  <2>1. ASSUME NEW j \in 1..nRx
        PROVE  Round(0, nRx, device.rxNames, j, rxq[j].pcap, rxq[j].name)
    <3>1. 0 % nRx = 0 /\ ~(j <= 0) /\ 0 < nRx
      BY <1>3
    <3> QED
      BY <1>1, <3>1 DEF Round
  <2>2. 0 <= nRx * nRx
    BY <1>3
  <2> QED
    BY <1>1, <2>1, <2>2 DEF RxRound
<1>6. TxRound /\ RxDone /\ TxDone /\ Single
  BY <1>1 DEF TxRound, RxDone, TxDone, Single, Alive
<1>7. Losses
  <2>1. Lost = 0
    BY <1>1, <1>3 DEF Lost, Over
  <2>2. open \ Kept = {}
    BY <1>1
  <2> QED
    BY <2>1, <2>2, FS_EmptySet DEF Losses
<1> QED
  BY <1>1, <1>4, <1>5, <1>6, <1>7 DEF Shape, Started

\* Every step keeps the handles' invariant.
LEMMA HandlesNext ==
  ASSUME TypeOK, Shape, Losses, Started, [Next]_vars
  PROVE  Shape' /\ Losses' /\ Started'
<1>1. CASE OpenRx
  <2>1. CASE phase' = "rx"
    BY <1>1, <2>1, OpenRxShape, OpenRxLosses DEF Started
  <2>2. CASE phase' # "rx"
    <3>1. phase' \in {"failed", "exited"}
      BY <1>1, <2>2 DEF OpenRx, OpenFails
    <3> QED
      BY <3>1 DEF Shape, Losses, Started, Opening, Alive
  <2> QED
    BY <2>1, <2>2
<1>2. CASE OpenTx
  <2>1. CASE phase' = "tx"
    BY <1>2, <2>1, OpenTxShape, OpenTxLosses DEF Started
  <2>2. CASE phase' # "tx"
    <3>1. phase' \in {"failed", "exited"}
      BY <1>2, <2>2 DEF OpenTx, OpenFails
    <3> QED
      BY <3>1 DEF Shape, Losses, Started, Opening, Alive
  <2> QED
    BY <2>1, <2>2
<1>3. CASE RxOpened
  <2>1. phase' # "started"
    BY <1>3 DEF RxOpened
  <2> QED
    BY <1>3, <2>1, RxOpenedShape, RxOpenedLosses DEF Started
<1>4. CASE TxOpened
  <2>1. phase' # "started"
    BY <1>4 DEF TxOpened
  <2> QED
    BY <1>4, <2>1, TxOpenedShape DEF Started
<1>5. CASE FromPcaps
  <2>1. phase' \in {"stopped", "failed"}
    BY <1>5 DEF FromPcaps
  <2>2. CASE phase' = "stopped"
    BY <1>5, <2>2, FromPcapsShape DEF Started
  <2>3. CASE phase' = "failed"
    BY <2>3 DEF Shape, Losses, Started, Opening, Alive
  <2> QED
    BY <2>1, <2>2, <2>3
<1>6. ASSUME StartTx \/ StartRx, phase' # "starting"
      PROVE  Shape' /\ Losses' /\ Started'
  <2>1. /\ phase = "starting" /\ phase' \in {"exited", "stopped"}
        /\ UNCHANGED <<device, open, opened, done, rxq, txq>>
    BY <1>6 DEF StartTx, StartRx, OpenFails, handles
  <2>2. SameQueues
    BY <2>1 DEF SameQueues
  <2>3. CASE phase' = "stopped"
    <3>1. phase \in Opening \cup Alive /\ {phase, phase'} \subseteq Alive
      BY <2>1, <2>3 DEF Alive
    <3> QED
      BY <2>2, <2>3, <3>1, SameShape, SameLosses DEF Started
  <2>4. CASE phase' = "exited"
    BY <2>4 DEF Shape, Losses, Started, Opening, Alive
  <2> QED
    BY <2>1, <2>3, <2>4
<1>7. CASE StartTx
  BY <1>6, <1>7, StartTxShape, StartTxLosses DEF Started
<1>8. CASE StartRx
  BY <1>6, <1>8, StartRxShape, StartRxLosses DEF Started
<1>9. CASE eth_dev_stop
  <2>1. phase' \in {"stopped", "crashed"}
    BY <1>9 DEF eth_dev_stop
  <2>2. CASE phase' = "stopped"
    BY <1>9, <2>2, StopShape DEF Started
  <2>3. CASE phase' = "crashed"
    BY <2>3 DEF Shape, Losses, Started, Opening, Alive
  <2> QED
    BY <2>1, <2>2, <2>3
<1>10. CASE /\ ~OpenRx /\ ~OpenTx /\ ~RxOpened /\ ~TxOpened /\ ~FromPcaps /\ ~StartTx /\ ~StartRx
            /\ ~eth_dev_stop
  <2>1. /\ SameQueues
        /\ \/ phase' = phase
           \/ phase = "stopped" /\ phase' = "starting"
           \/ phase = "starting" /\ phase' = "started" /\ UnopenedTx = {} /\ UnopenedRx = {}
           \/ phase' \in {"detached", "undefined"}
    BY <1>10, QuietQueues
  <2>2. CASE phase' \notin Opening \cup Alive
    BY <2>2 DEF Shape, Losses, Started, Alive
  <2>3. CASE phase' \in Opening \cup Alive
    <3>1. phase' \notin {"detached", "undefined"}
      BY <2>3 DEF Opening, Alive
    <3>2. phase' = phase \/ {phase, phase'} \subseteq Alive
      BY <2>1, <3>1 DEF Alive
    <3>3. phase \in Opening \cup Alive
      BY <2>3, <3>2
    <3>4. Shape' /\ Losses'
      BY <2>1, <3>2, <3>3, SameShape, SameLosses
    <3>5. Started'
      BY <2>1, <3>1, SameUnopened DEF Started
    <3> QED
      BY <3>4, <3>5
  <2> QED
    BY <2>2, <2>3
<1> QED
  BY <1>1, <1>2, <1>3, <1>4, <1>5, <1>7, <1>8, <1>9, <1>10

\* The handles' invariant gives what the runs check.
LEMMA HandlesFromInv ==
  ASSUME TypeOK, Shape, Losses
  PROVE  HandlesAccounted
<1> SUFFICES ASSUME phase \in Alive
             PROVE  /\ Held \subseteq open
                    /\ \A q, r \in 1..nTx : q # r =>
                         {txq[q].dumper, txq[q].pcap} \cap {txq[r].dumper, txq[r].pcap} \subseteq {Null, Wild}
                    /\ \A q, r \in 1..nRx : q # r => rxq[q].pcap # rxq[r].pcap \/ rxq[q].pcap = Null
                    /\ TxHandles \cap RxHandles \subseteq {Null} \cup (IF single_iface THEN open ELSE {})
                    /\ Cardinality(open \ Held) = Forgotten
  BY DEF HandlesAccounted, Alive
<1>1. QueuesHold /\ Apart
  BY DEF Shape
<1>2. phase \notin Opening /\ phase \notin {"rx", "tx"}
  BY DEF Opening, Alive
<1>3. Held = Kept
  BY <1>2 DEF Held, Kept, TxHandles
<1>4. Held \subseteq open
  BY <1>1 DEF Held, TxHandles, RxHandles, QueuesHold
<1>5. ASSUME NEW q \in 1..nTx, NEW r \in 1..nTx, q # r
      PROVE  {txq[q].dumper, txq[q].pcap} \cap {txq[r].dumper, txq[r].pcap} \subseteq {Null, Wild}
  <2>1. CASE device.tx = "tx_pcap"
    <3>1. txq[q].pcap = Null /\ txq[r].pcap = Null
      BY <1>1, <2>1 DEF QueuesHold
    <3>2. txq[q].dumper # txq[r].dumper \/ txq[q].dumper \in {Null, Wild}
      BY <1>1, <1>5 DEF Apart
    <3> QED
      BY <3>1, <3>2
  <2>2. CASE device.tx # "tx_pcap"
    <3>1. txq[q].dumper \in {Null, Wild} /\ txq[r].dumper \in {Null, Wild}
      BY <1>1, <2>2 DEF QueuesHold
    <3>2. txq[q].pcap # txq[r].pcap \/ txq[q].pcap = Null
      BY <1>1, <1>5 DEF Apart
    <3> QED
      BY <3>1, <3>2
  <2> QED
    BY <2>1, <2>2
<1>6. TxHandles \cap RxHandles \subseteq {Null} \cup (IF single_iface THEN open ELSE {})
  <2>1. CASE single_iface
    BY <1>1, <2>1 DEF RxHandles, QueuesHold
  <2>2. CASE ~single_iface
    BY <1>1, <2>2 DEF TxHandles, RxHandles, Apart
  <2> QED
    BY <2>1, <2>2
<1>7. Cardinality(open \ Held) = Forgotten
  BY <1>2, <1>3 DEF Losses, Lost
<1> QED
  BY <1>1, <1>4, <1>5, <1>6, <1>7 DEF Apart

\* A start leaves no queue unopened.
LEMMA OpenAtStart ==
  ASSUME TypeOK, Shape, Started
  PROVE  StartedIsOpen
<1> SUFFICES ASSUME phase = "started"
             PROVE  /\ \A q \in 1..nTx : TxHandle(q) \in open /\ txq[q].name = device.txNames[nTx]
                    /\ \A q \in 1..nRx : rxq[q].pcap \in open /\ rxq[q].name = device.rxNames[nRx]
  BY DEF StartedIsOpen
<1>1. QueuesHold /\ RxDone /\ TxDone /\ Single
  BY DEF Shape, Alive
<1>2. UnopenedTx = {} /\ UnopenedRx = {}
  BY DEF Started
<1>3. device.tx \in {"tx_pcap", "tx_iface", "iface"}
  BY Queues
<1>4. ASSUME NEW q \in 1..nTx
      PROVE  TxHandle(q) \in open /\ txq[q].name = device.txNames[nTx]
  <2>1. q \notin UnopenedTx
    BY <1>2
  <2>2. TxHandle(q) \in open \cup {Null, Wild} /\ TxHandle(q) # Wild
    <3>1. CASE device.tx = "tx_pcap"
      <4>1. txq[q].dumper \in open \cup {Null, Wild}
        BY <1>1, <3>1 DEF QueuesHold
      <4>2. txq[q].dumper # Wild
        BY <1>1, <3>1 DEF TxDone
      <4> QED
        BY <3>1, <4>1, <4>2 DEF TxHandle
    <3>2. CASE device.tx # "tx_pcap"
      <4>1. txq[q].pcap \in open \cup {Null}
        BY <1>1, <3>2 DEF QueuesHold
      <4>2. open \subseteq 1..opened
        BY Plain
      <4>3. txq[q].pcap # Wild
        BY <4>1, <4>2 DEF Null, Wild
      <4> QED
        BY <3>2, <4>1, <4>3 DEF TxHandle
    <3> QED
      BY <3>1, <3>2
  <2>3. TxHandle(q) # Null
    BY <1>3, <2>1 DEF UnopenedTx, TxHandle
  <2> QED
    BY <1>1, <2>2, <2>3 DEF TxDone
<1>5. ASSUME NEW q \in 1..nRx
      PROVE  rxq[q].pcap \in open /\ rxq[q].name = device.rxNames[nRx]
  <2>1. rxq[q].pcap # Null
    <3>1. CASE single_iface
      <4>1. 1 \in 1..nTx /\ q = 1
        BY <3>1, Queues
      <4>2. 1 \notin UnopenedTx /\ device.tx = "iface"
        BY <1>2, <3>1 DEF single_iface
      <4>3. txq[1].pcap # Null
        BY <4>1, <4>2 DEF UnopenedTx
      <4>4. rxq[1].pcap = txq[1].pcap
        BY <1>1, <3>1, <4>3 DEF Single, Alive
      <4> QED
        BY <4>1, <4>3, <4>4
    <3>2. CASE ~single_iface
      BY <1>2, <3>2 DEF UnopenedRx
    <3> QED
      BY <3>1, <3>2
  <2> QED
    BY <1>1, <2>1 DEF QueuesHold, RxDone
<1> QED
  BY <1>4, <1>5

-----------------------------------------------------------------------------
(* The theorems *)

\* The invariant holds in every reachable state.
THEOREM InvHolds == Spec => []IInv
<1>1. Init => IInv
  BY InitBursts, HandlesInit DEF IInv
<1>2. IInv /\ [Next]_vars => IInv'
  BY BurstsNext, HandlesNext DEF IInv
<1> QED
  BY <1>1, <1>2, PTL DEF Spec

\* However bursts end, every mbuf has one owner until a chain that is too long
\* is dropped, and the counters add up to what was handed over (eth_pcap_tx,
\* eth_pcap_tx_dumper, eth_stats_get).
THEOREM BurstsCorrect == Spec => []BurstsAccounted
<1>1. IInv => BurstsAccounted
  BY DEF IInv
<1> QED
  BY <1>1, InvHolds, PTL

\* However often a device is stopped and started, also half way, no queue has
\* a handle that was closed or another queue's, and no handle is lost but
\* those devinit forgets (eth_dev_start, eth_dev_stop).
THEOREM HandlesCorrect == Spec => []HandlesAccounted
<1>1. IInv => HandlesAccounted
  BY HandlesFromInv DEF IInv
<1> QED
  BY <1>1, InvHolds, PTL

\* A started device has a handle open for each queue, on what the last
\* argument of its direction names (eth_dev_start, open_rx_pcap).
THEOREM StartedOpenCorrect == Spec => []StartedIsOpen
<1>1. IInv => StartedIsOpen
  BY OpenAtStart DEF IInv
<1> QED
  BY <1>1, InvHolds, PTL
=============================================================================
