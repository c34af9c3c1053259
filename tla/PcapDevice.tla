----------------------------- MODULE PcapDevice -----------------------------
(***************************************************************************)
(* A device of the pcap poll mode driver (rte_eth_pcap.c): devinit opens   *)
(* what its arguments name, the Ethernet device layer starts, stops and    *)
(* detaches it, and while it is started the application transmits.  What   *)
(* is received is in IcisCapture.                                          *)
(*                                                                         *)
(* Handles (pcap_t and pcap_dumper_t) are numbered as they are opened and  *)
(* never used again, so one that outlives its file is seen.  The dead      *)
(* pcap_t behind every dumper, which nobody ever closes, is left out.      *)
(* A file that cannot be opened makes the call fail, an interface that     *)
(* cannot be opened ends the process.  At most 16 queues are asked for.    *)
(***************************************************************************)
EXTENDS Integers, Sequences, FiniteSets, FiniteSetsExt, Functions

CONSTANTS
  Names,       \* files and interfaces
  MaxQueues,   \* bound: arguments of one kind
  Mbufs,       \* the application's mbufs
  MaxOpens,    \* bound: handles opened before a start
  MaxHanded    \* bound: packets handed to the driver between two resets

ASSUME DeviceAssumption ==
  /\ IsFiniteSet(Names) /\ IsFiniteSet(Mbufs)
  /\ {MaxQueues, MaxOpens, MaxHanded} \subseteq Nat

VARIABLES
  device,   \* the arguments: what is opened to receive from and to transmit to
  phase,    \* where the device is in its life
  done,     \* handles opened by the handler devinit is in
  opened,   \* handles opened so far
  open,     \* those still open
  rxq, txq, \* rx_queue and tx_queue; before FromPcaps devinit's pcaps and dumpers
  pool,     \* free mbufs
  caller,   \* mbufs the application takes for its own
  dropped,  \* history: those the driver has freed all the same
  handed    \* history: packets handed over since the counters were reset

handles == <<opened, open>>
mbufs == <<pool, caller, dropped, handed>>
vars == <<device, phase, done, handles, rxq, txq, mbufs>>

Null == 0
Wild == -1   \* what an uninitialised pcap_dumper_t * may hold

Lists == UNION {[1..n -> Names] : n \in 0..MaxQueues}

\* One kind of argument for each direction: given both, devinit takes the
\* files.  No argument at all is no queue.
Arguments ==
  [rx : {"rx_pcap", "rx_iface"}, tx : {"tx_pcap", "tx_iface"}, rxNames : Lists, txNames : Lists]
  \cup {[rx |-> "iface", tx |-> "iface", rxNames |-> <<n>>, txNames |-> <<n>>] : n \in Names}

nRx == Len(device.rxNames)
nTx == Len(device.txNames)
single_iface == device.tx = "iface"

Init ==
  /\ device \in Arguments
  /\ phase = "rx" /\ done = 0 /\ opened = 0 /\ open = {}
  /\ rxq = [i \in 1..nRx |-> [pcap |-> Null, name |-> ""]]
  /\ txq \in [1..nTx -> [dumper : {Null, Wild}, pcap : {Null}, name : {""}, tx_pkts : {0}, err_pkts : {0}]]
  /\ pool = Mbufs /\ caller = {} /\ dropped = {} /\ handed = 0

-----------------------------------------------------------------------------
(* devinit.  The handler of an argument runs once for each argument of     *)
(* that kind and opens a handle for EVERY queue each time.                 *)

Fresh == opened + 1
Opens == opened' = Fresh /\ open' = open \cup {Fresh}
IsFile(kind) == kind \in {"rx_pcap", "tx_pcap"}

OpenFails(kind, back) ==
  /\ phase' = IF IsFile(kind) THEN back ELSE "exited"
  /\ UNCHANGED <<handles, rxq, txq, done>>

OpenRx ==
  /\ phase = "rx" /\ done < nRx * nRx
  /\ \/ /\ Opens /\ done' = done + 1
        /\ rxq' = [rxq EXCEPT ![(done % nRx) + 1] =
                     [pcap |-> Fresh, name |-> device.rxNames[(done \div nRx) + 1]]]
        /\ UNCHANGED <<phase, txq>>
     \/ OpenFails(device.rx, "failed")
  /\ UNCHANGED <<device, mbufs>>

OpenTx ==
  /\ phase = "tx" /\ done < nTx * nTx
  /\ LET q == (done % nTx) + 1
         name == device.txNames[(done \div nTx) + 1] IN
     \/ /\ Opens /\ done' = done + 1
        /\ txq' = IF device.tx = "tx_pcap"
                    THEN [txq EXCEPT ![q].dumper = Fresh, ![q].name = name]
                    ELSE [txq EXCEPT ![q].pcap = Fresh, ![q].name = name]
        /\ UNCHANGED <<phase, rxq>>
     \/ OpenFails(device.tx, "failed")
  /\ UNCHANGED <<device, mbufs>>

RxOpened ==
  /\ phase = "rx" /\ done = nRx * nRx
  /\ phase' = (IF single_iface THEN "create" ELSE "tx") /\ done' = 0
  /\ txq' = IF single_iface THEN [txq EXCEPT ![1].name = rxq[1].name] ELSE txq
  /\ UNCHANGED <<device, handles, rxq, mbufs>>

TxOpened ==
  /\ phase = "tx" /\ done = nTx * nTx /\ phase' = "create"
  /\ UNCHANGED <<device, done, handles, rxq, txq, mbufs>>

\* The pcap_t of the tx queues are not copied into the device, the dumpers
\* are, whether open_tx_pcap has set them or not.
FromPcaps ==
  /\ phase = "create"
  /\ \/ /\ phase' = "stopped"
        /\ txq' = [q \in 1..nTx |-> [txq[q] EXCEPT !.pcap = Null]]
     \/ phase' = "failed" /\ UNCHANGED txq    \* no memory, or no port left
  /\ UNCHANGED <<device, done, handles, rxq, mbufs>>

devinit == OpenRx \/ RxOpened \/ OpenTx \/ TxOpened \/ FromPcaps

-----------------------------------------------------------------------------
(* The device layer calls eth_dev_start on a stopped device only and       *)
(* eth_dev_stop on a started one.                                          *)

rte_eth_dev_start ==
  /\ phase = "stopped" /\ opened <= MaxOpens /\ phase' = "starting"
  /\ UNCHANGED <<device, done, handles, rxq, txq, mbufs>>

UnopenedTx ==
  {q \in 1..nTx : \/ device.tx = "tx_pcap" /\ txq[q].dumper = Null
                  \/ device.tx \in {"tx_iface", "iface"} /\ txq[q].pcap = Null}
\* Mutant: the loop ends one queue early.
UnopenedRxButLast == {q \in 1..nRx - 1 : ~single_iface /\ rxq[q].pcap = Null}
UnopenedRx == {q \in 1..nRx : ~single_iface /\ rxq[q].pcap = Null}

StartTx ==
  /\ phase = "starting" /\ UnopenedTx # {}
  /\ LET q == Min(UnopenedTx) IN
     \/ /\ Opens
        /\ txq' = IF device.tx = "tx_pcap" THEN [txq EXCEPT ![q].dumper = Fresh]
                                           ELSE [txq EXCEPT ![q].pcap = Fresh]
        /\ rxq' = IF single_iface THEN [rxq EXCEPT ![1].pcap = Fresh] ELSE rxq
        /\ UNCHANGED <<phase, done>>
     \/ OpenFails(device.tx, "stopped")
  /\ UNCHANGED <<device, mbufs>>

StartRx ==
  /\ phase = "starting" /\ UnopenedTx = {} /\ UnopenedRx # {}
  /\ \/ /\ Opens /\ rxq' = [rxq EXCEPT ![Min(UnopenedRx)].pcap = Fresh]
        /\ UNCHANGED <<phase, done, txq>>
     \/ OpenFails(device.rx, "stopped")
  /\ UNCHANGED <<device, mbufs>>

StatusUp ==
  /\ phase = "starting" /\ UnopenedTx = {} /\ UnopenedRx = {} /\ phase' = "started"
  /\ UNCHANGED <<device, done, handles, rxq, txq, mbufs>>

eth_dev_start == rte_eth_dev_start \/ StartTx \/ StartRx \/ StatusUp

TxHandles == {txq[q].dumper : q \in 1..nTx} \cup {txq[q].pcap : q \in 1..nTx}
RxHandles == {rxq[q].pcap : q \in 1..nRx}

\* A single interface is closed once, for both queues.
Closed == IF single_iface THEN {txq[1].pcap} ELSE TxHandles \cup RxHandles
CloseRxKeeps == rxq   \* mutant: closed but kept
CloseRx == [q \in 1..nRx |-> [rxq[q] EXCEPT !.pcap = Null]]

\* Whatever an uninitialised dumper points to is closed as well.
eth_dev_stop ==
  /\ phase = "started"
  /\ IF ~single_iface /\ Wild \in TxHandles
       THEN phase' = "crashed" /\ UNCHANGED <<open, rxq, txq>>
       ELSE /\ phase' = "stopped" /\ open' = open \ Closed /\ rxq' = CloseRx
            /\ txq' = [q \in 1..nTx |->
                         IF single_iface THEN [txq[q] EXCEPT !.pcap = Null]
                                         ELSE [txq[q] EXCEPT !.pcap = Null, !.dumper = Null]]
  /\ UNCHANGED <<device, done, opened, mbufs>>

\* eth_dev_close and the release of the queues do nothing, and devuninit
\* frees the queues with whatever they hold.
devuninit ==
  /\ phase \in {"stopped", "started"} /\ phase' = "detached"
  /\ UNCHANGED <<device, done, handles, rxq, txq, mbufs>>

-----------------------------------------------------------------------------
(* The application: it takes an mbuf from the pool, hands a burst over,    *)
(* and keeps what the driver did not count as sent, to free or resend it.  *)

\* An mbuf that is free and owned at once is taken, or freed or handed over
\* again: from here on two owners write to it.
OwnedTwice(m) == phase' = (IF m \in dropped THEN "undefined" ELSE phase)

rte_pktmbuf_alloc ==
  /\ phase = "started"
  /\ \E m \in pool : OwnedTwice(m) /\ pool' = pool \ {m} /\ caller' = caller \cup {m}
  /\ UNCHANGED <<device, done, handles, rxq, txq, dropped, handed>>

rte_pktmbuf_free ==
  /\ phase = "started"
  /\ \E m \in caller : OwnedTwice(m) /\ pool' = pool \cup {m} /\ caller' = caller \ {m}
  /\ UNCHANGED <<device, done, handles, rxq, txq, dropped, handed>>

\* Mutant: the mbuf is freed before the result of pcap_sendpacket is looked at.
TxLoopFreesFirst(batch) == {[sent |-> s, freed |-> batch, tooLong |-> {}] : s \in SUBSET batch}

\* How a burst ends: all sent, a chain longer than a jumbo frame, which is
\* freed but not counted, or an error of pcap_sendpacket.
TxLoop(batch) ==
  {[sent |-> s, freed |-> s, tooLong |-> {}] : s \in SUBSET batch}
  \cup UNION {{[sent |-> s, freed |-> s \cup {m}, tooLong |-> {m}] : m \in batch \ s}
                : s \in SUBSET batch}

\* The dumper never fails, so only a chain that is too long ends its burst.
Completes(outcome, batch) ==
  device.tx = "tx_pcap" => outcome.tooLong # {} \/ outcome.sent = batch

TxHandle(q) == IF device.tx = "tx_pcap" THEN txq[q].dumper ELSE txq[q].pcap

Counted(q, nb_pkts, num_tx) ==
  [txq EXCEPT ![q].tx_pkts = @ + num_tx, ![q].err_pkts = @ + nb_pkts - num_tx]

TxBurst(q) ==
  /\ phase = "started" /\ TxHandle(q) # Null
  /\ \E batch \in SUBSET (caller \ dropped) :
       /\ batch # {} /\ handed + Cardinality(batch) <= MaxHanded
       /\ \E outcome \in TxLoop(batch) :
            /\ Completes(outcome, batch)
            /\ pool' = pool \cup outcome.freed
            /\ caller' = caller \ outcome.sent
            /\ dropped' = dropped \cup outcome.tooLong
            /\ txq' = Counted(q, Cardinality(batch), Cardinality(outcome.sent))
       /\ handed' = handed + Cardinality(batch)
  /\ UNCHANGED <<device, phase, done, handles, rxq>>

eth_stats_get ==
  [opackets |-> SumFunction([q \in 1..nTx |-> txq[q].tx_pkts]),
   oerrors |-> SumFunction([q \in 1..nTx |-> txq[q].err_pkts])]

eth_stats_reset ==
  /\ phase \in {"stopped", "started"}
  /\ txq' = [q \in 1..nTx |-> [txq[q] EXCEPT !.tx_pkts = 0, !.err_pkts = 0]]
  /\ handed' = 0
  /\ UNCHANGED <<device, phase, done, handles, rxq, pool, caller, dropped>>

Next ==
  \/ devinit \/ eth_dev_start \/ eth_dev_stop \/ devuninit \/ eth_stats_reset
  \/ rte_pktmbuf_alloc \/ rte_pktmbuf_free
  \/ \E q \in 1..nTx : TxBurst(q)

Spec == Init /\ [][Next]_vars

-----------------------------------------------------------------------------
(* Properties.                                                             *)

TypeOK ==
  /\ device \in Arguments
  /\ phase \in {"rx", "tx", "create", "stopped", "starting", "started", "failed", "exited",
                "crashed", "undefined", "detached"}
  /\ done \in Nat /\ opened \in Nat /\ open \subseteq 1..opened
  /\ rxq \in [1..nRx -> [pcap : 0..opened, name : Names \cup {""}]]
  /\ txq \in [1..nTx -> [dumper : Wild..opened, pcap : 0..opened, name : Names \cup {""},
                          tx_pkts : Nat, err_pkts : Nat]]
  /\ pool \subseteq Mbufs /\ caller \subseteq Mbufs /\ dropped \subseteq Mbufs /\ handed \in Nat

Held == (TxHandles \cup RxHandles) \ {Null, Wild}

\* What devinit opens and forgets: all but the last argument's handles, the
\* interfaces of the tx queues, and the one handle of a single interface
\* when the first start replaces it.
Forgotten ==
  IF single_iface THEN IF opened > 1 THEN 1 ELSE 0
  ELSE nRx * (nRx - 1) + (IF device.tx = "tx_pcap" THEN nTx * (nTx - 1) ELSE nTx * nTx)

\* However often a device is stopped, started, and started again after a
\* start that failed half way, no queue refers to a handle that was closed,
\* no two queues share one but those of a single interface, and no handle is
\* lost but those devinit has lost (eth_dev_start, eth_dev_stop).
HandlesAccounted ==
  /\ TypeOK
  /\ phase \in {"stopped", "starting", "started"} =>
       /\ Held \subseteq open
       /\ \A q, r \in 1..nTx : q # r => {txq[q].dumper, txq[q].pcap} \cap {txq[r].dumper, txq[r].pcap}
                                         \subseteq {Null, Wild}
       /\ \A q, r \in 1..nRx : q # r => rxq[q].pcap # rxq[r].pcap \/ rxq[q].pcap = Null
       /\ TxHandles \cap RxHandles \subseteq {Null} \cup (IF single_iface THEN open ELSE {})
       /\ Cardinality(open \ Held) = Forgotten

\* A start that succeeds leaves every queue with an open handle, whatever an
\* earlier start that failed left behind, and on what the LAST argument of
\* its direction names: the earlier ones get no queue (eth_dev_start, open_rx_pcap).
StartedIsOpen ==
  phase = "started" =>
    /\ \A q \in 1..nTx : TxHandle(q) \in open /\ txq[q].name = device.txNames[nTx]
    /\ \A q \in 1..nRx : rxq[q].pcap \in open /\ rxq[q].name = device.rxNames[nRx]

\* An mbuf is free or the application's, never both and never neither, but for
\* the chains that are too long; and the statistics account for every packet
\* handed over (eth_pcap_tx, eth_pcap_tx_dumper, eth_stats_get).
BurstsAccounted ==
  phase # "undefined" =>
    /\ pool \cup caller = Mbufs
    /\ pool \cap caller = dropped
    /\ eth_stats_get.opackets + eth_stats_get.oerrors = handed
=============================================================================
