--------------------- MODULE BlockingReaderWriterQueue ---------------------
(***************************************************************************)
(* BlockingReaderWriterQueue of src/readerwriterqueue.h: the queue and a   *)
(* LightweightSemaphore that counts its elements.  The inner queue is the  *)
(* FIFO ReaderWriterQueue is shown to implement (SpscFifo), each of its    *)
(* calls one step; between an inner call and the semaphore call next to it *)
(* the other thread may run.                                               *)
(*                                                                         *)
(* The n-th accepted element is the number n.                              *)
(***************************************************************************)
EXTENDS LightweightSemaphore, Sequences

CONSTANT MaxAccepted    \* bound: elements accepted

ASSUME BlockingAssumption == MaxAccepted \in Nat

VARIABLES inner,       \* the elements in the inner queue
          accepted,    \* elements ever accepted by it
          producer,    \* where it is: "idle" or "signal"
          consumer,    \* where it is: "idle", "trying", "waiting" or "dequeue"
          removed,     \* elements the consumer has removed
          failed,      \* the last inner.try_dequeue found nothing
          peeked       \* the last call was a peek that found an element

queueVars == <<inner, accepted, producer, consumer, removed, failed, peeked>>
vars == <<semVars, queueVars>>

BlockingInit ==
    /\ SemInit
    /\ inner = << >> /\ accepted = 0
    /\ producer = "idle" /\ consumer = "idle"
    /\ removed = 0 /\ failed = FALSE /\ peeked = FALSE

-----------------------------------------------------------------------------
(* The producer: enqueue and try_enqueue *)

\* inner.enqueue(element) returned true
EnqueueInner ==
    /\ producer = "idle"
    /\ accepted < MaxAccepted
    /\ inner' = Append(inner, accepted + 1)
    /\ accepted' = accepted + 1
    /\ producer' = "signal"
    /\ UNCHANGED <<semVars, consumer, removed, failed, peeked>>

\* sema.signal(), and the enqueue returns true
Signal ==
    /\ producer = "signal"
    /\ SignalAdd \/ SignalPost
    /\ producer' = IF signalAt' = "out" THEN "idle" ELSE "signal"
    /\ UNCHANGED <<inner, accepted, consumer, removed, failed, peeked>>

-----------------------------------------------------------------------------
(* The consumer *)

\* try_dequeue(result) and pop() begin with sema.tryWait().
TryDequeue ==
    /\ consumer = "idle"
    /\ TryWaitLoad
    /\ consumer' = IF waitAt' = "take" THEN "trying" ELSE "idle"
    /\ peeked' = FALSE
    /\ UNCHANGED <<inner, accepted, producer, removed, failed>>

\* wait_dequeue(result) begins with sema.wait().
WaitDequeue ==
    /\ consumer = "idle"
    /\ WaitLoad
    /\ consumer' = "waiting"
    /\ peeked' = FALSE
    /\ UNCHANGED <<inner, accepted, producer, removed, failed>>

\* Inside the semaphore; when it lets the consumer through, dequeue.
SemaphoreStep ==
    /\ consumer \in {"trying", "waiting"}
    /\ Waiting
    /\ consumer' = IF passed' THEN "dequeue" ELSE consumer
    /\ UNCHANGED <<inner, accepted, producer, removed, failed, peeked>>

\* inner.try_dequeue(result), and assert(success)
DequeueInner ==
    /\ consumer = "dequeue"
    /\ failed' = (inner = << >>)
    /\ inner' = IF failed' THEN inner ELSE Tail(inner)
    /\ removed' = IF failed' THEN removed ELSE removed + 1
    /\ consumer' = "idle"
    /\ UNCHANGED <<semVars, accepted, producer, peeked>>

\* peek() asks the inner queue only, not the semaphore.
Peek ==
    /\ consumer = "idle"
    /\ peeked' = (inner # << >>)
    /\ UNCHANGED <<semVars, inner, accepted, producer, consumer, removed, failed>>

BlockingNext ==
    \/ EnqueueInner \/ Signal
    \/ TryDequeue \/ WaitDequeue \/ Peek \/ SemaphoreStep \/ DequeueInner

BlockingSpec == BlockingInit /\ [][BlockingNext]_vars

\* A thread inside a call keeps running (a round of the spin loop that sees
\* nothing changes nothing, so the waiter leaves the loop), and the consumer
\* keeps waiting for more.
BlockingFairSpec ==
    /\ BlockingSpec
    /\ WF_vars(Signal)
    /\ WF_vars(SemaphoreStep)
    /\ WF_vars(DequeueInner)
    /\ WF_vars(WaitDequeue)

-----------------------------------------------------------------------------
(* Properties *)

\* The variables have their types; the kernel semaphore never goes below zero.
TypeOK ==
    /\ m_count \in Int /\ m_sema \in Nat
    /\ signalAt \in {"out", "post"}
    /\ waitAt \in {"out", "spin", "take", "block"}
    /\ passed \in BOOLEAN
    /\ accepted \in 0..MaxAccepted /\ removed \in 0..MaxAccepted
    /\ inner \in Seq(1..MaxAccepted)
    /\ producer \in {"idle", "signal"}
    /\ consumer \in {"idle", "trying", "waiting", "dequeue"}
    /\ failed \in BOOLEAN /\ peeked \in BOOLEAN

\* The assertions: oldCount >= -1 in signal(), at most one waiter is ever announced; and
\* success in try_dequeue, wait_dequeue and pop, whoever passed the semaphore finds an
\* element in the inner queue.
AssertionsHold == m_count >= -1 /\ ~failed

\* Elements without a permit: the producer is between its two calls, the consumer has its
\* permit and not its element yet, or has announced itself as a waiter.
NotSignalled == IF producer = "signal" /\ signalAt = "out" THEN 1 ELSE 0
Passed == IF consumer = "dequeue" THEN 1 ELSE 0
Blocked == IF waitAt = "block" THEN 1 ELSE 0

\* A permit for every element and an element for every permit, up to the calls
\* in progress, so size_approx() never promises more elements than the queue
\* holds; and the kernel holds a wake-up exactly when the waiter it was
\* announced has been signalled and has not woken up yet.
PermitsMatchElements ==
    /\ m_count = Len(inner) - NotSignalled - Passed - Blocked
    /\ AvailableApprox <= Len(inner)
    /\ m_sema + (IF signalAt = "post" THEN 1 ELSE 0)
         = IF waitAt = "block" /\ m_count >= 0 THEN 1 ELSE 0

\* No wake-up is lost: a consumer blocked on an element gets it.
WakesUp == \A n \in 1..MaxAccepted : accepted >= n ~> removed >= n
=============================================================================
