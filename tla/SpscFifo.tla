----------------------------- MODULE SpscFifo -----------------------------
(***************************************************************************)
(* What a queue between one producer thread and one consumer thread        *)
(* promises its callers, whatever it is built from: a FIFO whose calls     *)
(* take effect at one instant between their start and their return.  The   *)
(* promises are those of the comments of readerwriterqueue.h: an enqueue   *)
(* that returns false met a queue that already held Capacity elements, a   *)
(* dequeue that returns false met an empty queue, and elements leave in    *)
(* the order they came.                                                    *)
(*                                                                         *)
(* The n-th accepted element is the number n.                              *)
(***************************************************************************)
EXTENDS Naturals, Sequences

CONSTANTS Capacity,      \* how many elements always fit
          MaxElements    \* bound: the producer stops after so many

VARIABLES q,         \* the elements in the queue
          accepted,  \* how many elements were ever accepted
          offer,     \* the enqueue in progress: "none", "room" or "full"
          request,   \* the dequeue in progress: "none", "some" or "empty"
          out        \* what the last call of the consumer returned; 0: nothing

vars == <<q, accepted, offer, request, out>>

Init == /\ q = << >>
        /\ accepted = 0
        /\ offer = "none"
        /\ request = "none"
        /\ out = 0

EnqueueCall ==
    /\ offer = "none"
    /\ accepted < MaxElements
    /\ offer' = IF Len(q) >= Capacity THEN "full" ELSE "room"
    /\ UNCHANGED <<q, accepted, request, out>>

EnqueueTrue ==
    /\ offer # "none"
    /\ q' = Append(q, accepted + 1)
    /\ accepted' = accepted + 1
    /\ offer' = "none"
    /\ UNCHANGED <<request, out>>

\* Only a call that found the queue full may fail.
EnqueueFalse ==
    /\ offer = "full"
    /\ offer' = "none"
    /\ UNCHANGED <<q, accepted, request, out>>

DequeueCall ==
    /\ request = "none"
    /\ request' = IF q = << >> THEN "empty" ELSE "some"
    /\ out' = 0
    /\ UNCHANGED <<q, accepted, offer>>

DequeueTrue ==
    /\ request # "none"
    /\ q # << >>
    /\ out' = Head(q)
    /\ q' = Tail(q)
    /\ request' = "none"
    /\ UNCHANGED <<accepted, offer>>

PeekTrue ==
    /\ request # "none"
    /\ q # << >>
    /\ out' = Head(q)
    /\ request' = "none"
    /\ UNCHANGED <<q, accepted, offer>>

\* Only a call that found the queue empty may fail.
DequeueFalse ==
    /\ request = "empty"
    /\ request' = "none"
    /\ UNCHANGED <<q, accepted, offer, out>>

Next == \/ EnqueueCall \/ EnqueueTrue \/ EnqueueFalse
        \/ DequeueCall \/ DequeueTrue \/ PeekTrue \/ DequeueFalse

Spec == Init /\ [][Next]_vars
=============================================================================
