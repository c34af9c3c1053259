----------------------------- MODULE ViewMemory -----------------------------
(***************************************************************************)
(* weak_atomic and the fences of src/atomicops.h on hardware that reorders *)
(* accesses: loads and stores are relaxed, and only fence() orders them.   *)
(*                                                                         *)
(* A location keeps every value stored into it, the latest one last; a     *)
(* thread knows, of each location, the first value it may still read, and  *)
(* may read that one or any later one.  Such a map of locations to numbers *)
(* is a view.  A stored value carries the view of the last release fence   *)
(* before it; what a thread loads comes into force at its next acquire     *)
(* fence.  A plain variable, a slot of a block say, is a location too: to  *)
(* access it without knowing its latest value is a data race.              *)
(*                                                                         *)
(* The operators take and return what one thread sees, a record of mem and *)
(* its three views, so that an action composes them in the program's       *)
(* order.                                                                  *)
(***************************************************************************)
EXTENDS Naturals, Sequences

VARIABLES mem,    \* per location: the values stored, each with a view
          views   \* per thread: what it knows (cur), what it will know after
                  \* an acquire fence (acq), what its stores carry (rel)

Sees(t) == [mem |-> mem, cur |-> views[t].cur, acq |-> views[t].acq,
            rel |-> views[t].rel]

Becomes(t, s) ==
    /\ mem' = s.mem
    /\ views' = [views EXCEPT ![t] = [cur |-> s.cur, acq |-> s.acq,
                                      rel |-> s.rel]]

\* Every thread knows the initial values: a full fence follows the constructor.
Start(threads, initial) ==
    LET first == [l \in DOMAIN initial |-> 1]
    IN  /\ mem = [l \in DOMAIN initial |->
                    <<[val |-> initial[l], view |-> first]>>]
        /\ views = [t \in threads |-> [cur |-> first, acq |-> first,
                                       rel |-> first]]

Join(v, w) == [l \in DOMAIN v |-> IF v[l] < w[l] THEN w[l] ELSE v[l]]

\* The values a thread may read, by their places in the location's history.
Visible(s, l) == s.cur[l]..Len(s.mem[l])

ValueAt(s, l, n) == s.mem[l][n].val

Latest(l) == mem[l][Len(mem[l])].val

\* weak_atomic::load(), the n-th value being read
Load(s, l, n) ==
    [s EXCEPT !.cur[l] = n,
              !.acq = [Join(@, s.mem[l][n].view) EXCEPT ![l] = n]]

\* Where the next value stored goes.
Place(s, l) == Len(s.mem[l]) + 1

\* Stores in a row, into atomics or plain variables: new gives some locations
\* a value.  No fence comes between them, so their order is free.
Stores(s, new) ==
    LET Stored(l) == [val |-> new[l], view |-> [s.rel EXCEPT ![l] = Place(s, l)]]
        Known(v)  == [l \in DOMAIN v |-> IF l \in DOMAIN new THEN Place(s, l)
                                                             ELSE v[l]]
    IN  [mem |-> [l \in DOMAIN s.mem |-> IF l \in DOMAIN new
                                           THEN Append(s.mem[l], Stored(l))
                                           ELSE s.mem[l]],
         cur |-> Known(s.cur),
         acq |-> Known(s.acq),
         rel |-> s.rel]

\* weak_atomic::operator=
Store(s, l, x) == Stores(s, [k \in {l} |-> x])

\* fence(memory_order_acquire)
AcquireFence(s) == [s EXCEPT !.cur = s.acq]

\* fence(memory_order_release)
ReleaseFence(s) == [s EXCEPT !.rel = s.cur]

\* Thread t accesses a plain variable without a race.
Knows(t, l) == views[t].cur[l] = Len(mem[l])
=============================================================================
