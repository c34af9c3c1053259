------------------------ MODULE LightweightSemaphore ------------------------
(***************************************************************************)
(* spsc_sema::LightweightSemaphore of src/atomicops.h, with one signalling *)
(* and one waiting thread: an atomic counter in front of a kernel          *)
(* semaphore.  A negative counter announces a waiter to the kernel.        *)
(*                                                                         *)
(* The spin loop's 10000 rounds are abstracted to "some rounds": it may be *)
(* left at any time.                                                       *)
(***************************************************************************)
EXTENDS Integers

VARIABLES m_count,    \* the counter
          m_sema,     \* the value of the POSIX semaphore (external)
          signalAt,   \* signal(): "out" or "post"
          waitAt,     \* wait(), tryWait(): where the waiter is
          passed      \* what the last tryWait() or wait() returned

semVars == <<m_count, m_sema, signalAt, waitAt, passed>>

SemInit == /\ m_count = 0
           /\ m_sema = 0
           /\ signalAt = "out"
           /\ waitAt = "out"
           /\ passed = FALSE

-----------------------------------------------------------------------------
(* signal() *)

\* Mutant of SignalAdd: the kernel is told one waiter too late.
SignalAddLate ==
    /\ signalAt = "out"
    /\ m_count' = m_count + 1
    /\ signalAt' = IF m_count < -1 THEN "post" ELSE "out"
    /\ UNCHANGED <<m_sema, waitAt, passed>>

\* fetch_add_release(1), and whether the old value announced a waiter
SignalAdd ==
    /\ signalAt = "out"
    /\ m_count' = m_count + 1
    /\ signalAt' = IF m_count < 0 THEN "post" ELSE "out"
    /\ UNCHANGED <<m_sema, waitAt, passed>>

SignalPost ==
    /\ signalAt = "post"
    /\ m_sema' = m_sema + 1
    /\ signalAt' = "out"
    /\ UNCHANGED <<m_count, waitAt, passed>>

-----------------------------------------------------------------------------
(* tryWait() and wait(): the load and the decrement are two accesses *)

\* tryWait alone gives up; inside wait() the spin loop comes next.
Look(from, otherwise) ==
    /\ waitAt = from
    /\ waitAt' = IF m_count > 0 THEN "take" ELSE otherwise
    /\ passed' = FALSE
    /\ UNCHANGED <<m_count, m_sema, signalAt>>

TryWaitLoad == Look("out", "out")
WaitLoad    == Look("out", "spin")
SpinLoad    == Look("spin", "spin")

\* Mutant of Take: the permit stays.
TakeKeepsPermit ==
    /\ waitAt = "take"
    /\ waitAt' = "out"
    /\ passed' = TRUE
    /\ UNCHANGED <<m_count, m_sema, signalAt>>

\* fetch_add_acquire(-1) after a look that saw a positive count
Take ==
    /\ waitAt = "take"
    /\ m_count' = m_count - 1
    /\ waitAt' = "out"
    /\ passed' = TRUE
    /\ UNCHANGED <<m_sema, signalAt>>

\* Mutant of TakeOrBlock: the old count 0 passes for a permit.
TakeOrBlockOffByOne ==
    /\ waitAt = "spin"
    /\ m_count' = m_count - 1
    /\ waitAt' = IF m_count < 0 THEN "block" ELSE "out"
    /\ passed' = (m_count >= 0)
    /\ UNCHANGED <<m_sema, signalAt>>

\* The end of the spinning: announce a waiter, unless a signal came meanwhile.
TakeOrBlock ==
    /\ waitAt = "spin"
    /\ m_count' = m_count - 1
    /\ waitAt' = IF m_count <= 0 THEN "block" ELSE "out"
    /\ passed' = (m_count > 0)
    /\ UNCHANGED <<m_sema, signalAt>>

\* sem_wait, called again whenever a signal interrupts it
Unblock ==
    /\ waitAt = "block"
    /\ m_sema > 0
    /\ m_sema' = m_sema - 1
    /\ waitAt' = "out"
    /\ passed' = TRUE
    /\ UNCHANGED <<m_count, signalAt>>

Waiting == SpinLoad \/ Take \/ TakeOrBlock \/ Unblock

AvailableApprox == IF m_count > 0 THEN m_count ELSE 0
=============================================================================
