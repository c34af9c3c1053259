\* The blocking queue: permits, assertions and wake-ups.
CONSTANT MaxAccepted = 8
\* The producer stops at the bound and the consumer stays blocked.
CHECK_DEADLOCK FALSE
SPECIFICATION BlockingFairSpec
INVARIANTS AssertionsHold PermitsMatchElements
PROPERTIES WakesUp
