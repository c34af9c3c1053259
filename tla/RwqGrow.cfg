\* One block of 2 that may grow by blocks of 4: every call, size_approx from
\* both threads among them.
CONSTANTS
    MaxSize = 1
    MAX_BLOCK_SIZE = 4
    MaxBlocks = 3
    MaxElements = 7
    ProducerOps = {"enqueue", "try_enqueue", "size_approx"}
    ConsumerOps = {"try_dequeue", "pop", "peek", "size_approx"}
SPECIFICATION Spec
INVARIANTS TypeOK AssertionsHold NoSlotRace
PROPERTIES ImplementsFifo SizeApproxIsClose
