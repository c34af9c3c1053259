\* Blocks of 2, growing to a circle of 3: every call of the queue but the
\* consumer's size_approx (WeakSize).
CONSTANTS
    BlockSize = 2
    MaxBlocks = 3
    MaxElements = 5
    ProducerOps = {"enqueue", "try_enqueue", "size_approx"}
    ConsumerOps = {"try_dequeue", "pop", "peek"}
SPECIFICATION Spec
INVARIANTS NoDataRace WeakAssertionsHold ReadsInOrder
