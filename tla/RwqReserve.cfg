\* Five blocks of 2 reserved by the constructor, one more from malloc: the
\* circle turns round more than once.
CONSTANTS
    MaxSize = 4
    MAX_BLOCK_SIZE = 2
    MaxBlocks = 6
    MaxElements = 8
    ProducerOps = {"enqueue", "try_enqueue"}
    ConsumerOps = {"try_dequeue", "peek"}
SPECIFICATION FairSpec
INVARIANTS DestructorIsExact
PROPERTIES HoldsMaxSize EveryElementLeaves
