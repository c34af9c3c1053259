\* The same queue, size_approx called by the consumer.
CONSTANTS
    BlockSize = 2
    MaxBlocks = 2
    MaxElements = 3
    ProducerOps = {"enqueue"}
    ConsumerOps = {"try_dequeue", "size_approx"}
SPECIFICATION Spec
INVARIANTS SizeSeesBuiltBlocks
