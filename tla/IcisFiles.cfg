\* Three lcores: with two ports one of them polls, with three ports two.
CONSTANTS
    Lcores = {0, 1, 2}
    Masks = {{0, 1}, {0, 1, 2}}
    QueuesPerLcore = {1}
    buffer_size = 2
    MAX_PKT_BURST = 2
    MaxSegments = 2
    seconds_rotation = 1
    NoLimit = NoLimit
    max_rotations = 1
    max_packets = 3
    SizeLimit = TRUE
    MaxPackets = 3
    MaxTime = 2
\* The process ends.
CHECK_DEADLOCK FALSE
SPECIFICATION FairSpec
INVARIANTS MbufsAccounted DumpedInOrder
PROPERTIES RingDrains
