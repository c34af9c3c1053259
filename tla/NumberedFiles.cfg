\* Both programs, rotating and quitting at their limits.
CONSTANTS
    NoLimit = NoLimit
    Programs = {"main_dump", "main_icispcap"}
    buffer_size = 4
    seconds_rotation = 1
    max_rotations = 2
    max_packets = 3
    max_size = 0
    SnapLens = {2, 4}
    Sizes = {1, 3}
    HeaderSize = 1
    IcisDataRoom = 3
    HEADROOM = 1
    Word = 5
    SlaveLcores = 2
    MaxPackets = 4
    MaxTime = 2
SPECIFICATION Spec
INVARIANTS MbufsAccounted FilesPartition LimitsHold
PROPERTY EnqueuedIsDumped
\* The process ends.
CHECK_DEADLOCK FALSE
