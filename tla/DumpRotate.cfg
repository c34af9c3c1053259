\* Rotation, limits and signals, with one mbuf more than the ring holds; an mbuf of 3
\* bytes has 2 behind its headroom, one of 4 wraps to none at all.
CONSTANTS
  NoLimit = NoLimit
  PoolSize = 3
  RingSize = 3
  seconds_rotation = 1
  max_rotations = 3
  max_packets = 3
  max_size = 0
  Sizes = {1, 3}
  HeaderSize = 1
  DataRooms = {3, 4}
  HEADROOM = 1
  Word = 4
  MaxPackets = 4
  MaxTime = 4
SPECIFICATION Spec
INVARIANTS MbufsAccounted DumpedInOrder LimitsHold
PROPERTY ReadyIsFinal
\* The process ends.
CHECK_DEADLOCK FALSE
