\* With and without rotation (on every tick); the queue needs malloc from its second
\* element on.  A packet of 4 bytes overruns pktdata.
CONSTANTS
  CHUNKSIZE = 9
  HeaderSize = 1
  PRACTICAL_LEN = 3
  StructSize = 4
  CapLens = {0, 3, 4}
  BufferSlots = 1
  Rotates = {TRUE, FALSE}
  m_interval = 0
  MaxPackets = 3
  MaxTime = 1
SPECIFICATION FairSpec
INVARIANTS ChunkFits InOrder NothingVanishes WriterDrains
PROPERTIES FilesOnlyGrow StopEndsTheProcess
\* The process ends.
CHECK_DEADLOCK FALSE
