\* Two files, taken in one round or two, by threads that may be cancelled; threads[] has
\* room for both or not.
CONSTANTS
  Files = {1, 2}
  Nodes = {n1}
  Times = {1, 3}
  TIMEINT = 1
  ThreadsSizes = {1, 2}
  MaxPackets = 3
SPECIFICATION FairSpec
INVARIANTS TotalsAgree OneLatePacket NoFileForgotten
PROPERTIES ReadersFinish
\* The behaviour may become undefined.
CHECK_DEADLOCK FALSE
