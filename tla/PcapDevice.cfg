SPECIFICATION Spec
CONSTANTS
  Names = {n1, n2}
  MaxQueues = 2
  Mbufs = {b1, b2}
  MaxOpens = 12
  MaxHanded = 3
INVARIANTS
  HandlesAccounted
  StartedIsOpen
  BurstsAccounted
CHECK_DEADLOCK FALSE
