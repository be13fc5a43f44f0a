SPECIFICATION Spec
CONSTANTS
  Producers = {p1, p2}
  Consumers = {c1, c2}
  NoThread = NoThread
  Capacity = 2
  NumPush = 2
  NumPop = 2
  MaxSpurious = 1
INVARIANTS
  TypeOK
  FifoOrder
  NoLostWakeup
PROPERTIES
  ImplementsFifo
  AllServed
CHECK_DEADLOCK FALSE
