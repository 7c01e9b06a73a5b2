\* The regime the code is written for: at most one byte leaves the FIFO during a
\* fast stretch.
SPECIFICATION Spec
CONSTANTS
  N = 3
  FifoDepth = 2
  Ids = 6
  Patience = 1
INVARIANTS
  NeverStranded
PROPERTIES
  EveryByteSent
  SendCharReturns
