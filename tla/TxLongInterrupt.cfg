\* Interrupts of higher priority may hold the code up for 5 bytes, longer than the
\* 4 byte FIFO lasts: whatever the timing, order and room are kept.  The stream may
\* stop in this regime (Patience >= 4), hence no deadlock check.
SPECIFICATION Spec
CONSTANTS
  N = 3
  FifoDepth = 4
  Ids = 8
  Patience = 5
INVARIANTS
  TypeOK
  TxregHasRoom
PROPERTIES
  IsStream
CHECK_DEADLOCK FALSE
