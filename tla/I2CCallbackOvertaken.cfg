\* A timer interrupt that preempts the I2C interrupt.
SPECIFICATION Spec
CONSTANTS
  Requests <- OneByte
  Places = 1
  Timer = "higher"
INVARIANTS
  CallbackTruth
CHECK_DEADLOCK FALSE
