\* A timer interrupt of higher priority as a third caller.  Two callers that both
\* find the master free end in ERROR, which stops them: no deadlock check.
SPECIFICATION Spec
CONSTANTS
  Requests <- OneByte
  Places = 1
  Timer = "higher"
INVARIANTS
  InterruptOwned
CHECK_DEADLOCK FALSE
