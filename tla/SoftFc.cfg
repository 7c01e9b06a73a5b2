\* The regime the code is written for: no poll of CTS between a refusal and the append,
\* no byte in the two windows of uart_read_pending_data, a timer other than TIMER_1.
SPECIFICATION Spec
CONSTANTS
  FIFO_SIZE = 5
  Late = 1
  STOP_RX_LEVEL = 2
  Skid = 0
  RxDepth = 1
  TxDepth = 1
  RxRing = 2
  TxRing = 1
  FlagClearedLast = FALSE
  Overtaken = FALSE
  LateByte = FALSE
INVARIANTS
  NoOverrun
  NoOvertaking
  NothingLeftBehind
  NeverStranded
PROPERTIES
  PeerLetGo
