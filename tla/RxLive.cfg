\* A peer that keeps sending and now and then overruns the FIFO in spite of the
\* handshake; Idle() sleeps; a byte may arrive just before user_program_busy is cleared,
\* and three between the test of the ring and Idle().
SPECIFICATION BusyPeerSpec
CONSTANTS
  N = 4
  FifoDepth = 2
  Ids = 7
  FlowControl = TRUE
  Overruns = TRUE
  Noisy = FALSE
  IdleSleeps = TRUE
  BeforeTest = 0
  BeforeClear = 1
  BeforeIdle = 3
PROPERTIES
  IsStream
  EveryByteDelivered
