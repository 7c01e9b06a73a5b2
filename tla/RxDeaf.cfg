\* An overrun in spite of the handshake while the program is busy; no byte arrives in
\* any of the windows.
SPECIFICATION Spec
CONSTANTS
  N = 3
  FifoDepth = 2
  Ids = 6
  FlowControl = TRUE
  Overruns = TRUE
  Noisy = FALSE
  IdleSleeps = TRUE
  BeforeTest = 0
  BeforeClear = 0
  BeforeIdle = 0
INVARIANTS
  NotDeaf
