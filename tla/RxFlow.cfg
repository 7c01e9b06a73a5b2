\* Hardware flow control that holds the peer off in time, noise on the line, at most one
\* byte between the move of read_pos and the test of user_program_busy.
SPECIFICATION Spec
CONSTANTS
  N = 4
  FifoDepth = 4
  Ids = 9
  FlowControl = TRUE
  Overruns = FALSE
  Noisy = TRUE
  IdleSleeps = TRUE
  BeforeTest = 1
  BeforeClear = 0
  BeforeIdle = 2
INVARIANTS
  FullIsBusy
  ReadsWhatItRemoves
  NothingLeftBehind
PROPERTIES
  IsStream
