\* Each interrupt is served before the next event of its source; the callers keep the
\* rules their drivers do not check (README, section 4).  The drivers may stop.
SPECIFICATION Spec
CONSTANTS
  Clients = {"slave", "timer", "encoder", "can", "flash", "motor", "rates", "pwm", "camera", "format"}
  PromptSlave = TRUE
  NoEvent = NoEvent
  Prescalers = {0, 1}
  Sources = {0, 1}
  Word = 2
  PairRule = TRUE
  CleanRelease = TRUE
  PromptTimer1 = TRUE
  Span = 4
  Reach = 9
  TurnAtWrap = FALSE
  Buffers = 4
  AtomicClear = TRUE
  OneSender = TRUE
  RowSize = 8
  PageSize = 16
  FlashSize = 32
  MaxWritten = 9
  Errata = 1
  Blank = Blank
  IntMax = 15
  SpiSpeeds = {79, 80, 125, 156, 157, 312, 625, 626, 1250, 2500, 4990, 5000, 9999, 10000, 15000}
  BaudRates = {9600, 19200, 38400, 57600, 115200}
  DacRates = {100, 1000, 8000, 11025, 44100, 48000, 96000, 100000}
  Periods = {2, 4}
  ArrayWidth = 16
  ArrayHeight = 10
  OriginX = 20
  OriginY = 5
  LineConf = 12
  PromptVsync = TRUE
  Corners = {2}
  Sides = {8}
  Zooms = {1, 2, 4, 8}
  Values = {0, 1, 9, 10, 105, 1000, 4095, 9999, 10000, 30020, 32767, 32768, 32769, 40960, 65535}
  None = None
INVARIANTS
  InStep
  ConfigKept
  ExpiryKept
  CanIntact
  CanAnswered
  FlashImage
  NoWindup
  CaptureTrue
  SettingsRight
PROPERTIES
  CallbackOwner
  PositionTrue
CHECK_DEADLOCK FALSE
