\* The external clock of 40 MIPS and a speed that needs no more than a 512th of it.
SPECIFICATION Spec
CONSTANTS
  Clients = {"rates"}
  PromptSlave = TRUE
  NoEvent = NoEvent
  Prescalers = {0, 1}
  Sources = {0, 1}
  Word = 2
  PairRule = TRUE
  CleanRelease = TRUE
  PromptTimer1 = TRUE
  Span = 4
  Reach = 9
  TurnAtWrap = FALSE
  Buffers = 4
  AtomicClear = TRUE
  OneSender = TRUE
  RowSize = 8
  PageSize = 16
  FlashSize = 32
  MaxWritten = 9
  Errata = 1
  Blank = Blank
  IntMax = 15
  SpiSpeeds = {78, 80, 1250}
  BaudRates = {9600, 19200, 38400, 57600, 115200}
  DacRates = {100, 1000, 8000, 11025, 44100, 48000, 96000, 100000}
  Periods = {2, 4}
  ArrayWidth = 16
  ArrayHeight = 10
  OriginX = 20
  OriginY = 5
  LineConf = 12
  PromptVsync = TRUE
  Corners = {2}
  Sides = {8}
  Zooms = {1, 2, 4, 8}
  Values = {0, 1, 9, 10, 105, 1000, 4095, 9999, 10000, 30020, 32767, 32768, 32769, 40960, 65535}
  None = None
INVARIANT SpiNotFaster
CHECK_DEADLOCK FALSE
