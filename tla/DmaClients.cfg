\* Interrupts are served within one buffer; transfers without a tx buffer on SPI_1 only;
\* dac_stop is not called from the callback; channel 5 has no client with a callback.
SPECIFICATION Spec
CONSTANTS
  Channels = {0, 1, 2, 3}
  None = None
  MaxIdle = 1000
  Prompt = TRUE
  RxOnlyOn = {"SPI_1"}
  Words = 2
  MaxTransfers = 3
  dma_channel_l = 0
  dma_channel_r = 1
  StopInCallback = FALSE
  Inputs = {0, 3}
  InitAnyTime = FALSE
INVARIANTS
  SelectedWhileClocked
  IdleHonest
  Labelled
PROPERTIES
  BufferTrue
  SyncReturns
CHECK_DEADLOCK FALSE
