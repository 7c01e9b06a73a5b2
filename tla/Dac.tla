-------------------------------- MODULE Dac --------------------------------
(***************************************************************************)
(* The DAC (dac/dac.c): two ping-pong DMA channels started and stopped     *)
(* together, whose callback tells the application which buffer to fill.    *)
(***************************************************************************)
EXTENDS Dma

CONSTANTS
  dma_channel_l, dma_channel_r, \* the channels the two sides use
  StopInCallback                \* the application may call dac_stop from its callback

VARIABLES
  dacen,  \* DAC1CONbits.DACEN
  dacAt   \* where the call of dac_init, dac_start or dac_stop is

dacVars == <<dmaVars, dacen, dacAt>>
Sides == {dma_channel_l, dma_channel_r}

DacInit == DmaInit /\ dacen = FALSE /\ dacAt = "uninitialised"

(* The program runs, or the callback when it may stop the DAC.              *)
AppRuns == isr = None /\ (Prompt => ~SomePending)
CallbackRuns == StopInCallback /\ Serving("callback_dma")

Goto(place) == dacAt' = place /\ UNCHANGED dacen

(* dac_init: both sides get a continuous ping-pong channel.                 *)
dac_init_r ==
  /\ AppRuns /\ dacAt = "uninitialised" /\ Goto("init_l")
  /\ dma_init_channel(dma_channel_r, "continuous_ping_pong", "callback_dma")
dac_init_l ==
  /\ AppRuns /\ dacAt = "init_l" /\ Goto("stopped")
  /\ dma_init_channel(dma_channel_l, "continuous_ping_pong", "callback_dma")

(* dac_start: the channels first, then the converter that drives them.      *)
dac_start_l ==
  /\ AppRuns /\ dacAt = "stopped" /\ Goto("start_r") /\ dma_enable_channel(dma_channel_l)
dac_start_r ==
  /\ AppRuns /\ dacAt = "start_r" /\ Goto("start") /\ dma_enable_channel(dma_channel_r)
dac_start ==
  /\ AppRuns /\ dacAt = "start" /\ dacAt' = "playing" /\ dacen' = TRUE /\ UNCHANGED dmaVars

dac_stop ==
  /\ AppRuns \/ CallbackRuns
  /\ dacAt = "playing" /\ dacAt' = "stop_l" /\ dacen' = FALSE /\ UNCHANGED dmaVars
dac_stop_l ==
  /\ AppRuns \/ CallbackRuns
  /\ dacAt = "stop_l" /\ Goto("stop_r") /\ dma_disable_channel(dma_channel_l)
dac_stop_r ==
  /\ AppRuns \/ CallbackRuns
  /\ dacAt = "stop_r" /\ Goto("stopped") /\ dma_disable_channel(dma_channel_r)

(* A side has played its buffer (hardware), and its interrupt.              *)
Played(c)   == dacen /\ Complete(c) /\ UNCHANGED <<dacen, dacAt>>
BufferIsr(c)  == EnterIsr(c) /\ UNCHANGED <<dacen, dacAt>>
BufferDone  ==
  /\ Serving("callback_dma") /\ (dacAt \in {"stop_l", "stop_r"} => ~StopInCallback)
  /\ LeaveIsr /\ UNCHANGED <<dacen, dacAt>>

DacNext ==
  \/ dac_init_r \/ dac_init_l
  \/ dac_start_l \/ dac_start_r \/ dac_start
  \/ dac_stop \/ dac_stop_l \/ dac_stop_r
  \/ BufferDone
  \/ \E c \in Sides : Played(c) \/ BufferIsr(c)
=============================================================================
