-------------------------------- MODULE Dma --------------------------------
(***************************************************************************)
(* The DMA wrapper (dma/dma.c) and the count that forbids the idle mode    *)
(* while a one-shot channel is in use (clock/clock.c, errata 38).  The     *)
(* eight branches of each switch are one definition over the channel.      *)
(* Callers are in Spi, Dac and Adc; a call is one step, because a channel  *)
(* is touched by its client and by its own interrupt only.                 *)
(***************************************************************************)
EXTENDS Integers

CONSTANTS
  Channels,   \* numbers of the channels in use, a subset of 0 .. 7
  None,       \* no callback, no interrupt being served
  MaxIdle,    \* uses of idle mode that clock_disable_idle will count (1000)
  Prompt      \* the interrupt of a channel is served within one buffer

VARIABLES
  dma,          \* registers of each channel: enabled, mode, flag, enable, and
                \* the buffer (0 = A, 1 = B) the hardware works on
  DMA_Data,     \* callback of each channel
  pingpong_dma, \* the software's idea of the buffer
  idle,         \* clock_idle_disabled - 1000
  isr           \* the DMA interrupt being served, or None

dmaVars == <<dma, DMA_Data, pingpong_dma, idle, isr>>

OneShot(mode)  == mode \in {"one_shot", "one_shot_ping_pong"}
PingPong(mode) == mode \in {"continuous_ping_pong", "one_shot_ping_pong"}

DmaInit ==
  /\ dma = [c \in Channels |-> [chen |-> FALSE, mode |-> "continuous",
                                iflag |-> FALSE, ie |-> FALSE, hw |-> 0]]
  /\ DMA_Data = [c \in 0 .. 7 |-> None]
  /\ pingpong_dma = [c \in Channels |-> 0]
  /\ idle = 0 /\ isr = None

(* Where the callback of a channel is stored: channel 5 uses channel 0's.   *)
DataSlot(c) == IF c = 5 THEN 0 ELSE c

dma_init_channel(c, mode, callback) ==
  /\ dma' = [dma EXCEPT ![c] = [chen |-> FALSE, mode |-> mode, iflag |-> FALSE,
                                ie |-> callback # None, hw |-> 0]]
  /\ DMA_Data' = IF callback = None THEN DMA_Data
                 ELSE [DMA_Data EXCEPT ![DataSlot(c)] = callback]
  /\ UNCHANGED <<pingpong_dma, idle, isr>>

(* Outside its bounds the count is left alone for ever.                     *)
clock_disable_idle(n) == IF n \in 0 .. MaxIdle THEN n + 1 ELSE n
clock_enable_idle(n)  == IF n \in 0 .. MaxIdle THEN n - 1 ELSE n

dma_enable_channel(c) ==
  /\ dma' = [dma EXCEPT ![c].chen = TRUE, ![c].hw = 0]
  /\ idle' = IF OneShot(dma[c].mode) THEN clock_disable_idle(idle) ELSE idle
  /\ UNCHANGED <<DMA_Data, pingpong_dma, isr>>

(* mutant: the software's idea of the buffer survives the disabling         *)
DisableKeepsPhase(c) ==
  /\ dma' = [dma EXCEPT ![c].chen = FALSE]
  /\ idle' = IF OneShot(dma[c].mode) THEN clock_enable_idle(idle) ELSE idle
  /\ UNCHANGED <<pingpong_dma, DMA_Data, isr>>

dma_disable_channel(c) ==
  /\ dma' = [dma EXCEPT ![c].chen = FALSE]
  /\ pingpong_dma' = [pingpong_dma EXCEPT ![c] = 0]
  /\ idle' = IF OneShot(dma[c].mode) THEN clock_enable_idle(idle) ELSE idle
  /\ UNCHANGED <<DMA_Data, isr>>

Pending(c) == dma[c].iflag /\ dma[c].ie
SomePending == \E c \in Channels : Pending(c)

(* The interrupt: the flag is cleared, the callback is called with the      *)
(* buffer the count names, and the count is flipped when it has returned.   *)
EnterIsr(c) ==
  /\ isr = None /\ Pending(c)
  /\ dma' = [dma EXCEPT ![c].iflag = FALSE]
  /\ isr' = [channel |-> c, callback |-> DMA_Data[c], first |-> pingpong_dma[c] = 0]
  /\ UNCHANGED <<DMA_Data, pingpong_dma, idle>>

LeaveIsr ==
  /\ isr # None
  /\ pingpong_dma' = [pingpong_dma EXCEPT ![isr.channel] = 1 - @]
  /\ isr' = None
  /\ UNCHANGED <<dma, DMA_Data, idle>>

Serving(name) == IF isr = None THEN FALSE ELSE isr.callback = name

(* The hardware has filled or emptied a buffer: a ping-pong channel goes on *)
(* with the other one, a one-shot channel disables itself.                  *)
Complete(c) ==
  /\ dma[c].chen /\ (Prompt => ~Pending(c))
  /\ dma' = [dma EXCEPT ![c].iflag = TRUE,
                        ![c].chen = ~OneShot(dma[c].mode),
                        ![c].hw = IF PingPong(dma[c].mode) THEN 1 - @ ELSE @]
  /\ UNCHANGED <<DMA_Data, pingpong_dma, idle, isr>>

(* The interrupt of a ping-pong channel names the buffer the hardware has   *)
(* just left, never the one it is working on: after any number of buffers,  *)
(* stops and restarts the count kept by software (dma.c:618-734, reset at   *)
(* 493-556) agrees with a hardware that is never asked.                     *)
BufferTrue ==
  [][isr = None /\ isr' # None /\ PingPong(dma[isr'.channel].mode)
       => isr'.first = (dma[isr'.channel].hw = 1)]_dmaVars
=============================================================================
