----------------------------- MODULE UartSoftFc -----------------------------
(***************************************************************************)
(* The UART with software flow control (uart/uart-software-fc.c), under a  *)
(* user that sends with serial_io_send_char and reads with                 *)
(* serial_io_get_char.  Three priorities share its record: the main        *)
(* program (0, or bh while it has the receive interrupt disabled), the     *)
(* callbacks at bh (transmit interrupt, timer, bottom half of the receive  *)
(* interrupt), and the top half of the receive interrupt.                  *)
(*                                                                         *)
(* Bytes are counted, not named: consumers and producers of each buffer    *)
(* take places in order, so what can go wrong is two consumers at once, an *)
(* overrun, or a byte nobody comes back for.                               *)
(***************************************************************************)
EXTENDS Integers

CONSTANTS
  FIFO_SIZE,      \* places of internal_buffer
  STOP_RX_LEVEL,  \* the peer is stopped above this level
  Skid,           \* bytes the peer still sends once RTS is high
  Late,           \* bytes by which the level may pass STOP_RX_LEVEL between the
                  \* test of the level and the write of RTS that follows it
  RxDepth,        \* places of the hardware receive FIFO
  TxDepth,        \* places of the hardware transmit FIFO
  RxRing, TxRing, \* bytes the user's two rings hold
  FlagClearedLast,\* TIMER_1: the interrupt flag is cleared after the callback
  Overtaken,      \* between a refusal of uart_transmit_byte and the append the timer
                  \* may expire or be forced, or the transmit FIFO run empty
  LateByte        \* a byte may arrive just before user_program_busy is read or
                  \* cleared by uart_read_pending_data

ASSUME SoftFcAssumption ==
  /\ RxDepth \in Nat \ {0} /\ TxDepth \in Nat \ {0} /\ RxRing \in Nat \ {0} /\ TxRing \in Nat \ {0}
  /\ STOP_RX_LEVEL \in Nat \ {0} /\ Skid \in Nat /\ Late \in Nat
  /\ FIFO_SIZE \in Nat /\ FIFO_SIZE > STOP_RX_LEVEL + Late + RxDepth + Skid
  /\ FlagClearedLast \in BOOLEAN /\ Overtaken \in BOOLEAN /\ LateByte \in BOOLEAN

VARIABLES
  cts, rts,       \* the two lines; high means stop
  skid,           \* bytes sent by the peer since RTS went high
  rxHw, rxif,     \* receive FIFO (URXDA is "> 0") and interrupt flag
  level,          \* fifo_w - fifo_r
  rxRing, busy,   \* the user's reception ring; user_program_busy
  txHw, txif, txie, \* transmit FIFO (UTXBF is "full"), interrupt flag and enable
  txRing,         \* the user's transmission ring
  stopTx, timerOn, tif, fake,  \* stop_tx, timer running / flag, fake_timer
  th,             \* top half running
  bh,             \* <<handler at bh priority, place>>
  pc, flags, ret  \* main program: place, local flags, continuation of enable

line  == <<cts, skid>>
rx    == <<rxHw, rxif, level>>
rxUse == <<rxRing, busy>>
txVars == <<txHw, txif, txie, txRing>>
poll  == <<stopTx, timerOn, tif, fake>>
main  == <<pc, flags, ret>>
vars  == <<cts, rts, skid, rx, rxUse, txVars, poll, th, bh, main>>

Utxbf == txHw = TxDepth
BhIdle == bh[1] = "off"
InsideSoftirq == bh[1] = "rx"
Masked == pc = "masked"               \* uart_disable_rx_interrupt in force
BhMayStart == BhIdle /\ ~th /\ ~rxif /\ ~Masked
BhRuns == ~th /\ ~(rxif /\ bh[2] # "loop")
MainRuns == /\ BhIdle /\ ~th /\ ~rxif
            /\ ~(tif /\ ~Masked) /\ ~(txif /\ txie /\ ~Masked)

Init ==
  /\ cts \in BOOLEAN /\ rts = FALSE /\ skid = 0
  /\ rxHw = 0 /\ rxif = FALSE /\ level = 0 /\ rxRing = 0 /\ busy = FALSE
  /\ txHw = 0 /\ txif = FALSE /\ txie = TRUE /\ txRing = 0
  /\ stopTx = 0 /\ timerOn = FALSE /\ tif = FALSE /\ fake = FALSE
  /\ th = FALSE /\ bh = <<"off", "off">>
  /\ pc = "out" /\ flags = {} /\ ret = "out"

-----------------------------------------------------------------------------
(* The peer, the hardware and the timer. *)

PeerCts == cts' = ~cts /\ UNCHANGED <<rts, skid, rx, rxUse, txVars, poll, th, bh, main>>

(* The main program has been refused and is on its way to the append. *)
Refused == ret \in {"wait", "poll", "append"} /\ ~(pc = "wait" /\ txRing = TxRing)

LoweringRts == bh[2] \in {"low", "lowLast"} \/ pc \in {"rpLow", "rpLowLast"}
ByteArrives ==
  /\ rxHw < RxDepth /\ (rts => skid < Skid)
  /\ ~LateByte => pc \notin {"rpBusy", "rpRts", "rpLow", "rpClear"}
  /\ ~Overtaken /\ Refused => BhIdle
  /\ LoweringRts => level + rxHw < STOP_RX_LEVEL + Late
  /\ skid' = IF rts THEN skid + 1 ELSE 0
  /\ rxHw' = rxHw + 1 /\ rxif' = TRUE
  /\ UNCHANGED <<cts, rts, level, rxUse, txVars, poll, th, bh, main>>

Shift ==
  /\ txHw > 0 /\ ~cts
  /\ ~Overtaken /\ Refused => txHw > 1
  /\ txHw' = txHw - 1 /\ txif' = TRUE
  /\ UNCHANGED <<cts, rts, skid, rx, rxUse, txie, txRing, poll, th, bh, main>>

TimerExpires ==
  /\ timerOn /\ ~tif
  /\ ~Overtaken => ~Refused
  /\ tif' = TRUE
  /\ UNCHANGED <<cts, rts, skid, rx, rxUse, txVars, stopTx, timerOn, fake, th, bh, main>>

-----------------------------------------------------------------------------
(* _U1RXInterrupt / _U2RXInterrupt, top half. *)

TopEnter ==
  /\ ~th /\ rxif /\ bh[2] # "loop"
  /\ th' = TRUE /\ rxif' = FALSE
  /\ UNCHANGED <<cts, rts, skid, rxHw, level, rxUse, txVars, poll, bh, main>>

TopStoreNoStop ==  \* mutant: the peer is never stopped
  /\ th /\ rxHw > 0
  /\ rxHw' = rxHw - 1 /\ rxif' = FALSE
  /\ level' = level + 1 /\ UNCHANGED <<rts, skid>>
  /\ UNCHANGED <<cts, rxUse, txVars, poll, th, bh, main>>
TopStore ==
  /\ th /\ rxHw > 0
  /\ rxHw' = rxHw - 1 /\ rxif' = FALSE
  /\ \/ /\ level' = level + 1
        /\ rts' = (rts \/ level' > STOP_RX_LEVEL)
     \/ UNCHANGED <<level, rts>>      \* FERR, and no byte over the level
  /\ skid' = IF rts THEN skid ELSE 0
  /\ UNCHANGED <<cts, rxUse, txVars, poll, th, bh, main>>

(* Then the bottom half, unless one runs already or something of the same  *)
(* priority was preempted: in that case the timer interrupt is forced.     *)
TopEndNoForce ==  \* mutant: the preempted handler is trusted to do it
  /\ th /\ rxHw = 0
  /\ th' = FALSE
  /\ bh' = IF BhIdle /\ ~Masked THEN <<"rx", "loop">> ELSE bh
  /\ UNCHANGED <<cts, rts, skid, rx, rxUse, txVars, poll, main>>
TopEnd ==
  /\ th /\ rxHw = 0
  /\ th' = FALSE
  /\ \/ InsideSoftirq /\ UNCHANGED <<fake, tif, bh>>
     \/ /\ ~InsideSoftirq /\ (~BhIdle \/ Masked)
        /\ fake' = TRUE /\ tif' = TRUE
        /\ UNCHANGED bh
     \/ BhIdle /\ ~Masked /\ bh' = <<"rx", "loop">> /\ UNCHANGED <<fake, tif>>
  /\ UNCHANGED <<cts, rts, skid, rx, rxUse, txVars, stopTx, timerOn, main>>

(* Bottom half: while (fifo && !user_program_busy), tested at th priority. *)
BottomLoop ==
  /\ bh = <<"rx", "loop">> /\ ~th
  /\ bh' = IF level > 0 /\ ~busy THEN <<"rx", "drain">> ELSE <<"off", "off">>
  /\ UNCHANGED <<cts, rts, skid, rx, rxUse, txVars, poll, th, main>>

-----------------------------------------------------------------------------
(* Handing the internal FIFO over to the user, at bh priority: from the    *)
(* bottom half and from the forced timer interrupt.  byte_received_callback*)
(* refuses when it has used the last place of the ring.                    *)
At(place) == BhRuns /\ bh[2] = place
Take == level' = level - 1 /\ rxRing' = rxRing + 1
TakeRefused == rxRing + 1 = RxRing
LeaveDrain == bh' = IF bh[1] = "rx" THEN <<"rx", "loop">> ELSE <<"timer", "clear">>

DrainTake ==
  /\ At("drain") /\ level > 0
  /\ Take
  /\ bh' = <<bh[1], IF TakeRefused THEN "testLast" ELSE "test">>
  /\ UNCHANGED <<cts, rts, skid, rxHw, rxif, busy, txVars, poll, th, main>>

DrainTest ==
  /\ \/ At("test") /\ bh' = <<bh[1], IF level < STOP_RX_LEVEL THEN "low" ELSE "drain">>
     \/ At("testLast") /\ bh' = <<bh[1], IF level < STOP_RX_LEVEL THEN "lowLast" ELSE "busy">>
  /\ UNCHANGED <<cts, rts, skid, rx, rxUse, txVars, poll, th, main>>

DrainRts ==
  /\ \/ At("low") /\ bh' = <<bh[1], "drain">>
     \/ At("lowLast") /\ bh' = <<bh[1], "busy">>
  /\ rts' = FALSE /\ skid' = 0
  /\ UNCHANGED <<cts, rx, rxUse, txVars, poll, th, main>>

DrainBusy ==
  /\ At("busy")
  /\ busy' = TRUE
  /\ LeaveDrain
  /\ UNCHANGED <<cts, rts, skid, rx, rxRing, txVars, poll, th, main>>

DrainEmpty ==
  /\ At("drain") /\ level = 0
  /\ LeaveDrain
  /\ UNCHANGED <<cts, rts, skid, rx, rxUse, txVars, poll, th, main>>

-----------------------------------------------------------------------------
(* _U1TXInterrupt / _U2TXInterrupt *)

TxEnter ==
  /\ BhMayStart /\ txif /\ txie
  /\ txif' = FALSE /\ bh' = <<"tx", "cts">>
  /\ UNCHANGED <<cts, rts, skid, rx, rxUse, txHw, txie, txRing, poll, th, main>>

TxCtsNoPoll ==  \* mutant: CTS is high and nothing will look at it again
  /\ bh = <<"tx", "cts">> /\ BhRuns
  /\ bh' = IF cts THEN <<"off", "off">> ELSE <<"tx", "fill">>
  /\ UNCHANGED <<cts, rts, skid, rx, rxUse, txVars, poll, th, main>>
TxCts ==
  /\ bh = <<"tx", "cts">> /\ BhRuns
  /\ bh' = IF cts THEN <<"off", "off">> ELSE <<"tx", "fill">>
  /\ IF cts /\ stopTx = 0 THEN stopTx' = 1 /\ timerOn' = TRUE
                          ELSE UNCHANGED <<stopTx, timerOn>>
  /\ UNCHANGED <<cts, rts, skid, rx, rxUse, txVars, tif, fake, th, main>>

(* tx_ready_callback gives a byte of the ring, if there is one. *)
TxFill ==
  /\ bh = <<"tx", "fill">> /\ BhRuns
  /\ IF ~Utxbf /\ txRing > 0
     THEN txHw' = txHw + 1 /\ txRing' = txRing - 1 /\ UNCHANGED bh
     ELSE bh' = <<"off", "off">> /\ UNCHANGED <<txHw, txRing>>
  /\ UNCHANGED <<cts, rts, skid, rx, rxUse, txif, txie, poll, th, main>>

-----------------------------------------------------------------------------
(* The timer interrupt and uart1_timer_cb / uart2_timer_cb.  fake_timer is *)
(* never 2 here: timer_force_interrupt finds the interrupt uart_init       *)
(* enabled.                                                                *)

TimerEnter ==
  /\ BhMayStart /\ tif
  /\ tif' = FlagClearedLast /\ bh' = <<"timer", "fake">>
  /\ UNCHANGED <<cts, rts, skid, rx, rxUse, txVars, stopTx, timerOn, fake, th, main>>

TimerFake ==
  /\ At("fake") /\ fake
  /\ fake' = FALSE
  /\ bh' = IF busy THEN <<"timer", "clear">> ELSE <<"timer", "drain">>
  /\ UNCHANGED <<cts, rts, skid, rx, rxUse, txVars, stopTx, timerOn, tif, th, main>>

TimerPoll ==
  /\ At("fake") /\ ~fake
  /\ bh' = <<"timer", IF cts THEN "clear" ELSE "restart">>
  /\ UNCHANGED <<cts, rts, skid, rx, rxUse, txVars, poll, th, main>>

TimerRestart ==
  /\ At("restart")
  /\ IF stopTx # 0 /\ ~Utxbf /\ txRing > 0
     THEN txHw' = txHw + 1 /\ txRing' = txRing - 1
     ELSE UNCHANGED <<txHw, txRing>>
  /\ timerOn' = FALSE /\ stopTx' = 0
  /\ bh' = <<"timer", "clear">>
  /\ UNCHANGED <<cts, rts, skid, rx, rxUse, txif, txie, tif, fake, th, main>>

(* _T1Interrupt clears its flag here, the others on entry. *)
TimerExit ==
  /\ At("clear")
  /\ tif' = (tif /\ ~FlagClearedLast)
  /\ bh' = <<"off", "off">>
  /\ UNCHANGED <<cts, rts, skid, rx, rxUse, txVars, stopTx, timerOn, fake, th, main>>

-----------------------------------------------------------------------------
(* The main program. *)
Step(from, to) == MainRuns /\ pc = from /\ pc' = to
sendOnly == <<cts, rts, skid, rx, rxUse, tif, fake, th, bh>>
readOnly == <<cts, skid, rxHw, rxif, txVars, poll, th, bh, flags, ret>>

(* uart_disable_rx_interrupt ... uart_enable_rx_interrupt *)
MaskRx ==
  /\ Step("out", "masked") \/ (pc = "masked" /\ ~th /\ ~rxif /\ BhIdle /\ pc' = "out")
  /\ UNCHANGED <<cts, rts, skid, rx, rxUse, txVars, poll, th, bh, flags, ret>>

(* The user takes a byte of its ring, then calls uart_read_pending_data.   *)
GetByte ==
  /\ rxRing > 0 /\ Step("out", "rpBusy")
  /\ rxRing' = rxRing - 1
  /\ UNCHANGED <<readOnly, rts, level, busy>>

RpBusy ==
  /\ Step("rpBusy", IF busy THEN "rp" ELSE "out")
  /\ UNCHANGED <<readOnly, rts, level, rxUse>>

RpTake ==
  /\ level > 0 /\ Step("rp", IF TakeRefused THEN "rpRtsLast" ELSE "rp")
  /\ Take
  /\ UNCHANGED <<readOnly, rts, busy>>

RpEmpty ==
  /\ level = 0 /\ Step("rp", "rpRts")
  /\ UNCHANGED <<readOnly, rts, level, rxUse>>

RpTestRetained ==  \* mutant: the peer is not let go when the program reads
  /\ Step("rpRts", "rpClear") \/ Step("rpRtsLast", "out")
  /\ UNCHANGED <<readOnly, rts, level, rxUse>>
RpTest ==
  /\ \/ Step("rpRts", IF level < STOP_RX_LEVEL THEN "rpLow" ELSE "rpClear")
     \/ Step("rpRtsLast", IF level < STOP_RX_LEVEL THEN "rpLowLast" ELSE "out")
  /\ UNCHANGED <<readOnly, rts, level, rxUse>>

RpRts ==
  /\ Step("rpLow", "rpClear") \/ Step("rpLowLast", "out")
  /\ rts' = FALSE /\ skid' = 0
  /\ UNCHANGED <<cts, rx, rxUse, txVars, poll, th, bh, flags, ret>>

RpClear ==
  /\ Step("rpClear", "out")
  /\ busy' = FALSE
  /\ UNCHANGED <<readOnly, rts, level, rxRing>>

(* serial_io_send_char: directly when the ring is empty, else by the ring. *)
SendCallDirect ==  \* mutant: the ring is not looked at
  /\ Step("out", "d1")
  /\ ret' = "direct"
  /\ UNCHANGED <<sendOnly, txVars, stopTx, timerOn, flags>>
SendCall ==
  /\ Step("out", IF txRing = 0 THEN "d1" ELSE "wait")
  /\ ret' = IF txRing = 0 THEN "direct" ELSE "wait"
  /\ UNCHANGED <<sendOnly, txVars, stopTx, timerOn, flags>>

(* uart_disable_tx_interrupt: "First Uart irq, then the timer". *)
DisableIrq ==
  /\ Step("d1", "d2")
  /\ txie' = FALSE
  /\ flags' = IF txie THEN {"irq"} ELSE {}
  /\ UNCHANGED <<sendOnly, txHw, txif, txRing, stopTx, timerOn, ret>>

AfterDisable == IF ret = "direct" THEN "cts" ELSE "append"
DisableTest ==
  /\ Step("d2", IF stopTx = 1 THEN "d3" ELSE AfterDisable)
  /\ UNCHANGED <<sendOnly, txVars, stopTx, timerOn, flags, ret>>

DisableTimer ==
  /\ Step("d3", "d4")
  /\ timerOn' = FALSE
  /\ UNCHANGED <<sendOnly, txVars, stopTx, flags, ret>>

DisableMark ==
  /\ Step("d4", AfterDisable)
  /\ stopTx' = 2 /\ flags' = flags \cup {"timer"}
  /\ UNCHANGED <<sendOnly, txVars, timerOn, ret>>

(* uart_transmit_byte *)
TransmitCts ==
  /\ Step("cts", IF cts THEN "e1" ELSE "utxbf")
  /\ IF cts THEN stopTx' = 1 /\ ret' = "poll" ELSE UNCHANGED <<stopTx, ret>>
  /\ UNCHANGED <<sendOnly, txVars, timerOn, flags>>

TransmitUtxbf ==
  /\ Step("utxbf", IF Utxbf THEN "e1" ELSE "txreg")
  /\ ret' = IF Utxbf THEN "wait" ELSE "out"
  /\ UNCHANGED <<sendOnly, txVars, stopTx, timerOn, flags>>

TransmitTxreg ==
  /\ Step("txreg", "e1")
  /\ txHw' = txHw + 1
  /\ UNCHANGED <<sendOnly, txif, txie, txRing, stopTx, timerOn, flags, ret>>

(* uart_enable_tx_interrupt *)
EnableIrq ==
  /\ Step("e1", "e2")
  /\ txie' = (txie \/ "irq" \in flags)
  /\ UNCHANGED <<sendOnly, txHw, txif, txRing, stopTx, timerOn, flags, ret>>

EnableMark ==
  /\ Step("e2", IF "timer" \in flags THEN "e3" ELSE ret)
  /\ stopTx' = IF "timer" \in flags THEN 1 ELSE stopTx
  /\ UNCHANGED <<sendOnly, txVars, timerOn, flags, ret>>

(* ... and the timer_enable of uart_transmit_byte. *)
EnableTimer ==
  /\ Step("e3", ret) \/ Step("poll", "wait")
  /\ timerOn' = TRUE
  /\ UNCHANGED <<sendOnly, txVars, stopTx, flags, ret>>

WaitForRoom ==
  /\ txRing < TxRing /\ Step("wait", "d1")
  /\ ret' = "append"
  /\ UNCHANGED <<sendOnly, txVars, stopTx, timerOn, flags>>

AppendByte ==
  /\ Step("append", "e1")
  /\ txRing' = txRing + 1 /\ ret' = "out"
  /\ UNCHANGED <<sendOnly, txHw, txif, txie, stopTx, timerOn, flags>>

-----------------------------------------------------------------------------
RxInterrupt == TopEnter \/ TopStore \/ TopEnd \/ BottomLoop
Drain == DrainTake \/ DrainTest \/ DrainRts \/ DrainBusy \/ DrainEmpty
TxInterrupt == TxEnter \/ TxCts \/ TxFill
TimerInterrupt == TimerEnter \/ TimerFake \/ TimerPoll \/ TimerRestart \/ TimerExit
ReadPending == RpBusy \/ RpTake \/ RpEmpty \/ RpTest \/ RpRts \/ RpClear
SendChar == \/ DisableIrq \/ DisableTest \/ DisableTimer \/ DisableMark
            \/ TransmitCts \/ TransmitUtxbf \/ TransmitTxreg
            \/ EnableIrq \/ EnableMark \/ EnableTimer \/ WaitForRoom \/ AppendByte
Interrupts == RxInterrupt \/ Drain \/ TxInterrupt \/ TimerInterrupt

Next == \/ PeerCts \/ ByteArrives \/ Shift \/ TimerExpires
        \/ Interrupts \/ MaskRx \/ GetByte \/ ReadPending \/ SendCall \/ SendChar

(* The hardware works; interrupts leave the main program time to execute   *)
(* (they may come again and again: strong fairness); and the program keeps *)
(* reading, whatever else it does in between.                              *)
Spec == /\ Init /\ [][Next]_vars
        /\ WF_vars(Interrupts) /\ WF_vars(Shift) /\ WF_vars(TimerExpires)
        /\ SF_vars(ReadPending \/ SendChar \/ (pc = "masked" /\ MaskRx))
        /\ SF_vars(GetByte)

-----------------------------------------------------------------------------
AtRest == pc = "out" /\ BhIdle /\ ~th /\ ~rxif

(* "flow control will not allow us to fill it completly" (l. 511) and the  *)
(* promise of the ring's callback: no buffer is written over, by any of    *)
(* its three writers.                                                      *)
NoOverrun ==
  /\ level \in 0 .. FIFO_SIZE /\ rxRing \in 0 .. RxRing
  /\ txHw \in 0 .. TxDepth /\ txRing \in 0 .. TxRing

(* A byte sent directly overtakes none in the ring: while the main program *)
(* is about to write UxTXREG, no callback has given it one (l. 287).       *)
NoOvertaking == pc = "txreg" => txRing = 0 /\ ~Utxbf

(* A byte in the internal FIFO that the user could take is going to be     *)
(* handed over: by the bottom half or by a forced timer interrupt.         *)
NothingLeftBehind == AtRest /\ ~busy /\ level > 0 => fake /\ tif

(* Bytes in the ring are going to be sent: the transmit interrupt will     *)
(* come, or the timer polls CTS.                                           *)
NeverStranded ==
  AtRest /\ txRing > 0 =>
    (txie /\ (txif \/ txHw > 0)) \/ (stopTx = 1 /\ timerOn) \/ tif

(* Two ends that hold each other off do not stay so: once the peer lets us *)
(* send, a program that keeps reading lets the peer send, again and again. *)
PeerLetGo == <>[]~cts => []<>~rts
=============================================================================
