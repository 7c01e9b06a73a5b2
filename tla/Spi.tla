-------------------------------- MODULE Spi --------------------------------
(***************************************************************************)
(* The SPI masters over DMA (spi/spi.c): transfers started by the program, *)
(* which may wait for the end, and by the callback of an earlier transfer. *)
(* The two devices share the count of the idle mode.                       *)
(***************************************************************************)
EXTENDS Dma, FiniteSets

CONSTANTS
  dma_rx, dma_tx, \* channels of each device
  RxOnlyOn,       \* devices asked for transfers without a tx buffer
  Words,          \* words of a transfer
  MaxTransfers    \* transfers started in all (bound)

Devices == {"SPI_1", "SPI_2"}

VARIABLES
  rxtx, waiting, callback, \* fields of spi_status
  ss,         \* the slave select pins that are low
  shifting,   \* devices whose shift register is clocking a word
  toSend,     \* words the tx channel has not moved to the device yet
  toReceive,  \* words the rx channel has not taken yet
  nullWrite,  \* devices whose rx channel writes a null for each word it takes
  txReq,      \* devices whose tx channel is asked for a word
  call,       \* spi_start_transfert in progress: the program's, the callback's
  cbAt,       \* where the DMA callback is
  active,     \* devices with a transfer: called, and not called back
  started     \* transfers started so far

status  == <<rxtx, waiting, callback>>
spiHw   == <<shifting, toSend, toReceive, nullWrite, txReq>>
run     == <<cbAt, active, started>>
spiVars == <<dmaVars, status, ss, spiHw, call, run>>

Callers == {"program", "callback"}
NoCall == [at |-> "none", spi_id |-> "SPI_1", tx |-> TRUE, sync |-> FALSE]

SpiInit ==
  /\ DmaInit
  /\ rxtx = [d \in Devices |-> {}] /\ waiting = [d \in Devices |-> FALSE]
  /\ callback = [d \in Devices |-> "none"] /\ ss = {} /\ shifting = {}
  /\ toSend = [d \in Devices |-> 0] /\ toReceive = [d \in Devices |-> 0]
  /\ nullWrite = {} /\ txReq = {}
  /\ call = [x \in Callers |-> NoCall]
  /\ cbAt = "none" /\ active = {} /\ started = 0

(* The program runs when no interrupt does.                                 *)
Runs(x) == IF x = "program" THEN isr = None /\ ~SomePending ELSE isr # None
At(x, d, place) == Runs(x) /\ call[x].spi_id = d /\ call[x].at = place
Goto(x, place) == call' = [call EXCEPT ![x].at = place]

(* spi_start_transfert and spi_transfert_sync are called, on a device       *)
(* without a transfer; the latter sets waiting before the transfer can end. *)
CallAllowed(x, d, tx) ==
  /\ started < MaxTransfers /\ d \notin active /\ (tx \/ d \in RxOnlyOn)
  /\ Runs(x) /\ call[x].at = "none" /\ (x = "callback" => cbAt = "user")

SpiCall(x, d, tx, sync) ==
  /\ CallAllowed(x, d, tx)
  /\ waiting' = IF sync THEN [waiting EXCEPT ![d] = TRUE] ELSE waiting
  /\ active' = active \cup {d}
  /\ call' = [call EXCEPT ![x] = [at |-> "rx", spi_id |-> d, tx |-> tx, sync |-> sync]]
  /\ started' = started + 1
  /\ UNCHANGED <<dmaVars, rxtx, callback, ss, spiHw, cbAt>>
spi_start_transfert == \E x \in Callers, d \in Devices, tx \in BOOLEAN : SpiCall(x, d, tx, FALSE)
spi_transfert_sync  == \E d \in Devices, tx \in BOOLEAN : SpiCall("program", d, tx, TRUE)

(* mutant: the interrupt of the tx channel ends the transfer                *)
CallbackOnTx(d, channel) == IF channel = dma_tx[d] THEN d ELSE None

(* The rx channel has the interrupt: the tx channel is done while the last  *)
(* word is still in the shift register.  A callback is named by its device. *)
CallbackOf(d, channel) == IF channel = dma_rx[d] THEN d ELSE None

SetupRx(x, d) ==
  /\ At(x, d, "rx") /\ Goto(x, "rx_on")
  /\ dma_init_channel(dma_rx[d], "one_shot", CallbackOf(d, dma_rx[d]))
  /\ rxtx' = [rxtx EXCEPT ![d] = IF call[x].tx THEN {"tx"} ELSE {"rx"}]
  /\ nullWrite' = IF call[x].tx THEN nullWrite \ {d} ELSE nullWrite \cup {d}
  /\ toReceive' = [toReceive EXCEPT ![d] = Words]
  /\ UNCHANGED <<waiting, callback, ss, shifting, toSend, txReq, run>>

EnableRx(x, d) ==
  /\ At(x, d, "rx_on") /\ Goto(x, IF call[x].tx THEN "tx" ELSE "select")
  /\ dma_enable_channel(dma_rx[d])
  /\ rxtx' = [rxtx EXCEPT ![d] = @ \cup {"rx"}]
  /\ UNCHANGED <<waiting, callback, ss, spiHw, run>>

SetupTx(x, d) ==
  /\ At(x, d, "tx") /\ Goto(x, "tx_on")
  /\ dma_init_channel(dma_tx[d], "one_shot", CallbackOf(d, dma_tx[d]))
  /\ toSend' = [toSend EXCEPT ![d] = Words]
  /\ UNCHANGED <<status, ss, shifting, toReceive, nullWrite, txReq, run>>

EnableTx(x, d) ==
  /\ At(x, d, "tx_on") /\ Goto(x, "select")
  /\ dma_enable_channel(dma_tx[d])
  /\ UNCHANGED <<status, ss, spiHw, run>>

(* The callback and the pin are stored and the slave is selected.           *)
Select(x, d) ==
  /\ At(x, d, "select") /\ Goto(x, "go")
  /\ callback' = [callback EXCEPT ![d] = IF call[x].sync THEN "spi_dummy_wait" ELSE "user"]
  /\ ss' = ss \cup {d}
  /\ UNCHANGED <<dmaVars, rxtx, waiting, spiHw, run>>

(* The first word: the tx channel is forced, or a null is written to        *)
(* SPI1BUF, whichever device the transfer is on.                            *)
Go(x, d) ==
  /\ At(x, d, "go")
  /\ call' = [call EXCEPT ![x] = IF @.sync THEN [@ EXCEPT !.at = "wait"] ELSE NoCall]
  /\ IF call[x].tx THEN txReq' = txReq \cup {d} /\ UNCHANGED shifting
                   ELSE shifting' = shifting \cup {"SPI_1"} /\ UNCHANGED txReq
  /\ UNCHANGED <<dmaVars, status, ss, toSend, toReceive, nullWrite, run>>

(* The end of the busy wait.                                                *)
SyncDone(d) ==
  /\ At("program", d, "wait") /\ ~waiting[d]
  /\ call' = [call EXCEPT !["program"] = NoCall]
  /\ UNCHANGED <<dmaVars, status, ss, spiHw, run>>

(* Hardware: the tx channel answers a request with a word, the last of      *)
(* which completes it; a word has been shifted, the rx channel takes it and *)
(* both channels are asked for the next.                                    *)
MoveTx(d) ==
  /\ d \in txReq /\ dma[dma_tx[d]].chen /\ d \notin shifting
  /\ txReq' = txReq \ {d} /\ shifting' = shifting \cup {d}
  /\ toSend' = [toSend EXCEPT ![d] = @ - 1]
  /\ IF toSend[d] = 1 THEN Complete(dma_tx[d]) ELSE UNCHANGED dmaVars
  /\ UNCHANGED <<status, ss, toReceive, nullWrite, call, run>>

Shifted(d) ==
  /\ d \in shifting
  /\ toReceive' = [toReceive EXCEPT ![d] = IF @ > 0 THEN @ - 1 ELSE 0]
  /\ IF toReceive[d] = 1 THEN Complete(dma_rx[d]) ELSE UNCHANGED dmaVars
  /\ shifting' = IF d \in nullWrite /\ toReceive[d] > 1 THEN shifting ELSE shifting \ {d}
  /\ txReq' = IF d \notin nullWrite /\ toSend[d] > 0 THEN txReq \cup {d} ELSE txReq
  /\ UNCHANGED <<status, ss, toSend, nullWrite, call, run>>

(* The DMA callbacks: the slave is deselected, the channels named by *)
(* rxtx are released, the callback is called; it may start transfers.       *)
Deselect(d) ==
  /\ cbAt = "none" /\ (EnterIsr(dma_rx[d]) \/ EnterIsr(dma_tx[d])) /\ isr'.callback = d
  /\ cbAt' = "tx" /\ ss' = ss \ {d}
  /\ UNCHANGED <<status, spiHw, call, active, started>>

(* mutant: the callback forgets the tx channel                              *)
ReleaseRxOnly(d, at) ==
  /\ Serving(d) /\ cbAt = at
  /\ cbAt' = IF at = "tx" THEN "rx" ELSE "call"
  /\ IF at = "rx" /\ at \in rxtx[d] THEN dma_disable_channel(dma_rx[d]) ELSE UNCHANGED dmaVars
  /\ UNCHANGED <<status, ss, spiHw, call, active, started>>

Release(d, at) ==
  /\ Serving(d) /\ cbAt = at
  /\ cbAt' = IF at = "tx" THEN "rx" ELSE "call"
  /\ IF at \in rxtx[d] THEN dma_disable_channel(IF at = "tx" THEN dma_tx[d] ELSE dma_rx[d])
                       ELSE UNCHANGED dmaVars
  /\ UNCHANGED <<status, ss, spiHw, call, active, started>>

(* mutant: both callbacks hand SPI_1 to spi_dummy_wait                      *)
CallBackCopied(d) ==
  /\ Serving(d) /\ cbAt = "call"
  /\ IF callback[d] = "spi_dummy_wait"
       THEN cbAt' = "done" /\ waiting' = [waiting EXCEPT !["SPI_1"] = FALSE]
       ELSE cbAt' = "user" /\ UNCHANGED waiting
  /\ active' = active \ {d}
  /\ UNCHANGED <<dmaVars, rxtx, callback, ss, spiHw, call, started>>

(* The callback: spi_dummy_wait, or the user's.                             *)
CallBack(d) ==
  /\ Serving(d) /\ cbAt = "call"
  /\ IF callback[d] = "spi_dummy_wait"
       THEN cbAt' = "done" /\ waiting' = [waiting EXCEPT ![d] = FALSE]
       ELSE cbAt' = "user" /\ UNCHANGED waiting
  /\ active' = active \ {d}
  /\ UNCHANGED <<dmaVars, rxtx, callback, ss, spiHw, call, started>>

SpiReturn ==
  /\ cbAt \in {"done", "user"} /\ call["callback"].at = "none"
  /\ LeaveIsr /\ cbAt' = "none"
  /\ UNCHANGED <<status, ss, spiHw, call, active, started>>

Transfert(d) ==
  \E x \in Callers : SetupRx(x, d) \/ EnableRx(x, d) \/ SetupTx(x, d) \/ EnableTx(x, d)
                     \/ Select(x, d) \/ Go(x, d)
Transfert1 == Transfert("SPI_1")
Transfert2 == Transfert("SPI_2")
DmaCallback(d) == Deselect(d) \/ CallBack(d) \/ \E at \in {"tx", "rx"} : Release(d, at)
spi1_dma_cb == DmaCallback("SPI_1")
spi2_dma_cb == DmaCallback("SPI_2")
Hardware(d) == MoveTx(d) \/ Shifted(d)

SpiNext ==
  \/ spi_start_transfert \/ spi_transfert_sync \/ SpiReturn
  \/ Transfert1 \/ Transfert2 \/ spi1_dma_cb \/ spi2_dma_cb
  \/ \E d \in Devices : SyncDone(d) \/ Hardware(d)

(* A device that has been started clocks its words, and code that can run   *)
(* is run.                                                                  *)
SpiFairness ==
  /\ WF_spiVars(SpiReturn)
  /\ \A d \in Devices : /\ WF_spiVars(Transfert(d) \/ SyncDone(d) \/ DmaCallback(d))
                        /\ WF_spiVars(Hardware(d))

(* The slave stays selected until the last word of the transfer is through: *)
(* the comment of spi.c:170-171 on why the rx channel carries the interrupt.*)
SelectedWhileClocked == shifting \subseteq ss

(* Errata 38: while a word moves the idle mode is forbidden, and once every *)
(* transfer is over, started from wherever, it is allowed again: what the   *)
(* calls of clock_disable_idle and clock_enable_idle add up to over the     *)
(* channels of both devices (dma.c:429-556, spi.c:68-90).                   *)
IdleHonest ==
  /\ shifting # {} => idle > 0
  /\ active = {} /\ cbAt = "none" => idle = 0

(* spi_transfert_sync returns (spi.c:418-428), whatever transfers the other *)
(* device runs and its callbacks start.                                     *)
SyncReturns == \A d \in Devices :
  (call["program"].at = "wait" /\ call["program"].spi_id = d) ~> (call["program"].at # "wait")
=============================================================================
