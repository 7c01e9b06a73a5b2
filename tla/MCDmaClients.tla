---------------------------- MODULE MCDmaClients ----------------------------
(***************************************************************************)
(* The three clients of the DMA wrapper, each in a behaviour of its own:   *)
(* they share no channel, and only the SPI uses the count of the idle mode *)
(* together with someone else (its other device).                          *)
(***************************************************************************)
EXTENDS Dma

CONSTANTS RxOnlyOn, Words, MaxTransfers, dma_channel_l, dma_channel_r, StopInCallback,
          Inputs, InitAnyTime

(* The channels: one and its neighbour for each device or side.             *)
RxChannel  == [d \in {"SPI_1", "SPI_2"} |-> IF d = "SPI_1" THEN 0 ELSE 2]
TxChannel  == [d \in {"SPI_1", "SPI_2"} |-> IF d = "SPI_1" THEN 1 ELSE 3]
ScanChannel == [a \in {1, 2} |-> a - 1]

ASSUME ClientsAssumption ==
  /\ Channels \subseteq 0 .. 7 /\ {dma_channel_l, dma_channel_r} \subseteq Channels
  /\ 0 .. 3 \subseteq Channels /\ dma_channel_l # dma_channel_r
  /\ MaxIdle \in Nat /\ Words \in Nat \ {0} /\ MaxTransfers \in Nat
  /\ RxOnlyOn \subseteq {"SPI_1", "SPI_2"} /\ Inputs \subseteq Nat
  /\ Prompt \in BOOLEAN /\ StopInCallback \in BOOLEAN /\ InitAnyTime \in BOOLEAN

(* None is neither a callback nor an interrupt being served.                *)
Callbacks == {"SPI_1", "SPI_2", "callback_dma", "scan"}
Served == [channel : Channels, callback : Callbacks \cup {None}, first : BOOLEAN]
ASSUME NoneAssumption == None \notin Callbacks \cup Served

VARIABLES client,
  rxtx, waiting, callback, ss, shifting, toSend, toReceive, nullWrite, txReq, call, cbAt, active,
  started, dacen, dacAt,
  adon, adif, adie, simple_channel, ch0sa, conv, buf, adcIsr, start, scan

S == INSTANCE Spi WITH dma_rx <- RxChannel, dma_tx <- TxChannel
D == INSTANCE Dac
A == INSTANCE Adc WITH AdcChannel <- ScanChannel

spi == <<rxtx, waiting, callback, ss, shifting, toSend, toReceive, nullWrite, txReq, call, cbAt,
         active, started>>
dac == <<dacen, dacAt>>
adc == <<adon, adif, adie, simple_channel, ch0sa, conv, buf, adcIsr, start, scan>>
vars == <<client, dmaVars, spi, dac, adc>>

Init == client \in {"spi", "dac", "adc"} /\ S!SpiInit /\ D!DacInit /\ A!AdcInit
Next ==
  /\ UNCHANGED client
  /\ \/ client = "spi" /\ S!SpiNext /\ UNCHANGED <<dac, adc>>
     \/ client = "dac" /\ D!DacNext /\ UNCHANGED <<spi, adc>>
     \/ client = "adc" /\ A!AdcNext /\ UNCHANGED <<spi, dac>>
Spec == Init /\ [][Next]_vars /\ (client = "spi" => S!SpiFairness)

(* The properties of the clients, stated and explained in their modules:    *)
(* spi.c:170-171; spi.c:68-90, adc.c:245-389 with dma.c:429-556; spi.c:418-428;           *)
(* adc.c:679-708; BufferTrue, of dma.c:618-734, comes with Dma.             *)
SelectedWhileClocked == S!SelectedWhileClocked
IdleHonest  == (client = "spi" => S!IdleHonest) /\ (client = "adc" => A!ScanIdleHonest)
SyncReturns == S!SyncReturns
Labelled    == A!Labelled
=============================================================================
