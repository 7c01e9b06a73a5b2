------------------------------ MODULE SerialTx ------------------------------
(***************************************************************************)
(* The transmit half of a serial stream: serial_io_send_char, the ring it  *)
(* shares with the transmit interrupt, uart_transmit_byte, the masking of  *)
(* the interrupt and _U1TXInterrupt / _U2TXInterrupt, over the transmit    *)
(* FIFO and shift register of the dsPIC33 UART.                            *)
(*                                                                         *)
(* Interleaving: the main program takes a step only when no enabled        *)
(* transmit interrupt is pending or running; the UART moves at any time.   *)
(*                                                                         *)
(* Time: the source argues from time ("the following instruction execute   *)
(* faster that the transmission of 4 bytes").  Patience is that argument:  *)
(* how many bytes the shift register can take from the FIFO while the main *)
(* program is between its first look at the ring and the end of            *)
(* serial_io_send_char, Idle() excepted, or while an interrupt waits for   *)
(* its service.  A long interrupt of a higher priority is a large Patience.*)
(***************************************************************************)
EXTENDS Integers, Sequences

CONSTANTS
  N,          \* SERIAL_IO_BUFFERS_SIZE, the slots of the ring
  FifoDepth,  \* places in the UART's transmit FIFO: 4
  Ids,        \* distinct byte identifiers
  Patience    \* bytes that leave the FIFO during the steps the code calls fast

ASSUME TxAssumption ==
  /\ N \in Nat /\ N >= 2
  /\ FifoDepth \in Nat \ {0}
  /\ Ids \in Nat /\ Ids > N + FifoDepth
  /\ Patience \in Nat \ {0}

VARIABLES
  ring,         \* transmission_buffer
  writePos,     \* transmission_buffer_write_pos, moved by the main program
  transmitPos,  \* transmission_buffer_transmit_pos, moved by the interrupt
  txFifo,       \* the UART's transmit FIFO, filled through UxTXREG
  tsr,          \* the transmit shift register, NoByte when idle
  wire,         \* the byte last shifted out completely
  txif, txie,   \* UxTXIF and UxTXIE
  isr,          \* where the transmit interrupt is: "off", "callback", "txreg"
  isrData,      \* the local variable data of the interrupt
  pc,           \* where the main program is in serial_io_send_char
  flags,        \* what uart_disable_tx_interrupt returned
  next,         \* the argument c of the current or of the next call
  lag           \* bytes shifted since the current fast stretch began

ringVars == <<ring, writePos, transmitPos>>
uartVars == <<txFifo, tsr, wire, txif, txie>>
isrVars  == <<isr, isrData>>
mainVars == <<pc, flags, next>>
vars == <<ringVars, uartVars, isrVars, mainVars, lag>>

NoByte == -1
Byte   == 0 .. Ids - 1
Slot   == 0 .. N - 1

MainPc == {"out", "empty", "utxbf", "txreg", "full", "doze", "asleep",
           "mask", "append", "unmask"}

(* Positions of the ring. *)
AfterUnwrapped(p) == p + 1  \* mutant: the modulo is forgotten
After(p)  == (p + 1) % N
RingEmpty == writePos = transmitPos
RingFull  == After(writePos) = transmitPos
RingCount == (writePos - transmitPos) % N

(* UxSTAbits.UTXBF *)
Utxbf == Len(txFifo) = FifoDepth

(* A write of UxTXREG: it goes straight to an idle shift register, which    *)
(* raises the interrupt, and is ignored by the UART when the FIFO is full.   *)
WriteTxreg(b) ==
  \/ tsr = NoByte /\ tsr' = b /\ txif' = TRUE /\ UNCHANGED txFifo
  \/ tsr # NoByte /\ ~Utxbf /\ txFifo' = Append(txFifo, b) /\ UNCHANGED <<tsr, txif>>
  \/ tsr # NoByte /\ Utxbf /\ UNCHANGED <<txFifo, tsr, txif>>

(* An enabled transmit interrupt preempts the main program. *)
MainRuns == isr = "off" /\ ~(txif /\ txie)

Init ==
  /\ ring = [s \in Slot |-> NoByte]
  /\ writePos = 0 /\ transmitPos = 0
  /\ txFifo = << >> /\ tsr = NoByte /\ wire = NoByte
  /\ txif = FALSE /\ txie = TRUE
  /\ isr = "off" /\ isrData = NoByte
  /\ pc = "out" /\ flags = FALSE /\ next = 0
  /\ lag = 0

-----------------------------------------------------------------------------
(* The UART. *)

(* The stretches the code wants short: from a transmit interrupt request, or *)
(* a call of serial_io_send_char, until the interrupt is served and the call *)
(* has returned or sleeps in Idle().                                         *)
Hurried == pc \notin {"out", "asleep"} \/ isr # "off" \/ (txif /\ txie)
Pace == lag' = IF Hurried' THEN lag ELSE 0

(* A byte has been shifted out.  The shift register takes the next one from  *)
(* the FIFO at once: with UTXISEL = 0 that raises the transmit interrupt.    *)
Shift ==
  /\ tsr # NoByte
  /\ Hurried => lag < Patience
  /\ wire' = tsr
  /\ IF txFifo = << >>
     THEN tsr' = NoByte /\ UNCHANGED <<txFifo, txif>>
     ELSE tsr' = Head(txFifo) /\ txFifo' = Tail(txFifo) /\ txif' = TRUE
  /\ UNCHANGED <<ringVars, txie, isrVars, mainVars>>
  /\ lag' = IF Hurried' THEN lag + 1 ELSE 0

-----------------------------------------------------------------------------
(* The transmit interrupt. *)

(* Entry clears the flag; it ends an Idle() of the main program. *)
IsrEnter ==
  /\ isr = "off" /\ txif /\ txie
  /\ txif' = FALSE
  /\ isr' = "callback"
  /\ pc' = IF pc = "asleep" THEN "full" ELSE pc
  /\ UNCHANGED <<ringVars, txFifo, tsr, wire, txie, isrData, flags, next>>
  /\ Pace

(* tx_ready_callback = serial_io_byte_transmitted *)
IsrCallbackEmpty ==
  /\ isr = "callback" /\ RingEmpty
  /\ isr' = "off"
  /\ UNCHANGED <<ringVars, uartVars, isrData, mainVars>>
  /\ Pace

IsrCallbackData ==
  /\ isr = "callback" /\ ~RingEmpty
  /\ isrData' = ring[transmitPos]
  /\ transmitPos' = After(transmitPos)
  /\ isr' = "txreg"
  /\ UNCHANGED <<ring, writePos, uartVars, mainVars>>
  /\ Pace

(* The interrupt writes UxTXREG without a look at UTXBF. *)
IsrTxreg ==
  /\ isr = "txreg"
  /\ WriteTxreg(isrData)
  /\ isrData' = NoByte
  /\ isr' = "off"
  /\ UNCHANGED <<ringVars, wire, txie, mainVars>>
  /\ Pace

-----------------------------------------------------------------------------
(* The main program, in serial_io_send_char(state, next). *)

Goto(from, to) == MainRuns /\ pc = from /\ pc' = to

SendCall ==
  /\ Goto("out", "empty")
  /\ UNCHANGED <<ringVars, uartVars, isrVars, flags, next>>
  /\ Pace

(* mutants: a character overtakes the ring; a character never goes direct *)
TestNothing == /\ Goto("empty", "utxbf")
               /\ UNCHANGED <<ringVars, uartVars, isrVars, flags, next>> /\ Pace
AlwaysQueue == /\ Goto("empty", "full")
               /\ UNCHANGED <<ringVars, uartVars, isrVars, flags, next>> /\ Pace
TestRingEmpty ==
  /\ Goto("empty", IF RingEmpty THEN "utxbf" ELSE "full")
  /\ UNCHANGED <<ringVars, uartVars, isrVars, flags, next>>
  /\ Pace

(* uart_transmit_byte, its test *)
TestUtxbfBlind == /\ Goto("utxbf", "txreg")  \* mutant: no test of UTXBF
                  /\ UNCHANGED <<ringVars, uartVars, isrVars, flags, next>> /\ Pace
TestUtxbf ==
  /\ Goto("utxbf", IF Utxbf THEN "full" ELSE "txreg")
  /\ UNCHANGED <<ringVars, uartVars, isrVars, flags, next>>
  /\ Pace

(* uart_transmit_byte, its write; serial_io_send_char returns *)
SendDirect ==
  /\ Goto("txreg", "out")
  /\ WriteTxreg(next)
  /\ next' = (next + 1) % Ids
  /\ UNCHANGED <<ringVars, wire, txie, isrVars, flags>>
  /\ Pace

TestRingFull ==
  /\ Goto("full", IF RingFull THEN "doze" ELSE "mask")
  /\ UNCHANGED <<ringVars, uartVars, isrVars, flags, next>>
  /\ Pace

(* Idle() sleeps until an interrupt. *)
IdleSleep ==
  /\ Goto("doze", "asleep")
  /\ UNCHANGED <<ringVars, uartVars, isrVars, flags, next>>
  /\ Pace

(* mutant: the interrupt's previous state is reported wrongly *)
DisableForGood == /\ Goto("mask", "append") /\ flags' = FALSE /\ txie' = FALSE
                  /\ UNCHANGED <<ringVars, txFifo, tsr, wire, txif, isrVars, next>>
                  /\ Pace
DisableTxInterrupt ==
  /\ Goto("mask", "append")
  /\ flags' = txie /\ txie' = FALSE
  /\ UNCHANGED <<ringVars, txFifo, tsr, wire, txif, isrVars, next>>
  /\ Pace

AppendToRing ==
  /\ Goto("append", "unmask")
  /\ ring' = [ring EXCEPT ![writePos] = next]
  /\ writePos' = After(writePos)
  /\ next' = (next + 1) % Ids
  /\ UNCHANGED <<transmitPos, uartVars, isrVars, flags>>
  /\ Pace

NeverEnable == /\ Goto("unmask", "out")  \* mutant: the interrupt stays masked
               /\ UNCHANGED <<ringVars, uartVars, isrVars, flags, next>> /\ Pace
EnableTxInterrupt ==
  /\ Goto("unmask", "out")
  /\ txie' = flags
  /\ UNCHANGED <<ringVars, txFifo, tsr, wire, txif, isrVars, flags, next>>
  /\ Pace

-----------------------------------------------------------------------------
Isr  == IsrEnter \/ IsrCallbackEmpty \/ IsrCallbackData \/ IsrTxreg
SendChar == \/ TestRingEmpty \/ TestUtxbf \/ SendDirect \/ TestRingFull
            \/ IdleSleep \/ DisableTxInterrupt \/ AppendToRing
            \/ EnableTxInterrupt

Next == Shift \/ Isr \/ SendCall \/ SendChar

(* The UART shifts, the processor executes the interrupt and the code of   *)
(* serial_io_send_char; only the application decides when to call it.      *)
Spec == /\ Init /\ [][Next]_vars
        /\ WF_vars(Shift)
        /\ WF_vars(Isr) /\ WF_vars(SendChar)

-----------------------------------------------------------------------------
(* The bytes between serial_io_send_char and the line, oldest first. *)
RingSeq == [i \in 1 .. RingCount |-> ring[(transmitPos + i - 1) % N]]
Held(b) == IF b = NoByte THEN << >> ELSE <<b>>
InFlight == Held(tsr) \o txFifo \o Held(isrData) \o RingSeq

(* Every variable has its type. *)
TypeOK ==
  /\ ring \in [Slot -> Byte \cup {NoByte}]
  /\ writePos \in Slot /\ transmitPos \in Slot
  /\ txFifo \in Seq(Byte) /\ Len(txFifo) <= FifoDepth
  /\ tsr \in Byte \cup {NoByte} /\ wire \in Byte \cup {NoByte}
  /\ txif \in BOOLEAN /\ txie \in BOOLEAN
  /\ isr \in {"off", "callback", "txreg"}
  /\ isrData \in Byte \cup {NoByte}
  /\ pc \in MainPc /\ flags \in BOOLEAN /\ next \in Byte
  /\ lag \in 0 .. Patience

(* UxTXREG is never written while the transmit FIFO is full: not by         *)
(* uart_transmit_byte, whose test of UTXBF an interrupt may have made stale, *)
(* and not by the interrupt, which does not test at all (uart.c:414-415).    *)
TxregHasRoom == (isr = "txreg" \/ pc = "txreg") => ~Utxbf

(* A ring that holds bytes is going to be emptied: an interrupt is pending   *)
(* or running, or the FIFO still holds a byte whose departure raises one.    *)
(* This is the "data will be transmitted correctly" of serial-io.c:312-315.  *)
NeverStranded == ~RingEmpty => txif \/ isr # "off" \/ txFifo # << >>

(* The two writers of UxTXREG, the ring and the FIFO together are one FIFO   *)
(* stream: bytes leave the shift register in the order of the calls of       *)
(* serial_io_send_char, none lost, repeated or overtaken.                    *)
Stream == INSTANCE ByteStream WITH
  queue <- InFlight, out <- wire, Capacity <- N + FifoDepth, Lossy <- FALSE
IsStream == Stream!Spec

(* Every byte given to serial_io_send_char gets onto the line, even if the   *)
(* program never sends another one.                                          *)
EveryByteSent == \A b \in Byte :
  (\E i \in DOMAIN InFlight : InFlight[i] = b) ~> (wire = b)

(* "If the buffer is full, waits until there is room" (serial-io.c:292): the *)
(* wait ends, whatever interrupt does or does not wake Idle().               *)
SendCharReturns == (pc # "out") ~> (pc = "out")
=============================================================================
