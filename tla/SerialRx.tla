------------------------------ MODULE SerialRx ------------------------------
(***************************************************************************)
(* The receive half of a serial stream: _U1RXInterrupt / _U2RXInterrupt    *)
(* with the callback serial_io_byte_received, and serial_io_get_char with  *)
(* uart_read_pending_data, which takes over the emptying of the UART after *)
(* the callback has refused a byte (user_program_busy).                    *)
(*                                                                         *)
(* Interleaving: the main program takes a step only when no receive        *)
(* interrupt is pending or running; bytes arrive at any time.              *)
(***************************************************************************)
EXTENDS Integers, Sequences

CONSTANTS
  N,           \* SERIAL_IO_BUFFERS_SIZE, the slots of the ring
  FifoDepth,   \* places in the UART's receive FIFO: 4
  Ids,         \* distinct byte identifiers
  FlowControl, \* UEN = 2: the peer is held off while the FIFO is full
  Overruns,    \* TRUE: a byte may overrun the FIFO nevertheless, "possible
               \* despite the use of hardware handshake" (uart.c:396)
  Noisy,       \* bytes with a framing error may arrive
  IdleSleeps,  \* FALSE after clock_disable_idle(): Idle() then returns at once
  BeforeTest,  \* bytes that may arrive while uart_read_pending_data is between
               \* its caller's move of read_pos and its test of user_program_busy
  BeforeClear, \* bytes that may arrive between its last look at URXDA and its
               \* user_program_busy = false
  BeforeIdle   \* bytes that may arrive between the test of the ring and Idle()

ASSUME RxAssumption ==
  /\ N \in Nat /\ N >= 2
  /\ FifoDepth \in Nat \ {0}
  /\ Ids \in Nat /\ Ids > N + FifoDepth
  /\ FlowControl \in BOOLEAN /\ Overruns \in BOOLEAN
  /\ Noisy \in BOOLEAN /\ IdleSleeps \in BOOLEAN
  /\ BeforeTest \in Nat /\ BeforeClear \in Nat /\ BeforeIdle \in Nat

VARIABLES
  ring,          \* reception_buffer
  receptionPos,  \* reception_buffer_reception_pos, moved by the callback
  readPos,       \* reception_buffer_read_pos, moved by the main program
  rxFifo,        \* the UART's receive FIFO; URXDA is "not empty"
  oerr,          \* UxSTAbits.OERR: while set the UART takes no byte
  rxif,          \* UxRXIF (UxRXIE stays 1)
  busy,          \* UART_x_Data.user_program_busy
  isr,           \* where the interrupt is: "off", "poll", "oerr"
  pc,            \* where the main program is in serial_io_get_char
  c,             \* its local variable c
  next,          \* the byte the peer sends next
  out,           \* the last byte serial_io_get_char returned, noise apart
  late           \* bytes arrived in the current one of these three windows

ringVars == <<ring, receptionPos, readPos>>
uartVars == <<rxFifo, oerr, rxif>>
mainVars == <<pc, c, out>>
vars == <<ringVars, uartVars, busy, isr, mainVars, next, late>>

NoByte == -1
Noise  == -2
Byte   == 0 .. Ids - 1
Slot   == 0 .. N - 1

MainPc == {"out", "data", "doze", "asleep", "read", "advance", "pending",
           "urxda", "clear"}

After(p)  == (p + 1) % N
RingEmpty == readPos = receptionPos
RingFull  == After(receptionPos) = readPos
RingCount == (receptionPos - readPos) % N
Urxda     == rxFifo # << >>

(* A pending receive interrupt preempts the main program. *)
MainRuns == isr = "off" /\ ~rxif

(* The windows of uart_read_pending_data and serial_io_peek_char in which   *)
(* an interrupt changes what the main program has just looked at, or is    *)
(* about to.                                                               *)
Window == [p \in {"pending", "clear", "doze"} |->
             CASE p = "pending" -> BeforeTest
               [] p = "clear"   -> BeforeClear
               [] p = "doze"    -> BeforeIdle]
InWindow == pc \in DOMAIN Window

Init ==
  /\ ring = [s \in Slot |-> NoByte]
  /\ receptionPos = 0 /\ readPos = 0
  /\ rxFifo = << >> /\ oerr = FALSE /\ rxif = FALSE
  /\ busy = FALSE /\ isr = "off"
  /\ pc = "out" /\ c = NoByte /\ out = NoByte
  /\ next = 0 /\ late = 0

-----------------------------------------------------------------------------
(* The UART and the peer. *)

(* What a byte on the line does to the FIFO: it is stored and raises the   *)
(* interrupt (URXISEL = 0), or overruns a full FIFO, or is not seen at all *)
(* because an earlier overrun has not been cleared.                        *)
Receive(b) ==
  \/ /\ ~oerr /\ Len(rxFifo) < FifoDepth
     /\ rxFifo' = Append(rxFifo, b) /\ rxif' = TRUE
     /\ UNCHANGED oerr
  \/ /\ ~oerr /\ Len(rxFifo) = FifoDepth
     /\ oerr' = TRUE
     /\ UNCHANGED <<rxFifo, rxif>>
  \/ /\ oerr
     /\ UNCHANGED uartVars

(* The handshake stops the peer at a full FIFO: in time, or with one byte  *)
(* already on its way.                                                     *)
Line ==
  /\ FlowControl => Len(rxFifo) < FifoDepth \/ (Overruns /\ ~oerr)
  /\ InWindow => late < Window[pc]
  /\ late' = IF InWindow THEN late + 1 ELSE 0
  /\ UNCHANGED <<ringVars, busy, isr, mainVars>>

ByteArrives ==
  /\ Receive(next) /\ next' = (next + 1) % Ids
  /\ Line

NoiseArrives ==
  /\ Noisy
  /\ Receive(Noise) /\ UNCHANGED next
  /\ Line

-----------------------------------------------------------------------------
(* byte_received_callback = serial_io_byte_received: stores the byte and   *)
(* returns FALSE when that was the last free slot.                         *)
Store(b) ==
  /\ ring' = [ring EXCEPT ![receptionPos] = b]
  /\ receptionPos' = After(receptionPos)
  /\ UNCHANGED readPos
RefusesLate == After(receptionPos) = readPos  \* mutant: tests before it advances
Refuses == After(After(receptionPos)) = readPos

(* UxRXREG *)
TakeRxreg == rxFifo' = Tail(rxFifo) /\ UNCHANGED oerr

(* The receive interrupt. *)

(* Entry clears the flag, tests user_program_busy and ends an Idle().      *)
IsrEnter ==
  /\ isr = "off" /\ rxif
  /\ rxif' = FALSE
  /\ isr' = IF busy THEN "off" ELSE "poll"
  /\ pc' = IF pc = "asleep" THEN "data" ELSE pc
  /\ UNCHANGED <<ringVars, rxFifo, oerr, busy, c, out, next, late>>

IsrStoreDeaf ==  \* mutant: the callback's refusal is ignored
  /\ isr = "poll" /\ Urxda /\ Head(rxFifo) # Noise
  /\ rxif' = FALSE
  /\ TakeRxreg /\ Store(Head(rxFifo))
  /\ UNCHANGED <<busy, isr, mainVars, next, late>>
IsrStore ==
  /\ isr = "poll" /\ Urxda /\ Head(rxFifo) # Noise
  /\ rxif' = FALSE
  /\ TakeRxreg /\ Store(Head(rxFifo))
  /\ busy' = Refuses
  /\ isr' = IF Refuses THEN "oerr" ELSE "poll"
  /\ UNCHANGED <<mainVars, next, late>>

(* FERR: the byte is read and forgotten. *)
IsrDropNoise ==
  /\ isr = "poll" /\ Urxda /\ Head(rxFifo) = Noise
  /\ rxif' = FALSE
  /\ TakeRxreg
  /\ UNCHANGED <<ringVars, busy, isr, mainVars, next, late>>

IsrDrained ==
  /\ isr = "poll" /\ ~Urxda
  /\ isr' = "oerr"
  /\ UNCHANGED <<ringVars, uartVars, busy, mainVars, next, late>>

IsrClearOerr ==
  /\ isr = "oerr"
  /\ oerr' = (oerr /\ Urxda)
  /\ isr' = "off"
  /\ UNCHANGED <<ringVars, rxFifo, rxif, busy, mainVars, next, late>>

-----------------------------------------------------------------------------
(* The main program, in serial_io_get_char. *)

Goto(from, to) == MainRuns /\ pc = from /\ pc' = to

GetCall ==
  /\ Goto("out", "data")
  /\ UNCHANGED <<ringVars, uartVars, busy, isr, c, out, next, late>>

(* serial_io_peek_char: while (!serial_io_is_data(state)) Idle(); *)
TestData ==
  /\ Goto("data", IF RingEmpty THEN "doze" ELSE "read")
  /\ UNCHANGED <<ringVars, uartVars, busy, isr, c, out, next, late>>

IdleOnce ==  \* mutant: "if" in the place of "while"
  /\ Goto("doze", "read")
  /\ late' = 0
  /\ UNCHANGED <<ringVars, uartVars, busy, isr, c, out, next>>
Idle ==
  /\ Goto("doze", IF IdleSleeps THEN "asleep" ELSE "data")
  /\ late' = 0
  /\ UNCHANGED <<ringVars, uartVars, busy, isr, c, out, next>>

ReadHead ==
  /\ Goto("read", "advance")
  /\ c' = ring[readPos]
  /\ UNCHANGED <<ringVars, uartVars, busy, isr, out, next, late>>

(* ... and, after uart_read_pending_data, returns c. *)
AdvanceReadPos ==
  /\ Goto("advance", "pending")
  /\ readPos' = After(readPos)
  /\ out' = IF c = Noise THEN out ELSE c
  /\ c' = NoByte
  /\ UNCHANGED <<ring, receptionPos, uartVars, busy, isr, next, late>>

(* uart_read_pending_data *)
TestBusy ==
  /\ Goto("pending", IF busy THEN "urxda" ELSE "out")
  /\ late' = 0
  /\ UNCHANGED <<ringVars, uartVars, busy, isr, c, out, next>>

(* mutants: the callback's refusal is ignored; break for return *)
StoreAllPending ==
  /\ Urxda /\ Goto("urxda", "urxda")
  /\ TakeRxreg /\ Store(Head(rxFifo))
  /\ UNCHANGED <<rxif, busy, isr, c, out, next, late>>
StoreThenClear ==
  /\ Urxda /\ Goto("urxda", IF Refuses THEN "clear" ELSE "urxda")
  /\ TakeRxreg /\ Store(Head(rxFifo))
  /\ UNCHANGED <<rxif, busy, isr, c, out, next, late>>
StorePending ==
  /\ Urxda
  /\ Goto("urxda", IF Refuses THEN "out" ELSE "urxda")
  /\ TakeRxreg /\ Store(Head(rxFifo))
  /\ UNCHANGED <<rxif, busy, isr, c, out, next, late>>

NoMorePending ==
  /\ ~Urxda
  /\ Goto("urxda", "clear")
  /\ UNCHANGED <<ringVars, uartVars, busy, isr, c, out, next, late>>

StayBusy ==  \* mutant: user_program_busy is never cleared
  /\ Goto("clear", "out")
  /\ late' = 0
  /\ UNCHANGED <<ringVars, uartVars, busy, isr, c, out, next>>
ClearBusy ==
  /\ Goto("clear", "out")
  /\ busy' = FALSE
  /\ late' = 0
  /\ UNCHANGED <<ringVars, uartVars, isr, c, out, next>>

-----------------------------------------------------------------------------
Peer == ByteArrives \/ NoiseArrives
Isr  == IsrEnter \/ IsrStore \/ IsrDropNoise \/ IsrDrained \/ IsrClearOerr
GetChar == \/ TestData \/ Idle \/ ReadHead \/ AdvanceReadPos
           \/ TestBusy \/ StorePending \/ NoMorePending \/ ClearBusy

Next == Peer \/ Isr \/ GetCall \/ GetChar

(* The processor executes; the application keeps reading. *)
Spec == /\ Init /\ [][Next]_vars
        /\ WF_vars(Isr) /\ WF_vars(GetCall \/ GetChar)

(* ... and the peer keeps sending. *)
BusyPeerSpec == Spec /\ WF_vars(ByteArrives)

-----------------------------------------------------------------------------
(* The bytes received and not yet returned, oldest first, noise left out. *)
RingSeq == [i \in 1 .. RingCount |-> ring[(readPos + i - 1) % N]]
Keep(q, b) == IF b = Noise THEN q ELSE Append(q, b)
Kept(s) == LET kept[i \in 0 .. Len(s)] == IF i = 0 THEN << >> ELSE Keep(kept[i - 1], s[i])
           IN  kept
Clean(s) == Kept(s)[Len(s)]
InFlight == Clean(RingSeq \o rxFifo)

(* Every variable has its type. *)
TypeOK ==
  /\ ring \in [Slot -> Byte \cup {NoByte, Noise}]
  /\ receptionPos \in Slot /\ readPos \in Slot
  /\ rxFifo \in Seq(Byte \cup {Noise}) /\ Len(rxFifo) <= FifoDepth
  /\ oerr \in BOOLEAN /\ rxif \in BOOLEAN /\ busy \in BOOLEAN
  /\ isr \in {"off", "poll", "oerr"}
  /\ pc \in MainPc
  /\ c \in Byte \cup {NoByte, Noise} /\ out \in Byte \cup {NoByte}
  /\ next \in Byte /\ late \in 0 .. BeforeTest + BeforeClear + BeforeIdle

(* "block if full" (serial-io.c:67): while the ring is full the interrupt is *)
(* barred from storing, so that no byte in it is overwritten.                *)
FullIsBusy == RingFull => busy

(* serial_io_get_char peeks and removes in two steps with an interrupt able  *)
(* to run between them: what it removes is what it returns.                  *)
ReadsWhatItRemoves == pc = "advance" => ~RingEmpty /\ c = ring[readPos]

(* serial_io_get_char returns the bytes in the order they arrived, each      *)
(* once: all of them as long as flow control lets none overrun the UART's    *)
(* FIFO, otherwise those that found room in it.                              *)
Stream == INSTANCE ByteStream WITH
  queue <- InFlight, Capacity <- N - 1 + FifoDepth, Lossy <- ~FlowControl \/ Overruns
IsStream == Stream!Spec

(* While the peer keeps sending and the program keeps reading, every byte    *)
(* the UART has taken into its FIFO is returned, one after the other until   *)
(* none is left: user_program_busy never sticks, a program that sleeps in    *)
(* Idle() on a byte stored just before is woken by the next one, and an      *)
(* overrun costs none of the bytes in front of it.  (Those that come after   *)
(* it the UART may never take: NotDeaf.)                                     *)
EveryByteDelivered == []<>(InFlight = << >>) \/ []<><<AdvanceReadPos>>_vars

(* Between two calls of serial_io_get_char, a byte that waits in the UART    *)
(* is there because the ring was full: "until there is no more data"         *)
(* (uart.c:277).  Otherwise no interrupt is left that would read it.         *)
NothingLeftBehind ==
  pc = "out" /\ MainRuns /\ ~busy => ~Urxda

(* Idle() is executed only while there is nothing to read: "Wait if until    *)
(* there is one character available" (serial-io.c:147).                      *)
NeverSleepsOnData == pc = "asleep" => RingEmpty

(* An overrun is going to be cleared: "Clear Receive Buffer Overrun Error if *)
(* any, possible despite the use of hardware handshake" (uart.c:396).  If    *)
(* nobody is going to, the UART receives nothing any more.                   *)
NotDeaf == oerr => busy \/ rxif \/ isr # "off"
=============================================================================
