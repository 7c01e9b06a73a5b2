# Molole: a TLA+ model of the library's concurrent parts

Molole is a C library of low-level drivers for dsPIC33 / PIC24 micro-controllers:
one directory per peripheral, no operating system, a main program and interrupt
handlers of several priorities that share memory and hardware registers. Errors
do not return: `ERROR(...)` calls a handler that stops the program.

What makes this code hard is not its size but its timing. A function of the main
program is interrupted between any two instructions, by handlers that look at the
same ring, flag or state field; the hardware moves at its own pace; and several
functions are right only for reasons their comments give ("the following
instruction execute faster that the transmission of 4 bytes", "order IS
important", "we have to reset the state machine, the callback may want to
immediatly restart"). The models make these reasons explicit, check them, and
prove some of them for every size.

## 1. The system

| component | state | operations | what is hard | what makes it correct |
|---|---|---|---|---|
| `serial-io` | reception and transmission rings, four positions | `send_char`, `get_char`, `peek_char`, `is_data`; callbacks of the UART | rings shared with interrupts without a lock | a FIFO stream each way; nothing stranded; waits end |
| `uart` | `user_program_busy`, callbacks | transmit / receive interrupts, `transmit_byte`, `read_pending_data`, masking | two writers of UxTXREG, two readers of UxRXREG | no write into a full FIFO, no byte left behind, never deaf |
| `uart-software-fc` | `stop_tx`, `user_program_busy`, internal FIFO, fake timer | the same interface with RTS/CTS in software, a polling timer, a receive interrupt in two halves | three priorities; orderings argued in comments | no byte left behind or overtaken, no buffer overrun, two ends that stopped each other go on |
| `clock` | idle nesting counter, PLL settings | `clock_idle` (`Idle()`), enable / disable, set-up of the oscillator | sleeping after a test; a count that must stay balanced | a sleeper is woken; idle is forbidden exactly while it must be |
| `i2c` master | protocol record (state, counts, result, callback), low-level record (callback, previous operation) | asynchronous and blocking transfers, the interrupt's state machine | nine states driven by completions; restart from the callback; callers of several priorities | legal bus operations; one true report per transfer |
| `i2c` slave | state and callbacks | slave interrupt, return to idle | no interrupt tells the end of a message | the slave counts in step with the master |
| `timer` | records and registers of each 16 bit timer | init, release, set period, source, enable, interrupts | two slots per 32 bit timer; flags cleared before or after the callback | one owner, the configuration asked for, no expiry lost |
| `dma` | callback and ping-pong index of each channel | init, enable, disable, interrupt | the index is kept beside a hardware that is never asked | the callback is given the buffer that is complete |
| `spi` | transfer record of each device | asynchronous and blocking transfers, DMA callbacks | end of a transfer against the last word on the wire; restart from the callback | slave selected while clocked; waits end |
| `dac`, `adc` | channels, `simple_channel` | set-up, start, stop, conversions, scans | a value and what it is the value of are kept apart | a conversion is reported with its input |
| `encoder` | high word, `tpos`, `got_irq` | read position, reset, overflow and capture interrupts | a wide value read in parts | the value read was true when the counter was read |
| `can` | FIFO and transmit buffer shared with the controller | send, interrupt, run levels | flags and buffers move under the interrupt | frames whole and in order; nobody waits for ever |
| `flash` | latches, counters, table page | prepare, write, complete, erase, read | rows, pages, an erratum that spoils latches | the flash holds what was written |
| `motor`, `motor-csp` | integrals, limits | one control step | saturation of nested controllers | no wind-up |
| `camera` | window, line table, timers, image | configure, capture, VSYNC and HSYNC interrupts | a zoom split over sensor, timer and table | the image is the window asked for |
| `pwm` | mode, override and duty registers | duty, brake, invert | registers written by some calls only | the pins show the last duty |
| `gpio`, `types`, `error`, `ic`, `oc`, `cn`, `ei`, `lm73` | registers, few variables | set-up, one-line interrupts | little | little |

Interactions: `serial-io` gives its two callbacks to `uart`, which calls them from
its interrupts, and calls `uart` from the main program; the main program and the
interrupts share the rings without a lock. An I2C transfer is asked for by the main
program, by the result callback (inside the I2C interrupt) or by any other
interrupt; the interrupt drives the transfer through
`operation_completed_callback`; `lm73` and the cameras are callers. `spi` and `dac`
are called back by `dma`. `uart-software-fc` is called back by `timer`.

`PROJECT.json` lists every component with what is modelled of it, and under
`hazards` the places where this code could go wrong in ways a test would hardly
reach.

## 2. The plan

1. **The serial stream**: `ByteStream` (abstract), `SerialTx`, `SerialRx`, proofs;
   `SerialFormat`, numbers as text. *Done.*
2. **The I2C master**: `I2CTransfer` (abstract), `I2CMaster`, a first proof; `I2CSlave`. *Done.*
3. **Software flow control**: `UartSoftFc`. *Done, without a refinement of `ByteStream`
   (bytes are counted, not named).*
4. **The DMA and its clients**: `Dma`, `Spi`, `Dac`, `Adc`, composed in `MCDmaClients`. *Done.*
5. **Drivers on their own**: `Timer`, `Encoder`, `Can`, `Flash`, `Motor`, `Pwm`, `Camera`,
   and `Rates` for every computation of a divider, checked together by `MCDrivers`. *Done.*
6. Left: a composition of the I2C master with `I2CSlave` in place of the free device of
   `I2CMaster`, and of a transmitter with a receiver over one line.

Proved of it: section 5, every safety property the runs check. A theorem still worth proving:
that `UartSoftFc` implements two `ByteStream`s, once its bytes have names.

## 3. The modules

### ByteStream
The promise of a stream: `queue`, `next`, `out`; `Accept`, `Deliver` and, if `Lossy`,
`Lose`. Bytes carry cyclic identifiers `0 .. Ids-1`, more than the stream can hold, so
a lost, repeated or overtaken byte is seen.

### SerialTx
`serial_io_send_char`, `uart_transmit_byte`, the two functions that mask the transmit
interrupt, the transmit interrupt with `serial_io_byte_transmitted`, over the UART's
FIFO and shift register. The state is that of `Serial_IO_State` (`ring`, `writePos`,
`transmitPos`), the hardware (`txFifo`, `tsr`, `wire`, `txif`, `txie`), where the
interrupt is (`isr`, `isrData`) and where the main program is (`pc`, `flags`, `next`).

- One action per access to shared state: `TestRingEmpty` and `TestUtxbf` /
  `SendDirect` (serial-io.c:304 with uart.c:252-274), `TestRingFull` / `IdleSleep`
  (l. 308-309), `DisableTxInterrupt`, `AppendToRing`, `EnableTxInterrupt` (l. 317-320);
  `IsrEnter`, `IsrCallbackEmpty` / `IsrCallbackData`, `IsrTxreg` (uart.c:408-416).
- The buffer write and the move of the position (l. 318-319) are one action: the only
  other actor that looks at them is the interrupt, which is masked there.
- The main program steps only while no enabled interrupt is pending or running.
- `Shift` is the UART. With UTXISEL = 0 a byte that leaves the FIFO for the shift
  register, or is written straight into an idle shift register, raises the interrupt.
- **Time.** The source argues from time, so the model has a little of it: `lag` counts
  the bytes that leave the shift register during the stretches the code calls fast,
  and `Patience` bounds it. `Patience = 1` is prompt code, `Patience >= 4` an interrupt
  of higher priority as long as the FIFO. It is the bound the comment of
  serial-io.c:312-315 speaks of, not one added to make checking finite.

### SerialRx
`serial_io_get_char` with `serial_io_peek_char`, `serial_io_is_data` and
`uart_read_pending_data`; the receive interrupt with `serial_io_byte_received`; the
receive FIFO with overrun. `user_program_busy` is `busy`. `FlowControl` holds the peer
off while the FIFO is full; with `Overruns` a byte may come nevertheless, which uart.c:396
calls "possible despite the use of hardware handshake". `Noisy` lets bytes with a framing
error arrive; `IdleSleeps` is FALSE while `clock_disable_idle` is in force, TRUE in all runs.
`BeforeTest` and `BeforeClear` bound the bytes that arrive in two windows of
`uart_read_pending_data`: the code is right for `(1, 0)`; for `(2, 0)` and `(1, 1)` the ring is
overrun, and for `(0, 1)` a byte is left in the UART until the next one arrives (`rx_live` shows
that then nothing is lost). `BeforeIdle` bounds those between the test of the ring and `Idle()`.

### SerialFormat
What the writers of unsigned, hexadecimal and signed numbers put on the stream in each
alignment, and what the readers make of it: a digit is its value, words are 16 bits wide.

### UartSoftFc
`uart-software-fc.c` under a user that sends with `serial_io_send_char` and reads with
`serial_io_get_char`. Three priorities: the main program (`pc`; `MaskRx` is the stretch
with the receive interrupt disabled), the callbacks at the priority of the bottom half
(`bh` names the handler and its place: transmit interrupt, timer callback, bottom half),
and the top half of the receive interrupt (`th`). Each access to shared state is an
action, in the order the comments argue about ("First Uart irq, then the timer"). Bytes
are counted: producers and consumers of each buffer take places in order, so what can go
wrong is two consumers at once, an overrun or a byte nobody comes back for. The peer obeys
RTS after `Skid` bytes; `Late` bounds what arrives between the test of a level and the
lowering of RTS. `Overtaken`, `LateByte` and `FlagClearedLast` open the windows in which
the code is wrong (section 4).

### Dma, Spi, Dac, Adc; MCDmaClients
`Dma` holds the registers of each channel, the records of the wrapper and the count of
`clock.c`; the eight branches of each of its functions are one definition over the channel.
A call of the wrapper is one step, because a channel is touched by its client and its own
interrupt only. The clients extend it: `Spi` has the two devices, a call of
`spi_start_transfert` by the program or by a callback step by step, the words moving in
hardware, and the DMA callbacks; `Dac` the two ping-pong sides; `Adc` single conversions and
scans of both converters: the interrupt of one converter may come between two accesses of a
start on the other, so `start` is kept per converter. They share no channel, so `MCDmaClients` runs each in behaviours
of its own (`client`).

### I2CSlave
The interrupt of the three peripherals, which follows the master by counting, and the
calls that force it to idle. The master of the model keeps the agreed lengths or gives a
message up (`broken`, until both sides are brought to idle again).

### Timer
`TIMER_1`, and one pair with its 32 bit timer standing for all pairs. `Timer_Data`, the
configuration bits, periods, interrupt enables and flags of each slot; the interrupts with
the callback they are in. `asked` is what each owner last asked for.

### Rates
Pure computations: the PLL, then the dividers of SPI, UART, DAC, timers and CAN. The loops
of the code are `First`, the trial they stop at.

### Encoder, Can, Flash, Motor, Pwm, Camera
`Encoder`: the four kinds of counter (the QEI, `TIMER_2`, `TIMER_3`, the other timers), the
interrupts that extend them, and `encoder_get_position` read by read. `Can`: the FIFO the
controller fills, the interrupt with one step per access to what they share, and
`can_send_frame` from the program and from the callbacks. `Flash`: the write latches with the
erratum that spoils them, rows and pages, the reader. `Motor`: the arithmetic of both
controllers, integers divided toward zero, with every path of saturation. `Pwm`: the registers
of a channel and what its pins then carry; `pwm_init` may come again, and as it leaves the duty
registers as they were, nothing is said of the pins from there to the next duty. `Camera`: the window and zoom split into sensor
registers, line table and line timer, and the capture of a frame line by line.

`MCDrivers` gives each of these modules, `I2CSlave`, `Timer`, `Rates` and `SerialFormat`
behaviours of its own: they share nothing in the code either. It holds the inputs a `.cfg`
cannot write, and assumes that prescalers, sources and periods are numbers and that the
values which stand for nothing are none of the others (`NothingAssumption`; `NoneAssumption`
in `MCDmaClients`).

### I2CTransfer and I2CMaster
`I2CTransfer` says what a combined transfer promises: the device gets the bytes to
write in order before any is read, the bytes read are stored in order, and one report
comes, a success exactly when the device has refused nothing.

`I2CMaster` has the two records of the code (`I2C_master_transfert_datas`:
`state`, `result`, `callback`, counts and pointers; `I2C_Master_Data`: `busy`, `prevOp`,
`prevData`), the hardware (`hw` the operation under way, `mi2cif`, `ackstat`, `rcv`), the
bus seen from the device, the local variables of the interrupt, and where each caller
is. The state machine has one action per branch of `i2c_master_transfert_op`
(`OpAddress` ... `OpDone`); the interrupt is split where a higher priority can see a
difference: entry, the state machine, the reset, the report with the read of callback
and result, the callback, the application of the operation. `Fill` is one action: the
fields it sets are looked at by others only through `state` and `busy`, which are tested
before and after it. Callers: the main program (blocking or not), the result callback
(restarts a transfer without asking, as the comment at l. 181 promises it may), and a
timer interrupt that asks `i2c_master_is_busy` first, of the same or a higher priority.
`ERROR` is the place `"error"`, which nobody leaves. The last variables (`job`, `device`,
`buffer`, `refused`, `told`, `outcome`, `returned`) record what the properties speak of.
The device and the bus operations are external: the device answers as it likes, there is
one master on the bus and no collision. `Places` is the size of the callers' buffers, at
least what any request reads.

`MCI2CMaster` holds the sets of requests of the runs.

### Definitions marked "mutant"
Right before some definitions stands a wrong variant of it (`TopEndNoForce`, `CallbackOnTx`,
`NeverAgain`, ...): a plausible bug of the code, in no specification, which the
properties are shown to catch when it takes the definition's place.

## 4. The runs

| run | shows | bounds |
|---|---|---|
| `tx_long_interrupt` | order, no loss and room in the FIFO whatever the length of interrupts | ring 3, FIFO 4 (the real one), patience 5 |
| `tx_prompt` | nothing stranded, every byte sent, every call returns, in the prompt regime | ring 3, FIFO 2, patience 1 |
| `rx_flow` | ring never overrun, peek and remove agree, nothing left behind, FIFO stream without loss | ring 4, FIFO 4, noise, no overrun, windows (1, 0, 2) |
| `rx_live` | with overruns, losses only in front of the FIFO; every byte the UART has taken is returned | ring 4, FIFO 2, windows (0, 1, 3) |
| `i2c_alone` | bus legal, blocking results true, transfers end, refinement of `I2CTransfer` | up to 2 bytes each way |
| `i2c_timer` | the interrupt always finds its pointer, with a timer of higher priority | 1 byte |
| `soft_fc` | no overrun, no overtaking, no byte left in either direction, the peer is let go | internal FIFO 5, stop level 2, 1 late byte, rings 2 and 1, hardware FIFOs 1 |
| `dma_clients` | slave selected while clocked, idle mode honest, inputs labelled, buffers true, blocking transfers return | 2 words, 3 transfers, 4 channels, 2 inputs |
| `drivers` | one or two properties of each of the ten drivers of `MCDrivers` | below |
| `rx_deaf` | *violation*: an overrun while the program is busy ends reception | ring 3, FIFO 2, windows (0, 0, 0) |
| `i2c_callback_overtaken` | *violation*: the wrong callback is called with the wrong result | 1 byte, timer of higher priority |
| `spi_too_fast` | *violation*: a slave clocked far above the speed asked for | 3 speeds at 30 and 40 MIPS |

Why the bounds are enough. A ring of 3 or 4 slots is empty, partly filled, has one slot
left, is full and wraps; the position arithmetic is the same for any size, and the
theorems below hold for any. The FIFO is 4 deep wherever its depth is the argument; in `rx_live` it is smaller than
the ring, as in the code (4 and 64 places), so that an interrupt may empty an overrun FIFO into
the ring and clear the overrun, and bytes follow those that were lost. Windows are given in
the order `BeforeTest`, `BeforeClear`, `BeforeIdle`. Two
bytes each way give I2C a first, a middle (ACK) and a last (NACK) byte, a restart between
writing and reading, and a refusal at each place. Identifiers exceed what the stream
holds, as an assumption of the modules requires.

`soft_fc`: the stop level, one place more, and the late byte leave the internal FIFO one
level below, at and above the level, where RTS changes; each ring is empty, full and, for
the one that is read, in between. Three SPI transfers are one on each device with
a third started from a callback; two words are a first and a last. In `drivers`: messages
of 3 and 2 bytes have a first, middle and last one; a counter of 4 values wraps twice within
the reach of 9, in both directions; four reception buffers lie in both halves of the full
flags and the FIFO wraps; rows of 8 instructions, two to a page and two pages, with up to
9 instructions written, cross a row and a page and leave a row to pad; the speed, time and
rate sets hold the boundaries of every prescaler; `Values` hold words at which a digit more
begins, the ends of the ints and words with zeros inside; the gains saturate each controller
on each side; the camera windows (`Corners`, `Sides`, `Zooms`) use every zoom that is split
over sensor and timer, in one and two bytes a pixel.

Deadlock is checked except in the runs where the system really may stop:
`tx_long_interrupt` (with `Patience` from 4 on a byte may be stranded in the ring, with
nobody to come for it), those with an I2C timer interrupt, where two callers that both find the
master free end in `ERROR`, and `dma_clients` and `drivers`, whose clients may be done
(the bound on transfers, a controller waiting for its program).

### Fairness
The UART shifts, the interrupts and the code of a call in progress are executed, and the
hardware ends the operation it was asked for: weak fairness of these. No fairness makes
the application call `serial_io_send_char`, nor a peer send, except in `rx_live`, whose
liveness is about a peer that keeps sending (`BusyPeerSpec`) and a program that keeps
reading; that it needs the peer is the lost wake-up of `Idle()` and the byte left behind, which
the next byte makes good. Nobody is assumed to ask for an I2C or SPI transfer; one that is asked for ends.
In `soft_fc` interrupts may come again and again, so the main program has strong fairness
(it is given time between them), and it keeps reading (`GetByte`), which is what lets the
peer go; the peer itself is free (`PeerLetGo` speaks of one that stops refusing).

### Findings
The three violation runs are disagreements between the code and one of its comments; the
details are in `PROJECT.json`.

- **rx_deaf**: the receive interrupt is to clear an overrun "possible despite the use of
  hardware handshake" (uart.c:396), but one that comes while `user_program_busy` is set is left
  to `uart_read_pending_data`, which does not look at it: reception stops for good. So delivery
  for ever can only be said of the bytes the UART takes, which is what `rx_live` checks.
- **i2c_callback_overtaken**: callback and result are read from the shared record after
  it has been given free (master_protocol.c:184-187).
- **spi_too_fast**: with a ratio of exactly 512 the loop over the primary prescalers runs
  out and the fastest one is chosen (spi.c:322-328), against "not be higher than the
  specified speed" (spi.c:270).

### Regimes
The passing runs keep to a regime the code counts on, named by a constant. Outside of it
the property fails; each line was seen by giving the constant of a run another value.

| module | constant | what then happens |
|---|---|---|
| `SerialTx` | `Patience = 4` | `NeverStranded` fails: masking the interrupt around the append (serial-io.c:317-320) does not close the race, which is between the test of UTXBF and the append |
| `SerialRx` | `BeforeTest = 2` (ring 3) | `FullIsBusy` fails: `uart_read_pending_data` cannot tell a refusal after the read position moved from an old one, and stores into a full ring |
| `SerialRx` | `BeforeClear = 1` | `NothingLeftBehind` fails: a byte between the last test of URXDA (uart.c:288) and `user_program_busy = false` (l. 293) waits for the next one |
| `SerialRx` | `BeforeTest = BeforeClear = 1` | `IsStream` fails: the byte left behind and one more come before the test of `user_program_busy`, as with `BeforeTest = 2` |
| `SerialRx` | `FlowControl = FALSE`, or `Overruns = TRUE` | `NotDeaf` fails (the finding `rx_deaf`) |
| `SerialRx` | `BeforeIdle >= 1`, no peer that keeps sending | `NeverSleepsOnData` fails: test and `Idle()` are two steps (serial-io.c:157), and the program sleeps on a byte until the next one comes |
| `SerialRx` | `BeforeIdle = 4` in `rx_live` | `EveryByteDelivered` fails: the program sleeps on a full ring and a full FIFO, whose overrun raises no interrupt. It takes as many bytes as ring and FIFO hold between two instructions, or an interrupt of higher priority that long; a periodic interrupt hides it |
| `I2CMaster` | `Timer = "same"` | `BlockTruth` fails: a transfer started between master_protocol.c:264 and 265 makes a failed blocking transfer return true |
| `I2CMaster` | requests of no byte | `BusLegal` fails: a STOP is asked for while the device drives the bus (l. 207 allows the request; `SomeBytes` leaves it out) |
| `UartSoftFc` | `Overtaken = TRUE` | `NeverStranded` fails: a callback between the refusal of `uart_transmit_byte` and the append finds the ring empty and gives up |
| `UartSoftFc` | `LateByte = TRUE` | `NothingLeftBehind` fails, as for `SerialRx` |
| `UartSoftFc` | `FlagClearedLast = TRUE` | with TIMER_1, a forced interrupt is wiped out by the flag cleared after the callback (timer.c:1291-1294) |
| `Spi` | `RxOnlyOn` with SPI_2 | `SelectedWhileClocked` fails: the first null is written to SPI1BUF (spi.c:255), which clocks the other device |
| `Dac` | `StopInCallback = TRUE` | `BufferTrue` fails: the index cleared by `dac_stop` is flipped when the callback returns |
| `Adc` | `InitAnyTime = TRUE` | `IdleHonest` fails: a scan set up again without `dma_disable_channel` counts twice |
| `Dma` | `Prompt = FALSE` | `BufferTrue` fails: two completions in one flag |
| `Timer` | `PairRule = FALSE` | `ConfigKept` and `CallbackOwner` fail: `timer_init` looks at one slot (timer.c:197), although timer.h:44 speaks of "2 16-bits timers" in use |
| `Timer` | `CleanRelease = FALSE` | a released timer goes on, and its interrupt calls a callback without owner |
| `Timer` | `PromptTimer1 = FALSE` | `ExpiryKept` fails for TIMER_1 |
| `I2CSlave` | `PromptSlave = FALSE` | `InStep` fails: a byte of a write is lost, there is no clock stretching in that direction |
| `Encoder` | `TurnAtWrap = TRUE`, or `TwoCallersSpec` | `PositionTrue` fails: the correction for an overflow after a capture is one edge short; a call from an interrupt clears the `got_irq` of the call it interrupts |
| `Can` | `AtomicClear = FALSE` | `CanIntact` fails: a frame stored between read and write of C1RXFUL loses its bit |
| `Can` | `OneSender = FALSE` | `CanIntact` fails: two callers copy into one buffer |
| `Camera` | `PromptVsync = FALSE` | `CaptureTrue` fails: the line timer starts a line late |

Other disagreements met on the way, without a run:

- The 500 kbps row of the CAN table for 40 MIPS gives another rate (476 kbps), which is why
  `CanRates` leaves it out.
- Where the divided output exceeds an int, the speed controller limits it without
  recomputing the integral (motor-csp.c:74-82) and the current controller looks at the sign of
  the quotient, which is then meaningless, not of the dividend (l. 287). `NoWindup` is about
  gains that do not get there.
- The callback of DMA channel 5 is stored in the record of channel 0 (dma.c:347); no client
  of the runs uses channel 5.
- `serial_io_get_int` removes the `-` even when no digit follows (serial-io.c:250 says "do not
  remove anything"); a negative int aligned right has blanks after its sign and reads back as 0.
- `uart_read_pending_data` gives bytes with a framing error to the program, which the
  interrupt drops (uart.c:385-387, 290).
- The field `result` is "false during transfert" (master_protocol.c:70) but is set to
  true at the start (l. 230). `uart_read_pending_data` stops when the callback returns
  false (uart.c:290), not true (l. 277). The default error handler "does nothing and
  return" (error.c:67) but loops for ever (l. 72).

## 5. The proofs

Checked by TLAPS, for all values of the constants that satisfy the modules' assumptions: any
size of ring, FIFO, buffer, counter, page and message, any set of requests. A theorem that
holds in one regime only has the regime's constant as its hypothesis (`ASSUME ~LateByte`);
the table of regimes says what fails outside of it, and the run of the module keeps to it.
Every theorem is `Spec => []P` or `Spec => [][A]_v`, from an invariant stronger than `P`
that each action preserves.

### SerialTxProofs
- `TxTypeCorrect`. `TypeOK` is not inductive: that the interrupt reads a byte, and not
  an unused slot, needs `BytesInv` (the slots between the two positions hold bytes).
- `TxNeverOverflows`: `TxregHasRoom` however long interrupts last. `RoomInv` is the
  reason, which the code does not state: a pending or running interrupt *is* a free place
  of the FIFO, and the only other writer writes only while the ring is empty, when the
  interrupt has nothing to write.
- `TxNeverStranded`: `NeverStranded` under `Prompt` (3 slots, 2 places, one byte per
  stretch). `PromptInv` follows how full the FIFO must be at each point of
  `serial_io_send_char` and of the interrupt.
- `TxIsStream`: the refinement of `ByteStream`, with no hypothesis. The queue of the stream
  is `InFlight`: the shift register, the FIFO, the interrupt's hand and the ring laid end to
  end. `TypeInv`, `RoomInv` and `StreamInv` (a byte in the interrupt's hand only while it is
  about to write it, room in the ring for what is about to be appended) make every step an
  `Accept`, a `Deliver` or a stutter; the lemmas are about what a ring holds when either of
  its positions moves, and about concatenations.

### SerialRxProofs
`RxTypeCorrect`, `RxFullIsBusy`, `RxReadsWhatItRemoves`, `RxNothingLeftBehind`: the last
three under `Prompt` (at most one byte before the test of `user_program_busy`, none before
it is cleared), with one invariant, `StoreInv`, on who may store into the ring and for how
many bytes it has room (`Free`).

`RxIsStream`, also under `Prompt`: the refinement of `ByteStream`, lossy unless the handshake is
in time (`HeldOffInTime`: then there never is an overrun). Its queue is the ring and the
FIFO laid end to end, filtered of noise by `Clean`. `FilledInv` adds to `StoreInv` that the
slots between the two positions hold bytes or noise. `Clean` is recursive on the place:
`KeptIs` unfolds it, `CleanParts` says it may be applied part by part. Both are proved by
induction, in the form `AllNaturals` of `Rings`: for a set of numbers instead of a predicate.

### Rings
Lemmas the proofs of both serial modules rest on: induction for a set, derived from the
well-foundedness of the naturals; a sequence cut at its head; what a ring holds between two
positions when either moves (`RingTyped`, `RingTake`, `RingAdd`).

### I2CMasterProofs
- `InterruptAlwaysOwned`: `InterruptOwned` for any requests and any timer. `OwnInv`: an
  operation under way, a completion pending and one being handled exclude one another,
  and each keeps the master claimed.
- With `Timer = "none"` and requests of at least one byte, for requests of any size:
  `MasterTypeCorrect` (counts never below 0, no byte outside the caller's buffer),
  `BusAlwaysLegal`, `BlockTellsTheTruth`, `CallbackToldTheTruth`, and `MasterTransfers`, the
  refinement of `I2CTransfer`. One invariant, `TransferInv`, carries them all:
  `StepsInv` pairs each state with the operation it awaits and the phase of the bus;
  `CallersInv` says that a caller past the test of `state` has the master for itself (the
  program because no interrupt starts transfers, the callback because the master was reset
  just before it), which is where a timer that starts transfers breaks the argument;
  `SizesInv` and `DataInv` count bytes asked for, sent, received and stored, the byte in
  flight being one short of the count; `AnswerInv` and `ToldInv` follow a refusal to the
  result and the result to the caller.

### UartSoftFcProofs
- `FlowControlWorks`, `DirectInOrder`, with no hypothesis. `LevelInv` bounds the internal FIFO
  by the stop level, what was late, one hardware FIFO and the peer's skid; `SendInv` says
  that the program at its write of UxTXREG has found the ring empty.
- `NothingOverrun`, `NobodyLeavesBytes` (no `LateByte`, no `FlagClearedLast`). `RingInv` and
  `HandInv` need each other: the main program is alone in `uart_read_pending_data` because
  no forced interrupt is outstanding, and none is forgotten because it was alone.
- `RingIsSent` (no `Overtaken`). `PollInv` and `StrandedInv`: a refusal that leaves the
  transmitter empty leaves the poll of CTS running, or on its way at each place of
  `uart_transmit_byte`.

### DmaClientsProofs
- `ConversionsLabelled` (no `InitAnyTime`): `AdcInv` gives `simple_channel` its meaning at each
  moment, the input of the conversion, then of the value in the buffer.
- `SlaveStaysSelected`, `IdleIsHonest` (`RxOnlyOn` without SPI_2; the second no `InitAnyTime`
  too; a count of `clock.c` of at least the four channels of the SPI). `SpiInv` follows the
  words on both channels of a device, which have their interrupts in any order, and gives the
  idle count as the sum over the devices of what each place of a transfer holds. `ScanInv` does
  the same for the scans.
- `BuffersInStep` (`Prompt`, no `StopInCallback` and the hypotheses above): `DacInv` and
  `ScanInv` relate the index the software keeps to the buffer the hardware fills, for a
  channel that runs, is stopped, or has an interrupt to come.

### DriversProofs, DevicesProofs
- `SlaveKeepsStep` (`PromptSlave`): outside of a broken message the slave is in one of four
  relations to the bus (`Settled`, `Addressed`, `Written`, `Fetched`).
- `NoExpiryLost` (`PromptTimer1`); `TimersStaySet`, `OwnersAreCalled` (`PairRule`, `CleanRelease`
  and `PromptTimer1`). `OwnersInv` says what of the two slots belongs to which of the four
  identifiers; without it a write to the 32 bit timer might be one to a timer of somebody else.
- `NothingForgotten` with no hypothesis; `FramesWhole` (`AtomicClear`, `OneSender`), for any
  number of buffers. `FifoInv` describes the full flags as the arc of the ring of buffers from
  the read pointer on, with the frames stored there in order.
- `PositionPutTogether` (no `TurnAtWrap`, a counter of at least 4 values). `EncoderInv`
  gives the motor's position out of the counter, the software's part and the interrupts that
  wait, and what a call has read as true as long as none of them has come.
- `LastDutyShown` with no hypothesis: the part `DriveTrue` of `SettingsRight`.
- `NumbersComeBack` with no hypothesis, for any `Values` that are 16 bit words: the part
  `FormatTrue`. `FormatInv` says of the text on its way that it reads as the number sent:
  blanks, then digits (`ReadableAt`) with the values they come to one after the other, the
  last of which is the number. The writers put such a text down because the first digits of a
  word come to what cutting the word at that place leaves (`ComeTo`), whatever zeros or blanks
  the alignment has in front; the readers, which are recursive, go through the same values,
  by induction over the blanks and the digits (`AllNaturals`). The exception is in it: a
  negative int aligned to the right, whose sign stands in front of the blanks.
- `RatesComeOut` (`RatesPossible`): the part `RatesRight`. `RatesInv` says that the registers are
  what the driver computes for what it was asked; the rest is arithmetic, for any speed, baud,
  rate and time the drivers accept (`DividerAbove`, `RoundedIs`, `TimerRight`: what a quotient,
  rounded or split over two prescalers, gives when multiplied again; one lemma for each loop of
  the code says which trial it stops at). `RatesPossible` leaves out what the
  hardware cannot do with these clocks: an SPI speed of 78 kHz, the only one whose ratio falls
  behind the last primary prescaler (section 4); bauds above 1/320 of the slowest clock, except
  115200, whose divider is in time by its value; rates the two dividers of the DAC cannot reach.
  The times of the timer and the tables of CAN need no hypothesis.
- `SettingsComeOut`: `SettingsRight`, the three together.
- `FlashHoldsWritten` (`MaxWritten <= PageSize`: a size given to `flash_read_chunk` is of 16 bits,
  less than the bytes of a page, so that a read touches at most two pages). `Held` says what
  the latches have of the current row, the places the erratum spoils excepted, and that these
  are in the copies `Fixup` writes again; the lemmas split an address into row and place.
- `WindowCaptured` (`PromptVsync`: the interrupt of the end of a frame is taken before the next
  line), for any size and origin of the sensor and any windows of `Corners`, `Sides`, `Zooms`.
  `CameraInv` follows a capture that rests, waits for its frame or counts lines. Which bytes of
  a line are taken (`BytesTaken`) is shown by induction over the pixels of the line
  (`LineTaken`, `Spread`); `PixelIs` and `RowPlace` then give the pixel of the sensor that
  stands at each place of the picture.
- `IntegralsExplained` (`IntMax >= 20`: the sum of the speed controller fits an int of the
  model's gains; the real limit is 32767, and the run has 15, so that quotients that do not fit
  are met too). `Explains` and `Recomputed` say for any gains and any limit how large an
  integral can be that was recomputed from that limit, from products and quotients bounded
  one by one (`Product`, `BelowQuotient`, `TowardZero`); `MotorInv` says the same of each
  controller's state, and `Sized` what of the gains it rests on.

### Only model-checked
- `IsStream` of `SerialRx` with a byte before `user_program_busy` is cleared (`rx_live`):
  `RxIsStream` has the other window.
- Everything under fairness (`EveryByteSent`, `SendCharReturns`, `EveryByteDelivered`,
  `BlockComesBack`, `EveryTransferEnds`, `PeerLetGo`, `SyncReturns`): the prover has no ENABLED.
- Every safety invariant and action property a run checks is proved, under the hypotheses above.
  For the three findings the runs show the violation.

The modules declare no RECURSIVE operator, so all of them can be proved about; a recursive
function is unfolded by `AllNaturals`.

## 6. Not modelled

- `uart_init`, `i2c_init`, `i2c_init_master`: register set-up before the initial state.
  A second `uart_init` leaves `user_program_busy` as it was.
- A call of `serial_io_send_char` from an interrupt; bus collisions; a user callback given
  directly to `i2c_master_start_operations`.
- Strings, buffers and terminal commands of `serial-io`, which are sequences of the calls
  modelled.
- `uart-software-fc` with a timer whose interrupt the application has disabled
  (`fake_timer = 2`).
- `timer_get_value` and `timer_set_value`: a timer of the model expires when it likes.
- `dma_set_priority`, `dac_set_default_value`, `clock_set_speed` and the delays: single
  registers, or waits for the hardware. The period interrupt and special event trigger of `pwm`.
- The SPI slave and `spi-nodma`, a busy loop over one register.
- `encoder_step`, a subtraction; `flash_write_buffer`, which packs three bytes into one
  instruction, `flash_flash_instr` and the reads of one instruction.
- The thermal filter of `motor-csp`, whose decision is any; the filters of CAN, which let
  every frame in. A scaler of 0, which `motor-csp` takes for no division.
- `po6030k`, which has the capture of `po3030k` with other registers, and the setters of the
  image quality, tables of constants written over I2C.
- `lm73`, `ic`, `oc`, `cn`, `ei`, `gpio`, `types`, `error`: set-up of registers and one-line
  interrupts, used by the models as far as they matter (what a capture tells, an atomic
  addition, an error that does not return).
- The identifiers UART_1 / UART_2 and I2C_1 ... I2C_3 of the masters: the code is the same text for
  each, with no state in common; one instance is modelled and the range checks are left out.
