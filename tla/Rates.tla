------------------------------- MODULE Rates -------------------------------
(***************************************************************************)
(* How the drivers turn the rate they are asked for into dividers of the   *)
(* processor's clock: the SPI and UART clocks, the sampling of the DAC,    *)
(* the period of a 16 bit timer and the bit timing of the CAN bus.  The    *)
(* clock is set once (clock/clock.c), then any driver is initialised.      *)
(***************************************************************************)
EXTENDS Integers, Sequences

CONSTANTS
  Crystals,     \* external clocks: prescaler, multiplier, postscaler and frequency in Hz
  SpiSpeeds,    \* in kHz
  BaudRates,    \* in bauds
  DacRates,     \* in Hz
  SampleTimes,  \* pairs of a time and its unit: <<50, 3>> is 50 ms, <<7, -2>> 7 ticks of 1:8
  CanRates,     \* pairs of a clock in MIPS and a rate in kbps
  None

VARIABLES
  clock,     \* frequencies of the instruction cycle and of the VCO, target_bogomips, and
             \* whether it comes from the internal oscillator; or None
  asked,     \* the driver initialised last and the rate it was asked for
  dividers   \* what it wrote to its registers

ratesVars == <<clock, asked, dividers>>
RatesInit == clock = None /\ asked = <<"none", 0>> /\ dividers = <<>>

(* The trial a loop of at most n stops at.                                  *)
First(n, Stops(_)) == CHOOSE k \in 1 .. n : (k = n \/ Stops(k)) /\ \A j \in 1 .. k - 1 : ~Stops(j)

setup_pll(n1, m, n2, fin) ==
  LET fcy == (fin * m) \div (2 * n1 * n2)
  IN  [fcy |-> fcy, vco |-> (fin * m) \div n1,
       mips |-> (fcy + 500000) \div 1000000, rc |-> fin = 7370000]
SetClock(settings) == clock = None /\ clock' = settings /\ UNCHANGED <<asked, dividers>>
clock_init_internal_rc_from_n1_m_n2(n1, m, n2) == setup_pll(n1, m, n2, 7370000)
clock_init_internal_rc_30 ==
  SetClock([clock_init_internal_rc_from_n1_m_n2(8, 130, 2) EXCEPT !.mips = 30])
clock_init_internal_rc_40 ==
  SetClock([clock_init_internal_rc_from_n1_m_n2(6, 130, 2) EXCEPT !.mips = 40])
clock_init_external_clock_from_n1_m_n2 ==
  \E c \in Crystals : SetClock(setup_pll(c[1], c[2], c[3], c[4]))
CycleDuration == 1000000000 \div clock.fcy

Asks(driver, rate, registers) ==
  /\ clock # None /\ asked' = <<driver, rate>> /\ dividers' = registers
  /\ UNCHANGED clock

(* spi_init_master: the primary prescaler is 1, 4, 16 or 64 (PPRE 3 to 0),  *)
(* the secondary 1 to 8 (SPRE 7 to 0).  When no primary prescaler stops the *)
(* first loop, i is 256 and PPRE takes the two low bits of -1.              *)
Primary == <<1, 4, 16, 64, 256>>
\* mutant: the rounding up of the secondary prescaler is forgotten
SecondaryDown(ratio, k) == ratio \div Primary[k]
Secondary(ratio, k) == ratio \div Primary[k] + 1
SpiDividers(khz) ==
  LET ratio == clock.fcy \div (khz * 1000)
      k == First(5, LAMBDA j : ratio \div Primary[j] < 8)
      second == Secondary(ratio, k)
  IN  [PPRE |-> (4 - k) % 4, SPRE |-> IF second > 8 THEN 0 ELSE 8 - second]
spi_init_master ==
  \E khz \in SpiSpeeds :
    /\ clock # None /\ khz \in 1 .. 15000 /\ clock.fcy \div (khz * 1000) <= 512
    /\ Asks("spi", khz, SpiDividers(khz))

(* uart_init.                                                               *)
uart_init == \E baud \in BaudRates :
  clock # None /\ Asks("uart", baud, [BRG |-> (clock.fcy \div baud) \div 16 - 1])

(* dac_init: the divider of the auxiliary clock, then the nearest divider   *)
(* of the DAC (the code rounds in floating point).                          *)
Auxiliary == <<1, 2, 4, 8, 16, 32, 64, 256>>
Nearest(hz, i) ==
  LET d == (2 * clock.vco + 256 * hz * i) \div (512 * hz * i) IN IF d = 0 THEN 1 ELSE d
DacDividers(hz) ==
  LET k == First(8, LAMBDA j : Nearest(hz, Auxiliary[j]) <= 128)
      i == Auxiliary[k]
  IN  [APSTSCLR |-> 8 - k, DACFDIV |-> (Nearest(hz, i) - 1) % 128,
       fsamp |-> ((clock.vco \div Nearest(hz, i)) \div i) \div 256]
(* It counts on the internal oscillator (dac.c:16).                         *)
dac_init == \E hz \in DacRates :
  clock # None /\ clock.rc /\ Asks("dac", hz, DacDividers(hz))

(* timer_set_period of a 16 bit timer: a time, in a decimal unit or in      *)
(* ticks of the prescaled clock.                                            *)
Prescaler == <<1, 8, 64, 256>>
Nanoseconds(time, unit) == time * 10 ^ (9 - unit)
TimerDividers(time, unit) ==
  IF unit < 0 THEN [prescaler |-> -unit, period |-> time]
  ELSE LET p == First(4, LAMBDA j : Nanoseconds(time, unit) <= CycleDuration * 65535 * Prescaler[j])
       IN  [prescaler |-> p,
            period |-> Nanoseconds(time, unit) \div (CycleDuration * Prescaler[p])]
Periods16 == 0 .. 65535
timer_set_period ==
  \E s \in SampleTimes :
    /\ clock # None /\ s[2] \in {0, 3, 6, 9} \cup -4 .. -1
    /\ IF s[2] < 0 THEN s[1] \in Periods16
       ELSE Nanoseconds(s[1], s[2]) \in CycleDuration .. CycleDuration * 65535 * 256
    /\ Asks("timer", s, TimerDividers(s[1], s[2]))

(* The tables of can.c: speed, CxCFG1, CxCFG2.                              *)
speed_tab_40 == {<<1000, 193, 920>>, <<500, 1, 2036>>, <<250, 3, 2042>>, <<100, 9, 2042>>}
speed_tab_30 == {<<1000, 192, 1456>>, <<500, 1, 1272>>, <<250, 2, 2042>>, <<100, 9, 1272>>}
can_set_speed ==
  \E s \in CanRates, row \in IF clock # None /\ clock.mips = 40 THEN speed_tab_40 ELSE speed_tab_30 :
    /\ clock # None /\ clock.mips = s[1] /\ row[1] = s[2]
    /\ Asks("can", s, [CFG1 |-> row[2], CFG2 |-> row[3]])

RatesNext ==
  \/ clock_init_internal_rc_30 \/ clock_init_internal_rc_40
  \/ clock_init_external_clock_from_n1_m_n2
  \/ spi_init_master \/ uart_init \/ dac_init \/ timer_set_period \/ can_set_speed

(* What the registers do.                                                   *)
SpiDivider == 4 ^ (3 - dividers.PPRE) * (8 - dividers.SPRE)
TimerTime == CycleDuration * Prescaler[dividers.prescaler] * dividers.period
Segment(first) == ((dividers.CFG2 \div first) % 8) + 1
Quanta == 1 + Segment(1) + Segment(8) + Segment(256)

(* "The effective speed will not be higher than the specified speed, but    *)
(* can be slower" (spi.c:270): and by less than half.                       *)
SpiNotFaster == asked[1] = "spi" =>
  /\ clock.fcy <= SpiDivider * asked[2] * 1000
  /\ SpiDivider * asked[2] * 1000 < 2 * clock.fcy

(* A byte of the UART ends within half a bit (uart.c:165).                  *)
UartInTime == asked[1] = "uart" =>
  LET actual == 16 * (dividers.BRG + 1) * asked[2]
  IN  20 * (clock.fcy - actual) <= clock.fcy /\ actual <= clock.fcy

(* The DAC samples at the nearest rate its dividers give (dac.c:106-136).   *)
DacNearest == asked[1] = "dac" =>
  LET i == Auxiliary[8 - dividers.APSTSCLR]
      off == clock.vco - (dividers.DACFDIV + 1) * i * 256 * asked[2]
  IN  off \in -(128 * i * asked[2]) .. 128 * i * asked[2]

(* A time of the timer is right to a tick, and its tick the shortest that   *)
(* can hold it (timer.c:280-296).                                           *)
TimerToTheTick == asked[1] = "timer" /\ asked[2][2] >= 0 =>
  LET tick == CycleDuration * Prescaler[dividers.prescaler]
      late == Nanoseconds(asked[2][1], asked[2][2]) - TimerTime
  IN  /\ late \in 0 .. tick - 1 /\ dividers.period >= 1 /\ dividers.period <= 65535
      /\ dividers.prescaler > 1 =>
           TimerTime > CycleDuration * 65535 * Prescaler[dividers.prescaler - 1] - tick

(* The CAN bit is exact, and its phase 2 no shorter than the jump of a      *)
(* resynchronisation (can.c:68-112).                                        *)
CanExact == asked[1] = "can" =>
  /\ asked[2][1] * 1000 = 2 * ((dividers.CFG1 % 64) + 1) * Quanta * asked[2][2]
  /\ dividers.CFG1 \div 64 < Segment(256)

(* What comes out is the rate asked for.                                    *)
RatesRight == SpiNotFaster /\ UartInTime /\ DacNearest /\ TimerToTheTick /\ CanExact
=============================================================================
