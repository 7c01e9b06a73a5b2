-------------------------------- MODULE Adc --------------------------------
(***************************************************************************)
(* The two converters (adc/adc.c).  Single conversions: the application,   *)
(* in its program or in the callback, asks for a channel, and the          *)
(* interrupt reports a value with the channel remembered in ADC_Data.      *)
(* Scans: the converter fills DMA buffers.                                 *)
(***************************************************************************)
EXTENDS Dma

CONSTANTS
  Inputs,         \* analog inputs single conversions are asked for
  AdcChannel,     \* DMA channel of the scans of each converter
  InitAnyTime     \* converters are initialised again during a conversion, and a scan
                  \* without dma_disable_channel

NoInput == -1     \* simple_channel when no conversion is in progress
Adcs == {1, 2}
NoStart == [at |-> "none", input |-> 0]

VARIABLES
  adon,           \* ADxCON1.ADON
  adif, adie,     \* the converter's interrupt
  simple_channel,
  ch0sa,          \* input connected to the converter
  conv,           \* input sampled for the conversion in progress, or NoInput
  buf,            \* input the value in ADCxBUF0 comes from
  adcIsr,         \* input each interrupt being served reports, or None
  start,          \* where the call of adc_start_simple_conversion is, and its input
  scan            \* what the scan of a converter does next

adcHw == <<adon, adif, adie, ch0sa, conv, buf>>
adcVars == <<dmaVars, adcHw, simple_channel, adcIsr, start, scan>>

AdcInit ==
  /\ DmaInit
  /\ adon = [a \in Adcs |-> FALSE] /\ adif = [a \in Adcs |-> FALSE]
  /\ adie = [a \in Adcs |-> FALSE] /\ simple_channel = [a \in Adcs |-> NoInput]
  /\ ch0sa = [a \in Adcs |-> 0] /\ conv = [a \in Adcs |-> NoInput]
  /\ buf = [a \in Adcs |-> NoInput] /\ adcIsr = [a \in Adcs |-> None]
  /\ start = [a \in Adcs |-> NoStart] /\ scan = [a \in Adcs |-> "off"]

NoIsr == isr = None /\ \A a \in Adcs : adcIsr[a] = None
Interrupts == SomePending \/ \E a \in Adcs : adif[a] /\ adie[a]
ProgramRuns == NoIsr /\ ~Interrupts
(* The program runs and is inside no call: an interrupt may have come       *)
(* between two accesses of a call of the program.                           *)
ProgramFree == ProgramRuns /\ \A a \in Adcs : start[a].at = "none" /\ scan[a] # "enable"

(* adcx_init_simple: the converter is turned off, which ends a conversion,  *)
(* and on again; simple_channel is not touched.                             *)
InitSimple(a) ==
  /\ ProgramFree /\ scan[a] = "off"
  /\ InitAnyTime \/ simple_channel[a] = NoInput
  /\ adon' = [adon EXCEPT ![a] = TRUE] /\ adif' = [adif EXCEPT ![a] = FALSE]
  /\ adie' = [adie EXCEPT ![a] = TRUE] /\ ch0sa' = [ch0sa EXCEPT ![a] = 0]
  /\ conv' = [conv EXCEPT ![a] = NoInput]
  /\ UNCHANGED <<dmaVars, simple_channel, buf, adcIsr, start, scan>>
adc1_init_simple == InitSimple(1)
adc2_init_simple == InitSimple(2)

(* adcx_start_simple_conversion, one step per access.  A caller that finds  *)
(* a conversion in progress gets an error and starts nothing.               *)
StartRuns(a, place) == (ProgramRuns \/ adcIsr[a] # None) /\ start[a].at = place
StartCalled(a) == ProgramFree \/ (adcIsr[a] # None /\ start[a].at = "none")

(* mutant: the conversion in progress is not looked at                      *)
BlindTest(a, i) ==
  /\ StartCalled(a) /\ adie[a] /\ adon[a]
  /\ start' = [start EXCEPT ![a] = [at |-> "select", input |-> i]]
  /\ UNCHANGED <<dmaVars, adcHw, simple_channel, adcIsr, scan>>

StartTest(a, i) ==
  /\ StartCalled(a) /\ adie[a] /\ adon[a]
  /\ simple_channel[a] < 0
  /\ start' = [start EXCEPT ![a] = [at |-> "select", input |-> i]]
  /\ UNCHANGED <<dmaVars, adcHw, simple_channel, adcIsr, scan>>
adc1_start_simple_conversion == \E i \in Inputs : StartTest(1, i)
adc2_start_simple_conversion == \E i \in Inputs : StartTest(2, i)

StartSelect(a) ==
  /\ StartRuns(a, "select")
  /\ ch0sa' = [ch0sa EXCEPT ![a] = start[a].input]
  /\ simple_channel' = [simple_channel EXCEPT ![a] = start[a].input]
  /\ start' = [start EXCEPT ![a].at = "sample"]
  /\ UNCHANGED <<dmaVars, adon, adif, adie, conv, buf, adcIsr, scan>>

StartSample(a) ==
  /\ StartRuns(a, "sample")
  /\ conv' = [conv EXCEPT ![a] = IF @ = NoInput THEN ch0sa[a] ELSE @]
  /\ start' = [start EXCEPT ![a] = NoStart]
  /\ UNCHANGED <<dmaVars, adon, adif, adie, ch0sa, buf, simple_channel, adcIsr, scan>>

(* The conversion ends (hardware).                                          *)
Converted(a) ==
  /\ conv[a] # NoInput /\ adon[a]
  /\ buf' = [buf EXCEPT ![a] = conv[a]] /\ conv' = [conv EXCEPT ![a] = NoInput]
  /\ adif' = [adif EXCEPT ![a] = TRUE]
  /\ UNCHANGED <<dmaVars, adon, adie, ch0sa, simple_channel, adcIsr, start, scan>>

(* The interrupt forgets the channel before it calls the application, so    *)
(* that the callback can start the next conversion.                         *)
AdcInterrupt(a) ==
  /\ NoIsr /\ adif[a] /\ adie[a]
  /\ adif' = [adif EXCEPT ![a] = FALSE]
  /\ simple_channel' = [simple_channel EXCEPT ![a] = NoInput]
  /\ adcIsr' = [adcIsr EXCEPT ![a] = <<simple_channel[a], buf[a]>>]
  /\ UNCHANGED <<dmaVars, adon, adie, ch0sa, conv, buf, start, scan>>
_ADC1Interrupt == AdcInterrupt(1)
_ADC2Interrupt == AdcInterrupt(2)

AdcReturn(a) ==
  /\ adcIsr[a] # None /\ start[a].at = "none"
  /\ adcIsr' = [adcIsr EXCEPT ![a] = None]
  /\ UNCHANGED <<dmaVars, adcHw, simple_channel, start, scan>>

(* adcx_init_scan_dma: the converter off, the DMA channel set up for the    *)
(* build mode and the number of buffers, then both enabled.  In the one     *)
(* shot mode the converter is left to the application (adcx_enable).        *)
ScanMode(oneShot, two) ==
  IF oneShot THEN (IF two THEN "one_shot_ping_pong" ELSE "one_shot")
  ELSE IF two THEN "continuous_ping_pong" ELSE "continuous"

ScanSetup(a, oneShot, two) ==
  /\ ProgramFree /\ conv[a] = NoInput
  /\ scan[a] = "off" \/ (InitAnyTime /\ scan[a] = "on")
  /\ adon' = [adon EXCEPT ![a] = FALSE] /\ adif' = [adif EXCEPT ![a] = FALSE]
  /\ adie' = [adie EXCEPT ![a] = FALSE]
  /\ dma_init_channel(AdcChannel[a], ScanMode(oneShot, two), "scan")
  /\ scan' = [scan EXCEPT ![a] = "enable"]
  /\ UNCHANGED <<ch0sa, conv, buf, simple_channel, adcIsr, start>>
adc1_init_scan_dma == \E o, b \in BOOLEAN : ScanSetup(1, o, b)
adc2_init_scan_dma == \E o, b \in BOOLEAN : ScanSetup(2, o, b)

ScanEnable(a) ==
  /\ ProgramRuns /\ scan[a] = "enable"
  /\ dma_enable_channel(AdcChannel[a])
  /\ adon' = [adon EXCEPT ![a] = ~OneShot(dma[AdcChannel[a]].mode)]
  /\ scan' = [scan EXCEPT ![a] = "on"]
  /\ UNCHANGED <<adif, adie, ch0sa, conv, buf, simple_channel, adcIsr, start>>

(* The application: adcx_enable after a one-shot initialisation; the end of *)
(* a scan, adcx_disable and dma_disable_channel.                            *)
adc_enable(a) ==
  /\ ProgramFree /\ scan[a] = "on" /\ ~adon[a]
  /\ adon' = [adon EXCEPT ![a] = TRUE]
  /\ UNCHANGED <<dmaVars, adif, adie, ch0sa, conv, buf, simple_channel, adcIsr, start, scan>>
adc_disable(a) ==
  /\ ProgramFree /\ scan[a] = "on"
  /\ dma_disable_channel(AdcChannel[a])
  /\ adon' = [adon EXCEPT ![a] = FALSE]
  /\ scan' = [scan EXCEPT ![a] = "off"]
  /\ UNCHANGED <<adif, adie, ch0sa, conv, buf, simple_channel, adcIsr, start>>

Scanned(a) ==
  /\ scan[a] = "on" /\ adon[a] /\ Complete(AdcChannel[a])
  /\ UNCHANGED <<adcHw, simple_channel, adcIsr, start, scan>>
ScanIsr(a) ==
  /\ NoIsr /\ EnterIsr(AdcChannel[a])
  /\ UNCHANGED <<adcHw, simple_channel, adcIsr, start, scan>>
ScanReturn ==
  /\ Serving("scan") /\ LeaveIsr
  /\ UNCHANGED <<adcHw, simple_channel, adcIsr, start, scan>>

AdcNext ==
  \/ adc1_init_simple \/ adc2_init_simple
  \/ adc1_start_simple_conversion \/ adc2_start_simple_conversion
  \/ _ADC1Interrupt \/ _ADC2Interrupt
  \/ adc1_init_scan_dma \/ adc2_init_scan_dma
  \/ ScanReturn
  \/ \E a \in Adcs :
       \/ StartSelect(a) \/ StartSample(a) \/ Converted(a) \/ AdcReturn(a)
       \/ ScanEnable(a) \/ adc_enable(a) \/ adc_disable(a) \/ Scanned(a) \/ ScanIsr(a)

(* When no scan is set up the idle mode is allowed again, whatever modes the *)
(* scans had and however far they came (adc.c:245-389, dma.c:429-556).      *)
ScanIdleHonest == (\A a \in Adcs : scan[a] = "off") => idle = 0

(* A conversion is reported with the input it was made on: the channel the  *)
(* interrupt reads back (adc.c:679-708) is the one whose value is in the    *)
(* buffer, whoever started it and however soon the callback starts another. *)
Labelled == \A a \in Adcs : adcIsr[a] # None => adcIsr[a][1] = adcIsr[a][2]
=============================================================================
