-------------------------- MODULE DmaClientsProofs --------------------------
(***************************************************************************)
(* Theorems about the clients of the DMA wrapper, for every set of         *)
(* channels and inputs, every length of a transfer and every number of     *)
(* transfers.                                                              *)
(***************************************************************************)
EXTENDS MCDmaClients, TLAPS

-----------------------------------------------------------------------------
(* The wrapper.  Its state, and what its operations do to one channel.      *)
Modes == {"continuous", "one_shot", "continuous_ping_pong", "one_shot_ping_pong"}
Registers == [chen : BOOLEAN, mode : Modes, iflag : BOOLEAN, ie : BOOLEAN, hw : {0, 1}]

DmaTypes ==
  /\ dma \in [Channels -> Registers]
  /\ DMA_Data \in [0 .. 7 -> Callbacks \cup {None}]
  /\ pingpong_dma \in [Channels -> {0, 1}]
  /\ idle \in Int /\ isr \in Served \cup {None}

Busy(c) == isr # None /\ isr.channel = c

(* The count kept by software is behind the hardware by the completion that *)
(* is pending and by the one being served.                                  *)
Phase(c) == (dma[c].hw = pingpong_dma[c]) <=> (dma[c].iflag <=> Busy(c))

(* A channel that is not in use: nothing runs, is pending or is served.     *)
Fresh(c) == ~dma[c].chen /\ ~dma[c].iflag /\ pingpong_dma[c] = 0 /\ ~Busy(c)

Same(c) ==
  /\ dma'[c] = dma[c] /\ pingpong_dma'[c] = pingpong_dma[c] /\ (Busy(c)' <=> Busy(c))

LEMMA SameKeeps ==
  ASSUME NEW c \in Channels, Same(c)
  PROVE  /\ Phase(c)' <=> Phase(c)
         /\ Fresh(c)' <=> Fresh(c)
BY DEF Same, Phase, Fresh

LEMMA InitChannel ==
  ASSUME DmaTypes, NEW c \in Channels, NEW mode \in Modes,
         NEW called \in Callbacks \cup {None}, dma_init_channel(c, mode, called)
  PROVE  /\ DmaTypes' /\ idle' = idle /\ isr' = isr /\ pingpong_dma' = pingpong_dma
         /\ dma'[c].mode = mode /\ ~dma'[c].chen /\ ~dma'[c].iflag
         /\ dma'[c].ie <=> called # None
         /\ dma'[c].hw = 0
         /\ \A e \in Channels \ {c} : Same(e)
<1> DEFINE set(b) == [chen |-> FALSE, mode |-> mode, iflag |-> FALSE, ie |-> b, hw |-> 0]
<1>1. DataSlot(c) \in 0 .. 7
  BY ClientsAssumption DEF DataSlot
<1>2. \A b \in BOOLEAN : set(b) \in Registers
  BY DEF Registers
<1>3. PICK b \in BOOLEAN : (b <=> called # None) /\ dma' = [dma EXCEPT ![c] = set(b)]
  <2>1. CASE called = None
    BY <2>1 DEF dma_init_channel
  <2>2. CASE called # None
    BY <2>2 DEF dma_init_channel
  <2>3. QED
    BY <2>1, <2>2
<1>4. UNCHANGED <<pingpong_dma, idle, isr>>
      /\ (DMA_Data' = DMA_Data \/ DMA_Data' = [DMA_Data EXCEPT ![DataSlot(c)] = called])
  BY DEF dma_init_channel
<1>5. DmaTypes'
  <2>1. dma' \in [Channels -> Registers]
    <3> HIDE DEF set
    <3> QED BY <1>2, <1>3 DEF DmaTypes
  <2>2. QED
    BY <1>1, <1>4, <2>1 DEF DmaTypes
<1>6. QED
  BY <1>3, <1>4, <1>5 DEF DmaTypes, Same, Busy

LEMMA EnableChannel ==
  ASSUME DmaTypes, NEW c \in Channels, dma_enable_channel(c)
  PROVE  /\ DmaTypes' /\ isr' = isr /\ pingpong_dma' = pingpong_dma
         /\ idle' = IF OneShot(dma[c].mode) THEN clock_disable_idle(idle) ELSE idle
         /\ dma'[c] = [dma[c] EXCEPT !.chen = TRUE, !.hw = 0]
         /\ \A e \in Channels \ {c} : Same(e)
<1>1. dma' = [dma EXCEPT ![c] = [dma[c] EXCEPT !.chen = TRUE, !.hw = 0]]
  BY DEF dma_enable_channel, DmaTypes, Registers
<1>2. UNCHANGED <<DMA_Data, pingpong_dma, isr>>
      /\ idle' = IF OneShot(dma[c].mode) THEN clock_disable_idle(idle) ELSE idle
  BY DEF dma_enable_channel
<1>3. DmaTypes'
  <2>1. idle' \in Int
    BY <1>2 DEF DmaTypes, clock_disable_idle
  <2>2. dma' \in [Channels -> Registers]
    BY <1>1 DEF DmaTypes, Registers
  <2>3. QED
    BY <1>2, <2>1, <2>2 DEF DmaTypes
<1>4. QED
  BY <1>1, <1>2, <1>3 DEF DmaTypes, Same, Busy

LEMMA DisableChannel ==
  ASSUME DmaTypes, NEW c \in Channels, dma_disable_channel(c)
  PROVE  /\ DmaTypes' /\ isr' = isr /\ pingpong_dma'[c] = 0
         /\ idle' = IF OneShot(dma[c].mode) THEN clock_enable_idle(idle) ELSE idle
         /\ dma'[c] = [dma[c] EXCEPT !.chen = FALSE]
         /\ \A e \in Channels \ {c} : Same(e)
<1>1. dma' = [dma EXCEPT ![c] = [dma[c] EXCEPT !.chen = FALSE]]
  BY DEF dma_disable_channel, DmaTypes, Registers
<1>2. UNCHANGED <<DMA_Data, isr>> /\ pingpong_dma' = [pingpong_dma EXCEPT ![c] = 0]
      /\ idle' = IF OneShot(dma[c].mode) THEN clock_enable_idle(idle) ELSE idle
  BY DEF dma_disable_channel
<1>3. DmaTypes'
  <2>1. idle' \in Int
    BY <1>2 DEF DmaTypes, clock_enable_idle
  <2>2. dma' \in [Channels -> Registers]
    BY <1>1 DEF DmaTypes, Registers
  <2>3. QED
    BY <1>2, <2>1, <2>2 DEF DmaTypes
<1>4. QED
  BY <1>1, <1>2, <1>3 DEF DmaTypes, Same, Busy

LEMMA CompleteChannel ==
  ASSUME DmaTypes, NEW c \in Channels, Complete(c)
  PROVE  /\ DmaTypes' /\ UNCHANGED <<isr, pingpong_dma, idle>>
         /\ dma'[c] = [dma[c] EXCEPT !.iflag = TRUE, !.chen = ~OneShot(dma[c].mode),
                         !.hw = IF PingPong(dma[c].mode) THEN 1 - dma[c].hw ELSE dma[c].hw]
         /\ \A e \in Channels \ {c} : Same(e)
<1>1. dma' = [dma EXCEPT ![c] =
                [dma[c] EXCEPT !.iflag = TRUE, !.chen = ~OneShot(dma[c].mode),
                         !.hw = IF PingPong(dma[c].mode) THEN 1 - dma[c].hw ELSE dma[c].hw]]
  BY DEF Complete, DmaTypes, Registers
<1>2. UNCHANGED <<DMA_Data, pingpong_dma, idle, isr>>
  BY DEF Complete
<1>3. DmaTypes'
  <2> DEFINE turned == IF PingPong(dma[c].mode) THEN 1 - dma[c].hw ELSE dma[c].hw
             next(b) == [dma[c] EXCEPT !.iflag = TRUE, !.chen = b, !.hw = turned]
  <2>1. \A b \in BOOLEAN : next(b) \in Registers
    <3>1. dma[c] \in Registers
      BY DEF DmaTypes
    <3>2. turned \in {0, 1}
      BY <3>1 DEF Registers
    <3> HIDE DEF turned
    <3>3. QED
      BY <3>1, <3>2 DEF Registers
  <2>2. (~OneShot(dma[c].mode)) \in BOOLEAN
    BY Zenon
  <2>3. next(~OneShot(dma[c].mode)) \in Registers
    <3> HIDE DEF next
    <3> QED BY <2>1, <2>2, Zenon
  <2>4. dma' \in [Channels -> Registers]
    BY <1>1, <2>3, Zenon DEF DmaTypes
  <2>5. QED
    BY <1>2, <2>4 DEF DmaTypes
<1>4. QED
  BY <1>1, <1>2, <1>3 DEF DmaTypes, Same, Busy

LEMMA EnterChannel ==
  ASSUME DmaTypes, NEW c \in Channels, EnterIsr(c)
  PROVE  /\ DmaTypes' /\ UNCHANGED <<pingpong_dma, idle>>
         /\ isr = None /\ isr' # None /\ isr'.channel = c /\ isr'.callback = DMA_Data[c]
         /\ isr'.first = (pingpong_dma[c] = 0)
         /\ dma[c].iflag /\ dma'[c] = [dma[c] EXCEPT !.iflag = FALSE]
         /\ \A e \in Channels \ {c} : Same(e)
<1>1. dma' = [dma EXCEPT ![c] = [dma[c] EXCEPT !.iflag = FALSE]]
  BY DEF EnterIsr, DmaTypes, Registers
<1>2. /\ UNCHANGED <<DMA_Data, pingpong_dma, idle>> /\ isr = None /\ dma[c].iflag
      /\ isr' = [channel |-> c, callback |-> DMA_Data[c], first |-> pingpong_dma[c] = 0]
  BY DEF EnterIsr, Pending
<1>3. isr' \in Served
  BY <1>2, ClientsAssumption DEF Served, DmaTypes
<1>4. isr' # None
  BY <1>3, NoneAssumption
<1>5. DmaTypes'
  BY <1>1, <1>2, <1>3 DEF DmaTypes, Registers
<1>6. QED
  BY <1>1, <1>2, <1>4, <1>5 DEF DmaTypes, Same, Busy

LEMMA LeaveChannel ==
  ASSUME DmaTypes, LeaveIsr
  PROVE  /\ DmaTypes' /\ UNCHANGED <<dma, DMA_Data, idle>>
         /\ isr # None /\ isr' = None /\ isr.channel \in Channels
         /\ pingpong_dma'[isr.channel] = 1 - pingpong_dma[isr.channel]
         /\ \A e \in Channels : e # isr.channel => Same(e)
<1>1. /\ UNCHANGED <<dma, DMA_Data, idle>> /\ isr # None /\ isr' = None
      /\ pingpong_dma' = [pingpong_dma EXCEPT ![isr.channel] = 1 - pingpong_dma[isr.channel]]
  BY DEF LeaveIsr, DmaTypes
<1>2. isr.channel \in Channels
  BY <1>1 DEF DmaTypes, Served
<1>3. DmaTypes'
  BY <1>1, <1>2 DEF DmaTypes
<1>4. QED
  BY <1>1, <1>2, <1>3 DEF DmaTypes, Same, Busy

-----------------------------------------------------------------------------
(* Single conversions.                                                      *)
AdcTypes ==
  /\ adon \in [A!Adcs -> BOOLEAN] /\ adif \in [A!Adcs -> BOOLEAN] /\ adie \in [A!Adcs -> BOOLEAN]
  /\ simple_channel \in [A!Adcs -> Int] /\ conv \in [A!Adcs -> Int]
  /\ ch0sa \in [A!Adcs -> Int] /\ buf \in [A!Adcs -> Int]
  /\ adcIsr \in [A!Adcs -> {None} \cup (Int \X Int)]
  /\ start \in [A!Adcs -> [at : {"none", "select", "sample"}, input : Int]]
  /\ scan \in [A!Adcs -> {"off", "enable", "on"}]

(* What simple_channel is worth at each moment: the input of the conversion *)
(* in progress, then of the value in the buffer, until the interrupt takes  *)
(* it; nothing while a new start is being tested.                           *)
ConvInv == \A a \in A!Adcs :
  /\ simple_channel[a] < 0 => simple_channel[a] = A!NoInput
  /\ conv[a] # A!NoInput => conv[a] = simple_channel[a] /\ ~adif[a] /\ start[a].at = "none"
  /\ adif[a] => buf[a] = simple_channel[a] /\ buf[a] \in Nat /\ start[a].at = "none"
  /\ start[a].at # "none" => start[a].input \in Nat
  /\ start[a].at = "select" => simple_channel[a] = A!NoInput
  /\ start[a].at = "sample" => simple_channel[a] = start[a].input /\ ch0sa[a] = start[a].input

AdcInv == AdcTypes /\ ConvInv /\ A!Labelled

LEMMA AdcInitInv == A!AdcInit => AdcInv
BY DEF A!AdcInit, AdcInv, AdcTypes, ConvInv, A!Labelled, A!Adcs, A!NoInput, A!NoStart

LEMMA StartKeeps ==
  ASSUME Inputs \subseteq Nat, AdcInv, NEW a \in A!Adcs,
         (\E i \in Inputs : A!StartTest(a, i)) \/ A!StartSelect(a) \/ A!StartSample(a)
  PROVE  AdcInv'
<1>1. CASE \E i \in Inputs : A!StartTest(a, i)
  <2>1. PICK i \in Inputs : A!StartTest(a, i)
    BY <1>1
  <2>2. QED
    BY <2>1 DEF AdcInv, AdcTypes, ConvInv, A!Labelled, A!NoInput, A!StartTest, A!adcHw
<1>2. CASE A!StartSelect(a)
  BY <1>2 DEF AdcInv, AdcTypes, ConvInv, A!Labelled, A!NoInput, A!StartSelect, A!StartRuns
<1>3. CASE A!StartSample(a)
  BY <1>3 DEF AdcInv, AdcTypes, ConvInv, A!Labelled, A!NoInput, A!NoStart, A!StartSample,
              A!StartRuns
<1>4. QED
  BY <1>1, <1>2, <1>3

LEMMA ConversionKeeps ==
  ASSUME AdcInv, NEW a \in A!Adcs,
         A!Converted(a) \/ A!AdcInterrupt(a) \/ A!AdcReturn(a)
  PROVE  AdcInv'
<1>1. CASE A!Converted(a)
  BY <1>1 DEF AdcInv, AdcTypes, ConvInv, A!Labelled, A!NoInput, A!Converted
<1>2. CASE A!AdcInterrupt(a)
  BY <1>2 DEF AdcInv, AdcTypes, ConvInv, A!Labelled, A!NoInput, A!AdcInterrupt
<1>3. CASE A!AdcReturn(a)
  BY <1>3 DEF AdcInv, AdcTypes, ConvInv, A!Labelled, A!AdcReturn, A!adcHw
<1>4. QED
  BY <1>1, <1>2, <1>3

LEMMA SetUpKeeps ==
  ASSUME ~InitAnyTime, AdcInv, NEW a \in A!Adcs,
         A!InitSimple(a) \/ (\E o, b \in BOOLEAN : A!ScanSetup(a, o, b)) \/ A!ScanEnable(a)
         \/ A!adc_enable(a) \/ A!adc_disable(a)
  PROVE  AdcInv'
<1>1. CASE A!InitSimple(a)
  BY <1>1 DEF AdcInv, AdcTypes, ConvInv, A!Labelled, A!NoInput, A!InitSimple, A!ProgramFree
<1>2. CASE \E o, b \in BOOLEAN : A!ScanSetup(a, o, b)
  <2>1. /\ adon' = [adon EXCEPT ![a] = FALSE] /\ adif' = [adif EXCEPT ![a] = FALSE]
        /\ adie' = [adie EXCEPT ![a] = FALSE] /\ scan' = [scan EXCEPT ![a] = "enable"]
        /\ UNCHANGED <<ch0sa, conv, buf, simple_channel, adcIsr, start>>
    BY <1>2 DEF A!ScanSetup
  <2>2. QED
    BY <2>1 DEF AdcInv, AdcTypes, ConvInv, A!Labelled, A!NoInput
<1>3. CASE A!ScanEnable(a)
  BY <1>3 DEF AdcInv, AdcTypes, ConvInv, A!Labelled, A!NoInput, A!ScanEnable
<1>4. CASE A!adc_enable(a)
  BY <1>4 DEF AdcInv, AdcTypes, ConvInv, A!Labelled, A!NoInput, A!adc_enable
<1>5. CASE A!adc_disable(a)
  BY <1>5 DEF AdcInv, AdcTypes, ConvInv, A!Labelled, A!NoInput, A!adc_disable
<1>6. QED
  BY <1>1, <1>2, <1>3, <1>4, <1>5

LEMMA AdcKeepsInv ==
  ASSUME ~InitAnyTime, Inputs \subseteq Nat, AdcInv, A!AdcNext
  PROVE  AdcInv'
<1>1. CASE A!adc1_init_simple \/ A!adc2_init_simple
  BY <1>1, SetUpKeeps DEF A!adc1_init_simple, A!adc2_init_simple, A!Adcs
<1>2. CASE A!adc1_start_simple_conversion \/ A!adc2_start_simple_conversion
  BY <1>2, StartKeeps DEF A!adc1_start_simple_conversion, A!adc2_start_simple_conversion, A!Adcs
<1>3. CASE A!_ADC1Interrupt \/ A!_ADC2Interrupt
  BY <1>3, ConversionKeeps DEF A!_ADC1Interrupt, A!_ADC2Interrupt, A!Adcs
<1>4. CASE A!adc1_init_scan_dma \/ A!adc2_init_scan_dma
  BY <1>4, SetUpKeeps DEF A!adc1_init_scan_dma, A!adc2_init_scan_dma, A!Adcs
<1>5. CASE A!ScanReturn
  BY <1>5 DEF A!ScanReturn, A!adcHw, AdcInv, AdcTypes, ConvInv, A!Labelled
<1>6. ASSUME NEW a \in A!Adcs,
             A!StartSelect(a) \/ A!StartSample(a) \/ A!Converted(a) \/ A!AdcReturn(a)
             \/ A!ScanEnable(a) \/ A!adc_enable(a) \/ A!adc_disable(a)
      PROVE  AdcInv'
  BY <1>6, StartKeeps, ConversionKeeps, SetUpKeeps
<1>7. ASSUME NEW a \in A!Adcs, A!Scanned(a) \/ A!ScanIsr(a)
      PROVE  AdcInv'
  BY <1>7 DEF A!Scanned, A!ScanIsr, A!adcHw, AdcInv, AdcTypes, ConvInv, A!Labelled
<1>8. QED
  BY <1>1, <1>2, <1>3, <1>4, <1>5, <1>6, <1>7 DEF A!AdcNext

-----------------------------------------------------------------------------
(* The scans.  A channel is handed back as it was found, so that the next   *)
(* scan starts in step; between, the count follows the hardware.            *)
ScanAt(a, c) ==
  /\ scan[a] # "on" => Fresh(c)
  /\ scan[a] # "off" => dma[c].ie
  /\ scan[a] = "enable" => dma[c].hw = 0
  /\ Prompt /\ scan[a] = "on" /\ PingPong(dma[c].mode) => Phase(c)

ScanHeld(a) == scan[a] = "on" /\ OneShot(dma[ScanChannel[a]].mode)
Bit(b) == IF b THEN 1 ELSE 0

ScanInv ==
  /\ DmaTypes /\ AdcTypes
  /\ \A a \in A!Adcs : ScanAt(a, ScanChannel[a])
  /\ idle = Bit(ScanHeld(1)) + Bit(ScanHeld(2))

LEMMA ScanChannels ==
  /\ \A a \in A!Adcs : ScanChannel[a] \in Channels
  /\ \A a, b \in A!Adcs : a # b => ScanChannel[a] # ScanChannel[b]
BY ClientsAssumption DEF ScanChannel, A!Adcs

LEMMA ScanOther ==
  ASSUME ScanInv, NEW a \in A!Adcs, \A c \in Channels \ {ScanChannel[a]} : Same(c),
         \A b \in A!Adcs \ {a} : scan'[b] = scan[b]
  PROVE  /\ \A b \in A!Adcs \ {a} : ScanAt(b, ScanChannel[b])'
         /\ \A b \in A!Adcs \ {a} : ScanHeld(b)' <=> ScanHeld(b)
<1>1. SUFFICES ASSUME NEW b \in A!Adcs \ {a}
               PROVE  ScanAt(b, ScanChannel[b])' /\ (ScanHeld(b)' <=> ScanHeld(b))
  OBVIOUS
<1>2. ScanChannel[b] \in Channels \ {ScanChannel[a]}
  BY ScanChannels
<1>3. Same(ScanChannel[b]) /\ scan'[b] = scan[b]
  BY <1>2
<1>4. /\ Phase(ScanChannel[b])' <=> Phase(ScanChannel[b])
      /\ Fresh(ScanChannel[b])' <=> Fresh(ScanChannel[b])
  BY <1>2, <1>3, SameKeeps
<1>5. dma'[ScanChannel[b]] = dma[ScanChannel[b]]
  BY <1>3 DEF Same
<1>6. QED
  BY <1>3, <1>4, <1>5 DEF ScanInv, ScanAt, ScanHeld

LEMMA AdcWrapper ==
  /\ \A c, mode, called :
       A!dma_init_channel(c, mode, called) <=> dma_init_channel(c, mode, called)
  /\ \A c : A!dma_enable_channel(c) <=> dma_enable_channel(c)
  /\ \A c : A!dma_disable_channel(c) <=> dma_disable_channel(c)
  /\ \A c : A!Complete(c) <=> Complete(c)
  /\ \A c : A!EnterIsr(c) <=> EnterIsr(c)
  /\ A!LeaveIsr <=> LeaveIsr
<1>1. \A c, mode, called :
        A!dma_init_channel(c, mode, called) <=> dma_init_channel(c, mode, called)
  BY DEF A!dma_init_channel, dma_init_channel, A!DataSlot, DataSlot
<1>2. \A c : A!dma_enable_channel(c) <=> dma_enable_channel(c)
  BY DEF A!dma_enable_channel, dma_enable_channel, A!OneShot, OneShot, A!clock_disable_idle,
         clock_disable_idle
<1>3. \A c : A!dma_disable_channel(c) <=> dma_disable_channel(c)
  BY DEF A!dma_disable_channel, dma_disable_channel, A!OneShot, OneShot, A!clock_enable_idle,
         clock_enable_idle
<1>4. \A c : A!Complete(c) <=> Complete(c)
  BY DEF A!Complete, Complete, A!Pending, Pending, A!OneShot, OneShot, A!PingPong, PingPong
<1>5. \A c : A!EnterIsr(c) <=> EnterIsr(c)
  BY DEF A!EnterIsr, EnterIsr, A!Pending, Pending
<1>6. A!LeaveIsr <=> LeaveIsr
  BY DEF A!LeaveIsr, LeaveIsr
<1>7. QED
  BY <1>1, <1>2, <1>3, <1>4, <1>5, <1>6

(* The count moves with the one scan that takes or releases the idle mode.  *)
LEMMA CountMoves ==
  ASSUME NEW n \in Int, NEW held \in BOOLEAN, NEW other \in BOOLEAN,
         n = Bit(held) + Bit(other), MaxIdle >= 2
  PROVE  /\ ~held => clock_disable_idle(n) = Bit(TRUE) + Bit(other)
         /\ held => clock_enable_idle(n) = Bit(FALSE) + Bit(other)
BY ClientsAssumption DEF Bit, clock_disable_idle, clock_enable_idle

LEMMA ProgramAlone ==
  ASSUME A!ProgramRuns
  PROVE  isr = None /\ \A c \in Channels : ~(dma[c].iflag /\ dma[c].ie)
BY DEF A!ProgramRuns, A!NoIsr, A!Interrupts, A!SomePending, A!Pending

LEMMA ScanTotal ==
  ASSUME ScanInv, NEW a \in A!Adcs
  PROVE  \E other \in BOOLEAN :
           /\ \A b \in A!Adcs \ {a} : other <=> ScanHeld(b)
           /\ idle = Bit(ScanHeld(a)) + Bit(other)
           /\ ((\A b \in A!Adcs \ {a} : ScanHeld(b)' <=> ScanHeld(b))
               /\ idle' = Bit(ScanHeld(a)') + Bit(other)
                => idle' = Bit(ScanHeld(1)') + Bit(ScanHeld(2)'))
<1> DEFINE Goal ==
      \E other \in BOOLEAN :
        /\ \A b \in A!Adcs \ {a} : other <=> ScanHeld(b)
        /\ idle = Bit(ScanHeld(a)) + Bit(other)
        /\ ((\A b \in A!Adcs \ {a} : ScanHeld(b)' <=> ScanHeld(b))
            /\ idle' = Bit(ScanHeld(a)') + Bit(other)
             => idle' = Bit(ScanHeld(1)') + Bit(ScanHeld(2)'))
<1>1. ASSUME a = 1 PROVE Goal
  <2>1. A!Adcs \ {a} = {2}
    BY <1>1 DEF A!Adcs
  <2>2. idle = Bit(ScanHeld(a)) + Bit(ScanHeld(2))
    BY <1>1 DEF ScanInv, Bit
  <2>3. PICK other \in BOOLEAN : other <=> ScanHeld(2)
    <3>1. CASE ScanHeld(2)
      BY <3>1
    <3>2. CASE ~ScanHeld(2)
      BY <3>2
    <3>3. QED
      BY <3>1, <3>2
  <2>4. idle = Bit(ScanHeld(a)) + Bit(other)
    BY <2>2, <2>3 DEF Bit
  <2>5. ASSUME ScanHeld(2)' <=> ScanHeld(2), idle' = Bit(ScanHeld(a)') + Bit(other)
        PROVE  idle' = Bit(ScanHeld(1)') + Bit(ScanHeld(2)')
    BY <1>1, <2>3, <2>5 DEF Bit
  <2>6. QED
    BY <2>1, <2>3, <2>4, <2>5
<1>2. ASSUME a = 2 PROVE Goal
  <2>1. A!Adcs \ {a} = {1}
    BY <1>2 DEF A!Adcs
  <2>2. idle = Bit(ScanHeld(a)) + Bit(ScanHeld(1))
    BY <1>2 DEF ScanInv, Bit
  <2>3. PICK other \in BOOLEAN : other <=> ScanHeld(1)
    <3>1. CASE ScanHeld(1)
      BY <3>1
    <3>2. CASE ~ScanHeld(1)
      BY <3>2
    <3>3. QED
      BY <3>1, <3>2
  <2>4. idle = Bit(ScanHeld(a)) + Bit(other)
    BY <2>2, <2>3 DEF Bit
  <2>5. ASSUME ScanHeld(1)' <=> ScanHeld(1), idle' = Bit(ScanHeld(a)') + Bit(other)
        PROVE  idle' = Bit(ScanHeld(1)') + Bit(ScanHeld(2)')
    BY <1>2, <2>3, <2>5 DEF Bit
  <2>6. QED
    BY <2>1, <2>3, <2>4, <2>5
<1>3. QED
  BY <1>1, <1>2 DEF A!Adcs

LEMMA ScanSetupKeeps ==
  ASSUME ~InitAnyTime, ScanInv, AdcTypes', NEW a \in A!Adcs, NEW o \in BOOLEAN, NEW t \in BOOLEAN,
         A!ScanSetup(a, o, t)
  PROVE  ScanInv'
<1> DEFINE c == ScanChannel[a]
<1>1. c \in Channels
  BY ScanChannels
<1>2. A!ScanMode(o, t) \in Modes /\ "scan" \in Callbacks /\ "scan" # None
  BY NoneAssumption DEF A!ScanMode, Modes, Callbacks
<1>3. /\ dma_init_channel(c, A!ScanMode(o, t), "scan")
      /\ scan[a] = "off" /\ scan' = [scan EXCEPT ![a] = "enable"]
  BY AdcWrapper DEF A!ScanSetup
<1>4. /\ DmaTypes' /\ idle' = idle /\ isr' = isr /\ pingpong_dma' = pingpong_dma
      /\ ~dma'[c].chen /\ ~dma'[c].iflag /\ dma'[c].ie /\ dma'[c].hw = 0
      /\ \A e \in Channels \ {c} : Same(e)
  <2> HIDE DEF c
  <2>1. A!ScanMode(o, t) \in Modes /\ "scan" \in Callbacks \cup {None}
    BY <1>2
  <2> DEFINE mode == A!ScanMode(o, t)
  <2>2. mode \in Modes /\ dma_init_channel(c, mode, "scan")
    BY <1>2, <1>3
  <2> HIDE DEF mode
  <2>3. QED
    BY <1>1, <1>2, <2>1, <2>2, InitChannel DEF ScanInv
<1>5. scan'[a] = "enable" /\ \A b \in A!Adcs \ {a} : scan'[b] = scan[b]
  BY <1>3 DEF ScanInv, AdcTypes
<1>6. ScanAt(a, c)'
  BY <1>3, <1>4, <1>5 DEF ScanInv, ScanAt, Fresh, Busy
<1>7. /\ \A b \in A!Adcs \ {a} : ScanAt(b, ScanChannel[b])'
      /\ \A b \in A!Adcs \ {a} : ScanHeld(b)' <=> ScanHeld(b)
  BY <1>4, <1>5, ScanOther
<1>8. ~ScanHeld(a) /\ ~ScanHeld(a)'
  BY <1>3, <1>5 DEF ScanHeld
<1>9. idle' = Bit(ScanHeld(1)') + Bit(ScanHeld(2)')
  BY <1>4, <1>7, <1>8, ScanTotal DEF Bit
<1>10. QED
  BY <1>4, <1>6, <1>7, <1>9 DEF ScanInv

LEMMA ScanEnableKeeps ==
  ASSUME MaxIdle >= 2, ScanInv, AdcTypes', NEW a \in A!Adcs, A!ScanEnable(a)
  PROVE  ScanInv'
<1> DEFINE c == ScanChannel[a]
<1>1. c \in Channels
  BY ScanChannels
<1>2. dma_enable_channel(c) /\ scan[a] = "enable" /\ scan' = [scan EXCEPT ![a] = "on"]
  BY AdcWrapper DEF A!ScanEnable
<1>3. /\ DmaTypes' /\ isr' = isr /\ pingpong_dma' = pingpong_dma
      /\ idle' = IF OneShot(dma[c].mode) THEN clock_disable_idle(idle) ELSE idle
      /\ dma'[c] = [dma[c] EXCEPT !.chen = TRUE, !.hw = 0]
      /\ \A e \in Channels \ {c} : Same(e)
  BY <1>1, <1>2, EnableChannel DEF ScanInv
<1>4. dma'[c].iflag = dma[c].iflag /\ dma'[c].ie = dma[c].ie /\ dma'[c].hw = 0
      /\ dma'[c].mode = dma[c].mode
  BY <1>1, <1>3 DEF ScanInv, DmaTypes, Registers
<1>5. scan'[a] = "on" /\ \A b \in A!Adcs \ {a} : scan'[b] = scan[b]
  BY <1>2 DEF ScanInv, AdcTypes
<1>6. ScanAt(a, c)'
  BY <1>2, <1>3, <1>4, <1>5 DEF ScanInv, ScanAt, Fresh, Phase, Busy
<1>7. /\ \A b \in A!Adcs \ {a} : ScanAt(b, ScanChannel[b])'
      /\ \A b \in A!Adcs \ {a} : ScanHeld(b)' <=> ScanHeld(b)
  BY <1>3, <1>5, ScanOther
<1>8. ~ScanHeld(a) /\ (ScanHeld(a)' <=> OneShot(dma[c].mode))
  BY <1>2, <1>4, <1>5 DEF ScanHeld
<1>9. idle' = Bit(ScanHeld(1)') + Bit(ScanHeld(2)')
  <2>1. PICK other \in BOOLEAN :
           /\ idle = Bit(ScanHeld(a)) + Bit(other)
           /\ ((\A b \in A!Adcs \ {a} : ScanHeld(b)' <=> ScanHeld(b))
               /\ idle' = Bit(ScanHeld(a)') + Bit(other)
                => idle' = Bit(ScanHeld(1)') + Bit(ScanHeld(2)'))
    BY ScanTotal
  <2>2. Bit(ScanHeld(a)) = Bit(FALSE)
    BY <1>8 DEF Bit
  <2>3. clock_disable_idle(idle) = Bit(TRUE) + Bit(other)
    BY <2>1, <2>2, CountMoves DEF ScanInv, DmaTypes
  <2>4. idle' = Bit(ScanHeld(a)') + Bit(other)
    BY <1>3, <1>8, <2>1, <2>2, <2>3 DEF Bit
  <2>5. QED
    BY <1>7, <2>1, <2>4
<1>10. QED
  BY <1>3, <1>6, <1>7, <1>9 DEF ScanInv

LEMMA ScanStopKeeps ==
  ASSUME MaxIdle >= 2, ScanInv, AdcTypes', NEW a \in A!Adcs, A!adc_disable(a)
  PROVE  ScanInv'
<1> DEFINE c == ScanChannel[a]
<1>1. c \in Channels
  BY ScanChannels
<1>2. dma_disable_channel(c) /\ scan[a] = "on" /\ scan' = [scan EXCEPT ![a] = "off"]
  BY AdcWrapper DEF A!adc_disable
<1>3. /\ DmaTypes' /\ isr' = isr /\ pingpong_dma'[c] = 0
      /\ idle' = IF OneShot(dma[c].mode) THEN clock_enable_idle(idle) ELSE idle
      /\ dma'[c] = [dma[c] EXCEPT !.chen = FALSE]
      /\ \A e \in Channels \ {c} : Same(e)
  BY <1>1, <1>2, DisableChannel DEF ScanInv
<1>4. dma'[c].iflag = dma[c].iflag /\ dma'[c].ie = dma[c].ie /\ ~dma'[c].chen
      /\ dma'[c].mode = dma[c].mode
  BY <1>1, <1>3 DEF ScanInv, DmaTypes, Registers
<1>5. scan'[a] = "off" /\ \A b \in A!Adcs \ {a} : scan'[b] = scan[b]
  BY <1>2 DEF ScanInv, AdcTypes
<1>6. isr = None /\ ~(dma[c].iflag /\ dma[c].ie)
  BY <1>1, ProgramAlone DEF A!adc_disable, A!ProgramFree
<1>7. ScanAt(a, c)'
  BY <1>2, <1>3, <1>4, <1>5, <1>6 DEF ScanInv, ScanAt, Fresh, Busy
<1>8. /\ \A b \in A!Adcs \ {a} : ScanAt(b, ScanChannel[b])'
      /\ \A b \in A!Adcs \ {a} : ScanHeld(b)' <=> ScanHeld(b)
  BY <1>3, <1>5, ScanOther
<1>9. ~ScanHeld(a)' /\ (ScanHeld(a) <=> OneShot(dma[c].mode))
  BY <1>2, <1>5 DEF ScanHeld
<1>10. idle' = Bit(ScanHeld(1)') + Bit(ScanHeld(2)')
  <2>1. PICK other \in BOOLEAN :
           /\ idle = Bit(ScanHeld(a)) + Bit(other)
           /\ ((\A b \in A!Adcs \ {a} : ScanHeld(b)' <=> ScanHeld(b))
               /\ idle' = Bit(ScanHeld(a)') + Bit(other)
                => idle' = Bit(ScanHeld(1)') + Bit(ScanHeld(2)'))
    BY ScanTotal
  <2>2. Bit(ScanHeld(a)') = Bit(FALSE)
    BY <1>9 DEF Bit
  <2>3. CASE ScanHeld(a)
    <3>1. Bit(ScanHeld(a)) = Bit(TRUE)
      BY <2>3 DEF Bit
    <3>2. clock_enable_idle(idle) = Bit(FALSE) + Bit(other)
      BY <2>1, <3>1, CountMoves DEF ScanInv, DmaTypes
    <3>3. QED
      BY <1>3, <1>8, <1>9, <2>1, <2>2, <2>3, <3>2
  <2>4. CASE ~ScanHeld(a)
    <3>1. Bit(ScanHeld(a)) = Bit(FALSE) /\ idle' = idle
      BY <1>3, <1>9, <2>4 DEF Bit
    <3>2. QED
      BY <1>8, <2>1, <2>2, <3>1
  <2>5. QED
    BY <2>3, <2>4
<1>11. QED
  BY <1>3, <1>7, <1>8, <1>10 DEF ScanInv

(* Scans in which neither a converter nor a mode changes. *)
LEMMA ScanSteady ==
  ASSUME ScanInv, AdcTypes', DmaTypes', scan' = scan, idle' = idle,
         \A a \in A!Adcs : dma'[ScanChannel[a]].mode = dma[ScanChannel[a]].mode,
         \A a \in A!Adcs : ScanAt(a, ScanChannel[a])'
  PROVE  ScanInv'
<1>1. (ScanHeld(1)' <=> ScanHeld(1)) /\ (ScanHeld(2)' <=> ScanHeld(2))
  BY DEF ScanHeld, A!Adcs
<1>2. idle' = Bit(ScanHeld(1)') + Bit(ScanHeld(2)')
  BY <1>1 DEF ScanInv, Bit
<1>3. QED
  BY <1>2 DEF ScanInv

LEMMA ScannedKeeps ==
  ASSUME ScanInv, AdcTypes', NEW a \in A!Adcs, A!Scanned(a)
  PROVE  ScanInv'
<1> DEFINE c == ScanChannel[a]
<1>1. c \in Channels
  BY ScanChannels
<1>2. Complete(c) /\ scan[a] = "on" /\ scan' = scan
  BY AdcWrapper DEF A!Scanned
<1>3. /\ DmaTypes' /\ UNCHANGED <<isr, pingpong_dma, idle>>
      /\ dma'[c] = [dma[c] EXCEPT !.iflag = TRUE, !.chen = ~OneShot(dma[c].mode),
                      !.hw = IF PingPong(dma[c].mode) THEN 1 - dma[c].hw ELSE dma[c].hw]
      /\ \A e \in Channels \ {c} : Same(e)
  BY <1>1, <1>2, CompleteChannel DEF ScanInv
<1>4. dma'[c].iflag /\ dma'[c].ie = dma[c].ie /\ dma'[c].mode = dma[c].mode
      /\ (PingPong(dma[c].mode) => dma'[c].hw = 1 - dma[c].hw)
  BY <1>1, <1>3 DEF ScanInv, DmaTypes, Registers
<1>5. Prompt => ~(dma[c].iflag /\ dma[c].ie)
  BY <1>2 DEF Complete, Pending
<1>6. dma[c].hw \in {0, 1} /\ pingpong_dma[c] \in {0, 1}
  BY <1>1 DEF ScanInv, DmaTypes, Registers
<1>7. ScanAt(a, c)'
  BY <1>2, <1>3, <1>4, <1>5, <1>6 DEF ScanInv, ScanAt, Phase, Busy
<1>8. /\ \A b \in A!Adcs \ {a} : ScanAt(b, ScanChannel[b])'
  BY <1>2, <1>3, ScanOther
<1>9. \A b \in A!Adcs : dma'[ScanChannel[b]].mode = dma[ScanChannel[b]].mode
  <2>1. \A b \in A!Adcs \ {a} : ScanChannel[b] \in Channels \ {c}
    BY ScanChannels
  <2>2. \A b \in A!Adcs \ {a} : Same(ScanChannel[b])
    BY <1>3, <2>1
  <2>3. QED
    BY <1>4, <2>2 DEF Same
<1>10. QED
  BY <1>2, <1>3, <1>7, <1>8, <1>9, ScanSteady

LEMMA ScanIsrKeeps ==
  ASSUME ScanInv, AdcTypes', NEW a \in A!Adcs, A!ScanIsr(a)
  PROVE  /\ ScanInv'
         /\ isr'.channel = ScanChannel[a]
         /\ Prompt /\ PingPong(dma[isr'.channel].mode)
              => isr'.first = (dma[isr'.channel].hw = 1)
<1> DEFINE c == ScanChannel[a]
<1>1. c \in Channels
  BY ScanChannels
<1>2. EnterIsr(c) /\ scan' = scan
  BY AdcWrapper DEF A!ScanIsr
<1>3. /\ DmaTypes' /\ UNCHANGED <<pingpong_dma, idle>>
      /\ isr = None /\ isr' # None /\ isr'.channel = c
      /\ isr'.first = (pingpong_dma[c] = 0)
      /\ dma[c].iflag /\ dma'[c] = [dma[c] EXCEPT !.iflag = FALSE]
      /\ \A e \in Channels \ {c} : Same(e)
  BY <1>1, <1>2, EnterChannel DEF ScanInv
<1>4. ~dma'[c].iflag /\ dma'[c].ie = dma[c].ie /\ dma'[c].mode = dma[c].mode
      /\ dma'[c].hw = dma[c].hw
  BY <1>1, <1>3 DEF ScanInv, DmaTypes, Registers
<1>5. scan[a] = "on"
  BY <1>3 DEF ScanInv, ScanAt, Fresh
<1>6. dma[c].hw \in {0, 1} /\ pingpong_dma[c] \in {0, 1}
  BY <1>1 DEF ScanInv, DmaTypes, Registers
<1>7. Prompt /\ PingPong(dma[c].mode) => (dma[c].hw = 1 <=> pingpong_dma[c] = 0)
  BY <1>3, <1>5, <1>6 DEF ScanInv, ScanAt, Phase, Busy
<1>8. ScanAt(a, c)'
  BY <1>2, <1>3, <1>4, <1>5 DEF ScanInv, ScanAt, Phase, Busy
<1>9. /\ \A b \in A!Adcs \ {a} : ScanAt(b, ScanChannel[b])'
  BY <1>2, <1>3, ScanOther
<1>10. \A b \in A!Adcs : dma'[ScanChannel[b]].mode = dma[ScanChannel[b]].mode
  <2>1. \A b \in A!Adcs \ {a} : ScanChannel[b] \in Channels \ {c}
    BY ScanChannels
  <2>2. \A b \in A!Adcs \ {a} : Same(ScanChannel[b])
    BY <1>3, <2>1
  <2>3. QED
    BY <1>4, <2>2 DEF Same
<1>11. ScanInv'
  BY <1>2, <1>3, <1>8, <1>9, <1>10, ScanSteady
<1>12. Prompt /\ PingPong(dma[isr'.channel].mode) => isr'.first = (dma[isr'.channel].hw = 1)
  BY <1>3, <1>7
<1>13. QED
  BY <1>3, <1>11, <1>12

LEMMA ScanReturnKeeps ==
  ASSUME ScanInv, AdcTypes', A!ScanReturn
  PROVE  ScanInv'
<1>1. LeaveIsr /\ scan' = scan
  BY AdcWrapper DEF A!ScanReturn
<1>2. /\ DmaTypes' /\ UNCHANGED <<dma, idle>> /\ isr # None /\ isr' = None
      /\ isr.channel \in Channels
      /\ pingpong_dma'[isr.channel] = 1 - pingpong_dma[isr.channel]
      /\ \A e \in Channels : e # isr.channel => Same(e)
  BY <1>1, LeaveChannel DEF ScanInv
<1>3. SUFFICES ASSUME NEW a \in A!Adcs PROVE ScanAt(a, ScanChannel[a])'
  BY <1>1, <1>2, ScanSteady
<1> DEFINE c == ScanChannel[a]
<1>4. c \in Channels
  BY ScanChannels
<1>5. CASE c = isr.channel
  <2>1. scan[a] = "on"
    BY <1>2, <1>5 DEF ScanInv, ScanAt, Fresh, Busy
  <2>2. dma[c].hw \in {0, 1} /\ pingpong_dma[c] \in {0, 1}
    BY <1>4 DEF ScanInv, DmaTypes, Registers
  <2>3. QED
    BY <1>1, <1>2, <1>5, <2>1, <2>2 DEF ScanInv, ScanAt, Phase, Busy
<1>6. CASE c # isr.channel
  <2>1. Same(c)
    BY <1>2, <1>4, <1>6
  <2>2. (Phase(c)' <=> Phase(c)) /\ (Fresh(c)' <=> Fresh(c))
    BY <1>4, <2>1, SameKeeps
  <2>3. QED
    BY <1>1, <1>2, <2>2 DEF ScanInv, ScanAt
<1>7. QED
  BY <1>5, <1>6

LEMMA ScanQuiet ==
  ASSUME ScanInv, AdcTypes', UNCHANGED <<dmaVars, scan>>
  PROVE  ScanInv'
BY DEF ScanInv, ScanAt, Fresh, Phase, Busy, ScanHeld, Bit, DmaTypes, dmaVars

LEMMA ScansKeepInv ==
  ASSUME ~InitAnyTime, MaxIdle >= 2, ScanInv, AdcTypes', A!AdcNext
  PROVE  /\ ScanInv'
         /\ Prompt /\ isr = None /\ isr' # None /\ PingPong(dma[isr'.channel].mode)
              => isr'.first = (dma[isr'.channel].hw = 1)
<1> DEFINE Named == Prompt /\ isr = None /\ isr' # None /\ PingPong(dma[isr'.channel].mode)
                      => isr'.first = (dma[isr'.channel].hw = 1)
<1>1. ASSUME UNCHANGED <<dmaVars, scan>> PROVE ScanInv' /\ Named
  <2>1. isr' = isr
    BY <1>1 DEF dmaVars
  <2>2. QED
    BY <1>1, <2>1, ScanQuiet
<1>2. CASE A!adc1_init_simple \/ A!adc2_init_simple
  BY <1>1, <1>2 DEF A!adc1_init_simple, A!adc2_init_simple, A!InitSimple, A!dmaVars, dmaVars
<1>3. CASE A!adc1_start_simple_conversion \/ A!adc2_start_simple_conversion
  BY <1>1, <1>3 DEF A!adc1_start_simple_conversion, A!adc2_start_simple_conversion, A!StartTest,
                    A!dmaVars, dmaVars
<1>4. CASE A!_ADC1Interrupt \/ A!_ADC2Interrupt
  BY <1>1, <1>4 DEF A!_ADC1Interrupt, A!_ADC2Interrupt, A!AdcInterrupt, A!dmaVars, dmaVars
<1>5. ASSUME NEW a \in A!Adcs, NEW o \in BOOLEAN, NEW t \in BOOLEAN, A!ScanSetup(a, o, t)
      PROVE  ScanInv' /\ Named
  <2>1. isr' = isr
    BY <1>5 DEF A!ScanSetup, A!dma_init_channel
  <2>2. QED
    BY <1>5, <2>1, ScanSetupKeeps
<1>6. CASE A!adc1_init_scan_dma \/ A!adc2_init_scan_dma
  BY <1>5, <1>6 DEF A!adc1_init_scan_dma, A!adc2_init_scan_dma, A!Adcs
<1>7. CASE A!ScanReturn
  <2>1. isr' = None
    BY <1>7 DEF A!ScanReturn, A!LeaveIsr
  <2>2. QED
    BY <1>7, <2>1, ScanReturnKeeps
<1>8. ASSUME NEW a \in A!Adcs,
             A!StartSelect(a) \/ A!StartSample(a) \/ A!Converted(a) \/ A!AdcReturn(a)
             \/ A!adc_enable(a)
      PROVE  ScanInv' /\ Named
  BY <1>1, <1>8 DEF A!StartSelect, A!StartSample, A!Converted, A!AdcReturn, A!adc_enable,
                    A!dmaVars, dmaVars
<1>9. ASSUME NEW a \in A!Adcs, A!ScanEnable(a) \/ A!adc_disable(a) \/ A!Scanned(a)
      PROVE  ScanInv' /\ Named
  <2>1. isr' = isr
    BY <1>9 DEF A!ScanEnable, A!adc_disable, A!Scanned, A!dma_enable_channel,
                A!dma_disable_channel, A!Complete
  <2>2. QED
    BY <1>9, <2>1, ScanEnableKeeps, ScanStopKeeps, ScannedKeeps
<1>10. ASSUME NEW a \in A!Adcs, A!ScanIsr(a)
       PROVE  ScanInv' /\ Named
  BY <1>10, ScanIsrKeeps
<1>11. QED
  BY <1>2, <1>3, <1>4, <1>6, <1>7, <1>8, <1>9, <1>10 DEF A!AdcNext

-----------------------------------------------------------------------------
(* The DAC.  A side runs from its start to its stop; a side that does not   *)
(* run has the count at zero, so that it starts again in step.              *)
SideRuns(c) ==
  \/ dacAt \in {"start", "playing", "stop_l"}
  \/ dacAt = "start_r" /\ c = dma_channel_l
  \/ dacAt = "stop_r" /\ c = dma_channel_r
SideSet(c) == dacAt # "uninitialised" /\ (dacAt = "init_l" => c = dma_channel_r)

DacInv ==
  /\ DmaTypes
  /\ dacAt \in {"uninitialised", "init_l", "stopped", "start_r", "start", "playing", "stop_l",
                "stop_r"}
  /\ \A c \in D!Sides :
       /\ SideSet(c) => dma[c].ie /\ dma[c].mode = "continuous_ping_pong"
       /\ SideRuns(c) => Phase(c)
       /\ ~SideRuns(c) => pingpong_dma[c] = 0
       /\ dacAt # "playing" => ~dma[c].iflag
  /\ dacAt # "playing" => ~dacen /\ isr = None

LEMMA DacWrapper ==
  /\ \A c, mode, called :
       D!dma_init_channel(c, mode, called) <=> dma_init_channel(c, mode, called)
  /\ \A c : D!dma_enable_channel(c) <=> dma_enable_channel(c)
  /\ \A c : D!dma_disable_channel(c) <=> dma_disable_channel(c)
  /\ \A c : D!Complete(c) <=> Complete(c)
  /\ \A c : D!EnterIsr(c) <=> EnterIsr(c)
  /\ D!LeaveIsr <=> LeaveIsr
<1>1. \A c, mode, called :
        D!dma_init_channel(c, mode, called) <=> dma_init_channel(c, mode, called)
  BY DEF D!dma_init_channel, dma_init_channel, D!DataSlot, DataSlot
<1>2. \A c : D!dma_enable_channel(c) <=> dma_enable_channel(c)
  BY DEF D!dma_enable_channel, dma_enable_channel, D!OneShot, OneShot, D!clock_disable_idle,
         clock_disable_idle
<1>3. \A c : D!dma_disable_channel(c) <=> dma_disable_channel(c)
  BY DEF D!dma_disable_channel, dma_disable_channel, D!OneShot, OneShot, D!clock_enable_idle,
         clock_enable_idle
<1>4. \A c : D!Complete(c) <=> Complete(c)
  BY DEF D!Complete, Complete, D!Pending, Pending, D!OneShot, OneShot, D!PingPong, PingPong
<1>5. \A c : D!EnterIsr(c) <=> EnterIsr(c)
  BY DEF D!EnterIsr, EnterIsr, D!Pending, Pending
<1>6. D!LeaveIsr <=> LeaveIsr
  BY DEF D!LeaveIsr, LeaveIsr
<1>7. QED
  BY <1>1, <1>2, <1>3, <1>4, <1>5, <1>6

LEMMA SidesAreChannels ==
  D!Sides = {dma_channel_l, dma_channel_r} /\ D!Sides \subseteq Channels
  /\ dma_channel_l # dma_channel_r
BY ClientsAssumption DEF D!Sides

LEMMA DacSetupKeeps ==
  ASSUME DacInv, D!dac_init_r \/ D!dac_init_l
  PROVE  DacInv'
<1>1. ASSUME NEW c \in D!Sides, dma_init_channel(c, "continuous_ping_pong", "callback_dma")
      PROVE  /\ DmaTypes' /\ idle' = idle /\ isr' = isr /\ pingpong_dma' = pingpong_dma
             /\ dma'[c].mode = "continuous_ping_pong" /\ ~dma'[c].iflag /\ dma'[c].ie
             /\ \A e \in D!Sides \ {c} : dma'[e] = dma[e]
  <2>1. "callback_dma" # None /\ "callback_dma" \in Callbacks \cup {None}
        /\ "continuous_ping_pong" \in Modes
    BY NoneAssumption DEF Callbacks, Modes
  <2>2. c \in Channels
    BY SidesAreChannels
  <2>3. /\ DmaTypes' /\ idle' = idle /\ isr' = isr /\ pingpong_dma' = pingpong_dma
        /\ dma'[c].mode = "continuous_ping_pong" /\ ~dma'[c].iflag /\ dma'[c].ie
        /\ \A e \in Channels \ {c} : Same(e)
    BY <1>1, <2>1, <2>2, InitChannel DEF DacInv
  <2>4. QED
    BY <2>3, SidesAreChannels DEF Same
<1>2. CASE D!dac_init_r
  <2>1. dacAt = "uninitialised" /\ dacAt' = "init_l" /\ dacen' = dacen
        /\ dma_init_channel(dma_channel_r, "continuous_ping_pong", "callback_dma")
    BY <1>2, DacWrapper DEF D!dac_init_r, D!Goto
  <2>2. QED
    BY <1>1, <2>1, SidesAreChannels DEF DacInv, SideRuns, SideSet
<1>3. CASE D!dac_init_l
  <2>1. dacAt = "init_l" /\ dacAt' = "stopped" /\ dacen' = dacen
        /\ dma_init_channel(dma_channel_l, "continuous_ping_pong", "callback_dma")
    BY <1>3, DacWrapper DEF D!dac_init_l, D!Goto
  <2>2. QED
    BY <1>1, <2>1, SidesAreChannels DEF DacInv, SideRuns, SideSet
<1>4. QED
  BY <1>2, <1>3

LEMMA DacStartKeeps ==
  ASSUME DacInv, D!dac_start_l \/ D!dac_start_r \/ D!dac_start
  PROVE  DacInv'
<1>1. ASSUME NEW c \in D!Sides, dma_enable_channel(c)
      PROVE  /\ DmaTypes' /\ isr' = isr /\ pingpong_dma' = pingpong_dma
             /\ dma'[c].mode = dma[c].mode /\ dma'[c].iflag = dma[c].iflag
             /\ dma'[c].ie = dma[c].ie /\ dma'[c].hw = 0
             /\ \A e \in D!Sides \ {c} : dma'[e] = dma[e]
  <2>1. c \in Channels
    BY SidesAreChannels
  <2>2. /\ DmaTypes' /\ isr' = isr /\ pingpong_dma' = pingpong_dma
        /\ dma'[c] = [dma[c] EXCEPT !.chen = TRUE, !.hw = 0]
        /\ \A e \in Channels \ {c} : Same(e)
    BY <1>1, <2>1, EnableChannel DEF DacInv
  <2>3. dma[c] \in Registers
    BY <2>1 DEF DacInv, DmaTypes
  <2>4. QED
    BY <2>2, <2>3, SidesAreChannels DEF Same, Registers
<1>2. CASE D!dac_start_l
  <2>1. dacAt = "stopped" /\ dacAt' = "start_r" /\ dacen' = dacen
        /\ dma_enable_channel(dma_channel_l)
    BY <1>2, DacWrapper DEF D!dac_start_l, D!Goto
  <2>2. QED
    BY <1>1, <2>1, SidesAreChannels DEF DacInv, SideRuns, SideSet, Phase, Busy
<1>3. CASE D!dac_start_r
  <2>1. dacAt = "start_r" /\ dacAt' = "start" /\ dacen' = dacen
        /\ dma_enable_channel(dma_channel_r)
    BY <1>3, DacWrapper DEF D!dac_start_r, D!Goto
  <2>2. QED
    BY <1>1, <2>1, SidesAreChannels DEF DacInv, SideRuns, SideSet, Phase, Busy
<1>4. CASE D!dac_start
  BY <1>4 DEF D!dac_start, D!dmaVars, DacInv, DmaTypes, SideRuns, SideSet, Phase, Busy
<1>5. QED
  BY <1>2, <1>3, <1>4

LEMMA DacStopKeeps ==
  ASSUME Prompt, ~StopInCallback, DacInv, D!dac_stop \/ D!dac_stop_l \/ D!dac_stop_r
  PROVE  DacInv'
<1>1. ASSUME NEW c \in D!Sides, dma_disable_channel(c)
      PROVE  /\ DmaTypes' /\ isr' = isr /\ pingpong_dma'[c] = 0
             /\ dma'[c].mode = dma[c].mode /\ dma'[c].iflag = dma[c].iflag
             /\ dma'[c].ie = dma[c].ie
             /\ \A e \in D!Sides \ {c} : dma'[e] = dma[e] /\ pingpong_dma'[e] = pingpong_dma[e]
  <2>1. c \in Channels
    BY SidesAreChannels
  <2>2. /\ DmaTypes' /\ isr' = isr /\ pingpong_dma'[c] = 0
        /\ dma'[c] = [dma[c] EXCEPT !.chen = FALSE]
        /\ \A e \in Channels \ {c} : Same(e)
    BY <1>1, <2>1, DisableChannel DEF DacInv
  <2>3. dma[c] \in Registers
    BY <2>1 DEF DacInv, DmaTypes
  <2>4. QED
    BY <2>2, <2>3, SidesAreChannels DEF Same, Registers
<1>2. CASE D!dac_stop
  <2>1. isr = None /\ \A c \in D!Sides : ~(dma[c].iflag /\ dma[c].ie)
    BY <1>2, SidesAreChannels
       DEF D!dac_stop, D!AppRuns, D!CallbackRuns, D!SomePending, D!Pending
  <2>2. QED
    BY <1>2, <2>1 DEF D!dac_stop, D!dmaVars, DacInv, DmaTypes, SideRuns, SideSet, Phase, Busy
<1>3. CASE D!dac_stop_l
  <2>1. dacAt = "stop_l" /\ dacAt' = "stop_r" /\ dacen' = dacen
        /\ dma_disable_channel(dma_channel_l)
    BY <1>3, DacWrapper DEF D!dac_stop_l, D!Goto
  <2>2. QED
    BY <1>1, <2>1, SidesAreChannels DEF DacInv, SideRuns, SideSet, Phase, Busy
<1>4. CASE D!dac_stop_r
  <2>1. dacAt = "stop_r" /\ dacAt' = "stopped" /\ dacen' = dacen
        /\ dma_disable_channel(dma_channel_r)
    BY <1>4, DacWrapper DEF D!dac_stop_r, D!Goto
  <2>2. QED
    BY <1>1, <2>1, SidesAreChannels DEF DacInv, SideRuns, SideSet, Phase, Busy
<1>5. QED
  BY <1>2, <1>3, <1>4

LEMMA PlayedKeeps ==
  ASSUME Prompt, DacInv, NEW c \in D!Sides, D!Played(c)
  PROVE  DacInv'
<1>1. c \in Channels
  BY SidesAreChannels
<1>2. Complete(c) /\ dacen /\ UNCHANGED <<dacen, dacAt>>
  BY DacWrapper DEF D!Played
<1>3. dacAt = "playing"
  BY <1>2 DEF DacInv
<1>4. /\ DmaTypes' /\ UNCHANGED <<isr, pingpong_dma, idle>>
      /\ dma'[c] = [dma[c] EXCEPT !.iflag = TRUE, !.chen = ~OneShot(dma[c].mode),
                      !.hw = IF PingPong(dma[c].mode) THEN 1 - dma[c].hw ELSE dma[c].hw]
      /\ \A e \in Channels \ {c} : Same(e)
  BY <1>1, <1>2, CompleteChannel DEF DacInv
<1>5. dma'[c].iflag /\ dma'[c].ie = dma[c].ie /\ dma'[c].mode = dma[c].mode
      /\ (PingPong(dma[c].mode) => dma'[c].hw = 1 - dma[c].hw)
  BY <1>1, <1>4 DEF DacInv, DmaTypes, Registers
<1>6. dma[c].hw \in {0, 1} /\ pingpong_dma[c] \in {0, 1}
  BY <1>1 DEF DacInv, DmaTypes, Registers
<1>7. ~dma[c].iflag /\ PingPong(dma[c].mode)
  BY <1>2, <1>3 DEF Complete, Pending, DacInv, SideSet, PingPong
<1>8. Phase(c)'
  BY <1>3, <1>4, <1>5, <1>6, <1>7 DEF DacInv, SideRuns, Phase, Busy
<1>9. \A e \in D!Sides \ {c} : Same(e) /\ (Phase(e)' <=> Phase(e))
  BY <1>4, SidesAreChannels, SameKeeps
<1>10. QED
  BY <1>2, <1>3, <1>4, <1>5, <1>8, <1>9 DEF DacInv, SideRuns, SideSet, Same

LEMMA BufferIsrKeeps ==
  ASSUME DacInv, NEW c \in D!Sides, D!BufferIsr(c)
  PROVE  /\ DacInv'
         /\ isr'.channel = c /\ isr'.first = (dma[c].hw = 1)
<1>1. c \in Channels
  BY SidesAreChannels
<1>2. EnterIsr(c) /\ UNCHANGED <<dacen, dacAt>>
  BY DacWrapper DEF D!BufferIsr
<1>3. /\ DmaTypes' /\ UNCHANGED <<pingpong_dma, idle>>
      /\ isr = None /\ isr' # None /\ isr'.channel = c
      /\ isr'.first = (pingpong_dma[c] = 0)
      /\ dma[c].iflag /\ dma'[c] = [dma[c] EXCEPT !.iflag = FALSE]
      /\ \A e \in Channels \ {c} : Same(e)
  BY <1>1, <1>2, EnterChannel DEF DacInv
<1>4. dacAt = "playing"
  BY <1>3 DEF DacInv
<1>5. ~dma'[c].iflag /\ dma'[c].ie = dma[c].ie /\ dma'[c].mode = dma[c].mode
      /\ dma'[c].hw = dma[c].hw
  BY <1>1, <1>3 DEF DacInv, DmaTypes, Registers
<1>6. dma[c].hw \in {0, 1} /\ pingpong_dma[c] \in {0, 1}
  BY <1>1 DEF DacInv, DmaTypes, Registers
<1>7. dma[c].hw = 1 <=> pingpong_dma[c] = 0
  BY <1>3, <1>4, <1>6 DEF DacInv, SideRuns, Phase, Busy
<1>8. Phase(c)'
  BY <1>3, <1>4, <1>5 DEF DacInv, SideRuns, Phase, Busy
<1>9. \A e \in D!Sides \ {c} : Same(e) /\ (Phase(e)' <=> Phase(e))
  BY <1>3, SidesAreChannels, SameKeeps
<1>10. DacInv'
  <2>1. ASSUME NEW e \in D!Sides
        PROVE  dma'[e].ie /\ dma'[e].mode = "continuous_ping_pong" /\ Phase(e)'
    <3>1. dma[e].ie /\ dma[e].mode = "continuous_ping_pong" /\ Phase(e)
      BY <1>4 DEF DacInv, SideRuns, SideSet
    <3>2. QED
      BY <1>5, <1>8, <1>9, <3>1 DEF Same
  <2>2. QED
    BY <1>2, <1>3, <1>4, <2>1 DEF DacInv, SideRuns, SideSet
<1>11. QED
  BY <1>3, <1>7, <1>10

LEMMA BufferDoneKeeps ==
  ASSUME DacInv, D!BufferDone
  PROVE  DacInv'
<1>1. LeaveIsr /\ UNCHANGED <<dacen, dacAt>>
  BY DacWrapper DEF D!BufferDone
<1>2. /\ DmaTypes' /\ UNCHANGED <<dma, idle>> /\ isr # None /\ isr' = None
      /\ pingpong_dma'[isr.channel] = 1 - pingpong_dma[isr.channel]
      /\ \A e \in Channels : e # isr.channel => Same(e)
  BY <1>1, LeaveChannel DEF DacInv
<1>3. dacAt = "playing"
  BY <1>2 DEF DacInv
<1>4. ASSUME NEW c \in D!Sides PROVE Phase(c)'
  <2>1. c \in Channels /\ Phase(c)
    BY <1>3, SidesAreChannels DEF DacInv, SideRuns
  <2>2. CASE c = isr.channel
    <3>1. dma[c].hw \in {0, 1} /\ pingpong_dma[c] \in {0, 1}
      BY <2>1 DEF DacInv, DmaTypes, Registers
    <3>2. QED
      BY <1>2, <2>1, <2>2, <3>1 DEF Phase, Busy
  <2>3. CASE c # isr.channel
    BY <1>2, <2>1, <2>3, SameKeeps
  <2>4. QED
    BY <2>2, <2>3
<1>5. QED
  BY <1>1, <1>2, <1>3, <1>4 DEF DacInv, SideRuns, SideSet

LEMMA DacKeepsInv ==
  ASSUME Prompt, ~StopInCallback, DacInv, D!DacNext
  PROVE  /\ DacInv'
         /\ isr = None /\ isr' # None => isr'.first = (dma[isr'.channel].hw = 1)
<1>1. CASE D!dac_init_r \/ D!dac_init_l \/ D!dac_start_l \/ D!dac_start_r \/ D!dac_start
           \/ D!dac_stop \/ D!dac_stop_l \/ D!dac_stop_r
  <2>1. isr' = isr
    BY <1>1 DEF D!dac_init_r, D!dac_init_l, D!dac_start_l, D!dac_start_r, D!dac_start, D!dac_stop,
         D!dac_stop_l, D!dac_stop_r, D!dma_init_channel, D!dma_enable_channel,
         D!dma_disable_channel, D!dmaVars
  <2>2. QED
    BY <1>1, <2>1, DacSetupKeeps, DacStartKeeps, DacStopKeeps
<1>2. CASE D!BufferDone
  <2>1. isr' = None
    BY <1>2 DEF D!BufferDone, D!LeaveIsr
  <2>2. QED
    BY <1>2, <2>1, BufferDoneKeeps
<1>3. ASSUME NEW c \in D!Sides, D!Played(c)
      PROVE  DacInv' /\ isr' = isr
  BY <1>3, PlayedKeeps DEF D!Played, D!Complete
<1>4. ASSUME NEW c \in D!Sides, D!BufferIsr(c)
      PROVE  DacInv' /\ isr'.first = (dma[isr'.channel].hw = 1)
  BY <1>4, BufferIsrKeeps
<1>5. QED
  BY <1>1, <1>2, <1>3, <1>4 DEF D!DacNext

-----------------------------------------------------------------------------
(* The SPI masters.  Where the transfer of a device is: being set up by one *)
(* of the callers, running, or being ended by the interrupt.                *)
Starting == {"rx", "rx_on", "tx", "tx_on", "select", "go"}
Ending == {"tx", "rx", "call"}
Starts(x, d) == call[x].at \in Starting /\ call[x].spi_id = d
Ends(d) == isr # None /\ isr.callback = d /\ cbAt \in Ending

Place(d) ==
  IF d \notin active THEN "idle"
  ELSE IF Ends(d) THEN CASE cbAt = "tx" -> "end_tx" [] cbAt = "rx" -> "end_rx" [] OTHER -> "end"
  ELSE IF Starts("program", d) THEN call["program"].at
  ELSE IF Starts("callback", d) THEN call["callback"].at
  ELSE "running"

(* One caller at a time sets a device up, and not while it is ended.        *)
CallsInv ==
  /\ \A d \in S!Devices : Ends(d) => d \in active
  /\ \A x \in S!Callers, d \in S!Devices : Starts(x, d) =>
       /\ d \in active /\ ~Ends(d)
       /\ call[x].tx \/ d = "SPI_1"
       /\ call[x].at \in {"tx", "tx_on"} => call[x].tx
       /\ call[x].at # "rx" => (call[x].tx <=> d \notin nullWrite)
       /\ \A y \in S!Callers \ {x} : ~Starts(y, d)

(* The channels for which a device forbids the idle mode.                   *)
RxHeld(d) == Place(d) \in {"tx", "tx_on", "select", "go", "running", "end_tx", "end_rx"}
TxHeld(d) == d \notin nullWrite /\ Place(d) \in {"select", "go", "running", "end_tx"}

(* The words: both channels count the same ones, so that the last is in     *)
(* when the rx channel has its interrupt.                                   *)
WordsInv(d) ==
  /\ Place(d) \in Starting \ {"rx"} => toReceive[d] = Words
  /\ Place(d) \in {"tx_on", "select", "go"} /\ d \notin nullWrite => toSend[d] = Words
  /\ d \in shifting \/ d \in txReq => Place(d) = "running" /\ toReceive[d] > 0
  /\ d \in txReq => d \notin nullWrite /\ d \notin shifting
  /\ Place(d) = "running" /\ d \notin nullWrite
       => toReceive[d] = toSend[d] + Bit(d \in shifting)
  /\ dma[RxChannel[d]].iflag => Place(d) = "running" /\ toReceive[d] = 0

ChannelsInv(d) ==
  /\ Place(d) \notin {"idle", "rx"} => ("tx" \in rxtx[d] <=> d \notin nullWrite)
  /\ RxHeld(d) => "rx" \in rxtx[d]
  /\ RxHeld(d) \/ Place(d) = "rx_on" => OneShot(dma[RxChannel[d]].mode)
  /\ TxHeld(d) \/ Place(d) = "tx_on" => OneShot(dma[TxChannel[d]].mode)
  /\ Place(d) \in {"go", "running"} => d \in ss
  /\ ~dma[TxChannel[d]].ie

Calls == [S!Callers -> [at : Starting \cup {"none", "wait"}, spi_id : S!Devices,
                        tx : BOOLEAN, sync : BOOLEAN]]
SpiTypes ==
  /\ rxtx \in [S!Devices -> SUBSET {"rx", "tx"}]
  /\ toSend \in [S!Devices -> Int] /\ toReceive \in [S!Devices -> Int]
  /\ call \in Calls
  /\ cbAt \in Ending \cup {"none", "done", "user"}
  /\ shifting \subseteq S!Devices

Held(d) == Bit(RxHeld(d)) + Bit(TxHeld(d))
SpiTotal == idle = Held("SPI_1") + Held("SPI_2")

SpiInv ==
  /\ DmaTypes /\ SpiTypes /\ CallsInv /\ SpiTotal
  /\ \A d \in S!Devices : WordsInv(d) /\ ChannelsInv(d)
  /\ \A c \in Channels : ~PingPong(dma[c].mode)

LEMMA SpiWrapper ==
  /\ \A c, mode, called :
       S!dma_init_channel(c, mode, called) <=> dma_init_channel(c, mode, called)
  /\ \A c : S!dma_enable_channel(c) <=> dma_enable_channel(c)
  /\ \A c : S!dma_disable_channel(c) <=> dma_disable_channel(c)
  /\ \A c : S!Complete(c) <=> Complete(c)
  /\ \A c : S!EnterIsr(c) <=> EnterIsr(c)
  /\ S!LeaveIsr <=> LeaveIsr
<1>1. \A c, mode, called :
        S!dma_init_channel(c, mode, called) <=> dma_init_channel(c, mode, called)
  BY DEF S!dma_init_channel, dma_init_channel, S!DataSlot, DataSlot
<1>2. \A c : S!dma_enable_channel(c) <=> dma_enable_channel(c)
  BY DEF S!dma_enable_channel, dma_enable_channel, S!OneShot, OneShot, S!clock_disable_idle,
         clock_disable_idle
<1>3. \A c : S!dma_disable_channel(c) <=> dma_disable_channel(c)
  BY DEF S!dma_disable_channel, dma_disable_channel, S!OneShot, OneShot, S!clock_enable_idle,
         clock_enable_idle
<1>4. \A c : S!Complete(c) <=> Complete(c)
  BY DEF S!Complete, Complete, S!Pending, Pending, S!OneShot, OneShot, S!PingPong, PingPong
<1>5. \A c : S!EnterIsr(c) <=> EnterIsr(c)
  BY DEF S!EnterIsr, EnterIsr, S!Pending, Pending
<1>6. S!LeaveIsr <=> LeaveIsr
  BY DEF S!LeaveIsr, LeaveIsr
<1>7. QED
  BY <1>1, <1>2, <1>3, <1>4, <1>5, <1>6

LEMMA SpiChannels ==
  /\ \A d \in S!Devices : RxChannel[d] \in Channels /\ TxChannel[d] \in Channels
  /\ \A d, e \in S!Devices : RxChannel[d] # TxChannel[e]
  /\ \A d, e \in S!Devices : d # e => RxChannel[d] # RxChannel[e] /\ TxChannel[d] # TxChannel[e]
BY ClientsAssumption DEF RxChannel, TxChannel, S!Devices

(* What a step does not touch of a device.                                  *)
SameDevice(d) ==
  /\ Place(d)' = Place(d)
  /\ (d \in shifting)' <=> d \in shifting
  /\ (d \in txReq)' <=> d \in txReq
  /\ (d \in nullWrite)' <=> d \in nullWrite
  /\ (d \in ss)' <=> d \in ss
  /\ toReceive'[d] = toReceive[d] /\ toSend'[d] = toSend[d] /\ rxtx'[d] = rxtx[d]
  /\ dma'[RxChannel[d]] = dma[RxChannel[d]] /\ dma'[TxChannel[d]] = dma[TxChannel[d]]

LEMMA SameDeviceKeeps ==
  ASSUME NEW d \in S!Devices, SameDevice(d), WordsInv(d), ChannelsInv(d)
  PROVE  WordsInv(d)' /\ ChannelsInv(d)' /\ Held(d)' = Held(d)
<1>1. (RxHeld(d)' <=> RxHeld(d)) /\ (TxHeld(d)' <=> TxHeld(d))
  BY DEF SameDevice, RxHeld, TxHeld
<1>2. WordsInv(d)'
  BY DEF SameDevice, WordsInv, Bit
<1>3. ChannelsInv(d)'
  BY <1>1 DEF SameDevice, ChannelsInv
<1>4. Held(d)' = Held(d)
  BY <1>1 DEF Held, Bit
<1>5. QED
  BY <1>2, <1>3, <1>4

LEMMA HeldType ==
  /\ \A d : Held(d) \in 0 .. 2
  /\ \A d : Held(d)' \in 0 .. 2
BY DEF Held, Bit

LEMMA TotalMoves ==
  ASSUME SpiTotal, NEW d \in S!Devices, idle' = idle + (Held(d)' - Held(d)),
         \A e \in S!Devices \ {d} : Held(e)' = Held(e)
  PROVE  SpiTotal'
BY HeldType DEF SpiTotal, S!Devices

(* A caller goes on to its next step.                                       *)
LEMMA PlaceMoves ==
  ASSUME SpiTypes, CallsInv, NEW x \in S!Callers, NEW d \in S!Devices, Starts(x, d),
         NEW at \in Starting, call' = [call EXCEPT ![x].at = at],
         UNCHANGED <<active, cbAt, isr>>
  PROVE  /\ Place(d) = call[x].at /\ Place(d)' = at
         /\ \A e \in S!Devices \ {d} : Place(e)' = Place(e)
         /\ \A e \in S!Devices : Ends(e)' <=> Ends(e)
         /\ \A y \in S!Callers, e \in S!Devices : Starts(y, e)' <=> Starts(y, e)
         /\ \A y \in S!Callers : call'[y].tx = call[y].tx
         /\ \A y \in S!Callers \ {x} : call'[y] = call[y]
         /\ call'[x].at = at /\ call' \in Calls
<1>1. /\ call'[x].at = at /\ call'[x].spi_id = call[x].spi_id /\ call'[x].tx = call[x].tx
      /\ \A y \in S!Callers \ {x} : call'[y] = call[y]
  BY DEF SpiTypes, Calls
<1>2. call' \in Calls
  BY DEF SpiTypes, Calls
<1>3. \A e \in S!Devices : Ends(e)' <=> Ends(e)
  BY DEF Ends
<1>4. \A y \in S!Callers, e \in S!Devices : Starts(y, e)' <=> Starts(y, e)
  BY <1>1 DEF Starts
<1>5. d \in active /\ ~Ends(d) /\ \A y \in S!Callers \ {x} : ~Starts(y, d)
  BY DEF CallsInv
<1>6. Place(d) = call[x].at /\ Place(d)' = at
  BY <1>1, <1>3, <1>4, <1>5 DEF Place, S!Callers
<1>7. ASSUME NEW e \in S!Devices \ {d} PROVE Place(e)' = Place(e)
  <2>1. ~Starts(x, e)
    BY DEF Starts
  <2>2. QED
    BY <1>1, <1>3, <1>4, <2>1 DEF Place, S!Callers
<1>8. QED
  BY <1>1, <1>2, <1>3, <1>4, <1>6, <1>7

LEMMA OneDeviceMoves ==
  ASSUME SpiInv, NEW d \in S!Devices,
         DmaTypes', SpiTypes', CallsInv', WordsInv(d)', ChannelsInv(d)',
         \A e \in S!Devices \ {d} : SameDevice(e),
         idle' = idle + (Held(d)' - Held(d)),
         \A c \in Channels : ~PingPong(dma'[c].mode)
  PROVE  SpiInv'
<1>1. \A e \in S!Devices \ {d} : WordsInv(e)' /\ ChannelsInv(e)' /\ Held(e)' = Held(e)
  BY SameDeviceKeeps DEF SpiInv
<1>2. SpiTotal'
  BY <1>1, TotalMoves DEF SpiInv
<1>3. QED
  BY <1>1, <1>2 DEF SpiInv

LEMMA SetupRxKeeps ==
  ASSUME SpiInv, NEW x \in S!Callers, NEW d \in S!Devices, S!SetupRx(x, d)
  PROVE  SpiInv'
<1> DEFINE c == RxChannel[d]
<1>1. /\ Starts(x, d) /\ call[x].at = "rx" /\ call' = [call EXCEPT ![x].at = "rx_on"]
      /\ rxtx' = [rxtx EXCEPT ![d] = IF call[x].tx THEN {"tx"} ELSE {"rx"}]
      /\ nullWrite' = IF call[x].tx THEN nullWrite \ {d} ELSE nullWrite \cup {d}
      /\ toReceive' = [toReceive EXCEPT ![d] = Words]
      /\ UNCHANGED <<ss, shifting, toSend, txReq, cbAt, active>>
      /\ dma_init_channel(c, "one_shot", d)
  BY SpiWrapper DEF S!SetupRx, S!At, S!Goto, S!run, S!CallbackOf, Starts, Starting
<1>2. /\ c \in Channels /\ d \in Callbacks \cup {None} /\ "one_shot" \in Modes
  BY SpiChannels DEF S!Devices, Callbacks, Modes
<1>3. /\ DmaTypes' /\ idle' = idle /\ isr' = isr
      /\ dma'[c].mode = "one_shot" /\ ~dma'[c].iflag
      /\ \A e \in Channels \ {c} : Same(e)
  BY <1>1, <1>2, InitChannel DEF SpiInv
<1>4. /\ Place(d) = "rx" /\ Place(d)' = "rx_on"
      /\ \A e \in S!Devices \ {d} : Place(e)' = Place(e)
      /\ \A e \in S!Devices : Ends(e)' <=> Ends(e)
      /\ \A y \in S!Callers, e \in S!Devices : Starts(y, e)' <=> Starts(y, e)
      /\ \A y \in S!Callers : call'[y].tx = call[y].tx
      /\ \A y \in S!Callers \ {x} : call'[y] = call[y]
      /\ call'[x].at = "rx_on"
      /\ call' \in Calls
  BY <1>1, <1>3, PlaceMoves DEF SpiInv, Starting
<1>5. SpiTypes'
  BY <1>1, <1>4, ClientsAssumption DEF SpiInv, SpiTypes
<1>6. CallsInv'
  BY <1>1, <1>4 DEF SpiInv, CallsInv, Starts
<1>7. \A e \in S!Devices \ {d} : SameDevice(e)
  <2>1. SUFFICES ASSUME NEW e \in S!Devices \ {d} PROVE SameDevice(e)
    OBVIOUS
  <2>2. RxChannel[e] \in Channels \ {c} /\ TxChannel[e] \in Channels \ {c}
    BY SpiChannels
  <2>3. QED
    BY <1>1, <1>3, <1>4, <2>2 DEF SameDevice, Same, SpiInv, SpiTypes
<1>8. WordsInv(d)'
  BY <1>1, <1>3, <1>4 DEF SpiInv, SpiTypes, WordsInv, Starting
<1>9. Held(d) = 0 /\ Held(d)' = 0
  BY <1>4 DEF Held, RxHeld, TxHeld, Bit
<1>10. ChannelsInv(d)'
  <2>1. dma'[TxChannel[d]] = dma[TxChannel[d]]
    BY <1>3, SpiChannels DEF Same
  <2>2. "tx" \in rxtx'[d] <=> d \notin nullWrite'
    BY <1>1 DEF SpiInv, SpiTypes
  <2>3. QED
    BY <1>3, <1>4, <2>1, <2>2 DEF SpiInv, ChannelsInv, RxHeld, TxHeld, OneShot
<1>11. \A e \in Channels : ~PingPong(dma'[e].mode)
  BY <1>3 DEF SpiInv, Same, PingPong
<1>12. idle' = idle + (Held(d)' - Held(d))
  BY <1>3, <1>9 DEF SpiInv, DmaTypes
<1>13. QED
  BY <1>3, <1>5, <1>6, <1>7, <1>8, <1>10, <1>11, <1>12, OneDeviceMoves

LEMMA EnableRxKeeps ==
  ASSUME MaxIdle >= 4, SpiInv, NEW x \in S!Callers, NEW d \in S!Devices, S!EnableRx(x, d)
  PROVE  SpiInv'
<1> DEFINE c == RxChannel[d]
<1>1. PICK at \in {"tx", "select"} :
      /\ at = "tx" <=> call[x].tx
      /\ Starts(x, d) /\ call[x].at = "rx_on" /\ call' = [call EXCEPT ![x].at = at]
      /\ rxtx' = [rxtx EXCEPT ![d] = @ \cup {"rx"}]
      /\ UNCHANGED <<ss, shifting, toSend, toReceive, nullWrite, txReq, cbAt, active>>
      /\ dma_enable_channel(c)
  <2>1. CASE call[x].tx
    BY <2>1, SpiWrapper DEF S!EnableRx, S!At, S!Goto, S!run, S!spiHw, Starts, Starting
  <2>2. CASE ~call[x].tx
    BY <2>2, SpiWrapper DEF S!EnableRx, S!At, S!Goto, S!run, S!spiHw, Starts, Starting
  <2>3. QED
    BY <2>1, <2>2
<1>2. c \in Channels /\ at \in Starting /\ at # "rx"
  BY SpiChannels DEF Starting
<1>3. /\ DmaTypes' /\ isr' = isr
      /\ idle' = IF OneShot(dma[c].mode) THEN clock_disable_idle(idle) ELSE idle
      /\ dma'[c] = [dma[c] EXCEPT !.chen = TRUE, !.hw = 0]
      /\ \A e \in Channels \ {c} : Same(e)
  BY <1>1, <1>2, EnableChannel DEF SpiInv
<1>4. /\ Place(d) = "rx_on" /\ Place(d)' = at
      /\ \A e \in S!Devices \ {d} : Place(e)' = Place(e)
      /\ \A e \in S!Devices : Ends(e)' <=> Ends(e)
      /\ \A y \in S!Callers, e \in S!Devices : Starts(y, e)' <=> Starts(y, e)
      /\ \A y \in S!Callers : call'[y].tx = call[y].tx
      /\ \A y \in S!Callers \ {x} : call'[y] = call[y]
      /\ call'[x].at = at /\ call' \in Calls
  <2>1. /\ SpiTypes /\ CallsInv /\ Starts(x, d) /\ at \in Starting
        /\ call' = [call EXCEPT ![x].at = at] /\ UNCHANGED <<active, cbAt, isr>>
    BY <1>1, <1>2, <1>3 DEF SpiInv
  <2>2. CASE at = "tx"
    BY <1>1, <2>1, <2>2, PlaceMoves
  <2>3. CASE at = "select"
    BY <1>1, <2>1, <2>3, PlaceMoves
  <2>4. QED
    BY <2>2, <2>3
<1>5. SpiTypes'
  BY <1>1, <1>4 DEF SpiInv, SpiTypes
<1>6. CallsInv'
  BY <1>1, <1>2, <1>4 DEF SpiInv, CallsInv, Starts
<1>7. \A e \in S!Devices \ {d} : SameDevice(e)
  <2>1. SUFFICES ASSUME NEW e \in S!Devices \ {d} PROVE SameDevice(e)
    OBVIOUS
  <2>2. RxChannel[e] \in Channels \ {c} /\ TxChannel[e] \in Channels \ {c}
    BY SpiChannels
  <2>3. QED
    BY <1>1, <1>3, <1>4, <2>2 DEF SameDevice, Same, SpiInv, SpiTypes
<1>8. dma'[c].iflag = dma[c].iflag /\ dma'[c].mode = dma[c].mode
      /\ dma'[TxChannel[d]] = dma[TxChannel[d]]
  BY <1>2, <1>3, SpiChannels DEF SpiInv, DmaTypes, Registers, Same
<1>9. rxtx'[d] = rxtx[d] \cup {"rx"} /\ (call[x].tx <=> d \notin nullWrite)
  BY <1>1 DEF SpiInv, SpiTypes, CallsInv
<1>10. WordsInv(d)'
  BY <1>1, <1>2, <1>4, <1>8, <1>9 DEF SpiInv, WordsInv, Starting
<1>11. ~RxHeld(d) /\ ~TxHeld(d) /\ RxHeld(d)' /\ ~TxHeld(d)'
  BY <1>1, <1>2, <1>4, <1>9 DEF RxHeld, TxHeld
<1>12. ChannelsInv(d)'
  BY <1>1, <1>2, <1>4, <1>8, <1>9, <1>11 DEF SpiInv, ChannelsInv
<1>13. \A e \in Channels : ~PingPong(dma'[e].mode)
  BY <1>3, <1>8 DEF SpiInv, Same
<1>14. idle' = idle + (Held(d)' - Held(d))
  <2>1. Held(d) = 0 /\ Held(d)' = 1
    BY <1>11 DEF Held, Bit
  <2>2. idle \in 0 .. 2 /\ OneShot(dma[c].mode)
    BY <1>4, <2>1, HeldType DEF SpiInv, SpiTotal, S!Devices, ChannelsInv
  <2>3. QED
    BY <1>3, <2>1, <2>2, ClientsAssumption DEF clock_disable_idle
<1>15. QED
  BY <1>3, <1>5, <1>6, <1>7, <1>10, <1>12, <1>13, <1>14, OneDeviceMoves

LEMMA SetupTxKeeps ==
  ASSUME SpiInv, NEW x \in S!Callers, NEW d \in S!Devices, S!SetupTx(x, d)
  PROVE  SpiInv'
<1> DEFINE c == TxChannel[d]
<1>1. /\ Starts(x, d) /\ call[x].at = "tx" /\ call' = [call EXCEPT ![x].at = "tx_on"]
      /\ toSend' = [toSend EXCEPT ![d] = Words]
      /\ UNCHANGED <<rxtx, ss, shifting, toReceive, nullWrite, txReq, cbAt, active>>
      /\ dma_init_channel(c, "one_shot", None)
  <2>1. S!CallbackOf(d, c) = None
    BY SpiChannels DEF S!CallbackOf
  <2>2. QED
    BY <2>1, SpiWrapper DEF S!SetupTx, S!At, S!Goto, S!run, S!status, Starts, Starting
<1>2. /\ c \in Channels /\ "one_shot" \in Modes /\ RxChannel[d] \in Channels \ {c}
  BY SpiChannels DEF Modes
<1>3. /\ DmaTypes' /\ idle' = idle /\ isr' = isr
      /\ dma'[c].mode = "one_shot" /\ ~dma'[c].iflag /\ ~dma'[c].ie
      /\ \A e \in Channels \ {c} : Same(e)
  BY <1>1, <1>2, InitChannel DEF SpiInv
<1>4. /\ Place(d) = "tx" /\ Place(d)' = "tx_on"
      /\ \A e \in S!Devices \ {d} : Place(e)' = Place(e)
      /\ \A e \in S!Devices : Ends(e)' <=> Ends(e)
      /\ \A y \in S!Callers, e \in S!Devices : Starts(y, e)' <=> Starts(y, e)
      /\ \A y \in S!Callers : call'[y].tx = call[y].tx
      /\ \A y \in S!Callers \ {x} : call'[y] = call[y]
      /\ call'[x].at = "tx_on" /\ call' \in Calls
  BY <1>1, <1>3, PlaceMoves DEF SpiInv, Starting
<1>5. SpiTypes'
  BY <1>1, <1>4, ClientsAssumption DEF SpiInv, SpiTypes
<1>6. CallsInv'
  BY <1>1, <1>4 DEF SpiInv, CallsInv, Starts
<1>7. \A e \in S!Devices \ {d} : SameDevice(e)
  <2>1. SUFFICES ASSUME NEW e \in S!Devices \ {d} PROVE SameDevice(e)
    OBVIOUS
  <2>2. RxChannel[e] \in Channels \ {c} /\ TxChannel[e] \in Channels \ {c}
    BY SpiChannels
  <2>3. QED
    BY <1>1, <1>3, <1>4, <2>2 DEF SameDevice, Same, SpiInv, SpiTypes
<1>8. dma'[RxChannel[d]] = dma[RxChannel[d]]
  BY <1>2, <1>3 DEF Same
<1>9. WordsInv(d)'
  BY <1>1, <1>4, <1>8 DEF SpiInv, SpiTypes, WordsInv, Starting
<1>10. RxHeld(d) /\ RxHeld(d)' /\ ~TxHeld(d) /\ ~TxHeld(d)'
  BY <1>1, <1>4 DEF RxHeld, TxHeld
<1>11. ChannelsInv(d)'
  BY <1>1, <1>3, <1>4, <1>8, <1>10 DEF SpiInv, ChannelsInv, OneShot
<1>12. \A e \in Channels : ~PingPong(dma'[e].mode)
  BY <1>3 DEF SpiInv, Same, PingPong
<1>13. idle' = idle + (Held(d)' - Held(d))
  <2>1. Held(d) = 1 /\ Held(d)' = 1
    BY <1>10 DEF Held, Bit
  <2>2. QED
    BY <1>3, <2>1 DEF SpiInv, DmaTypes
<1>14. QED
  BY <1>3, <1>5, <1>6, <1>7, <1>9, <1>11, <1>12, <1>13, OneDeviceMoves

LEMMA EnableTxKeeps ==
  ASSUME MaxIdle >= 4, SpiInv, NEW x \in S!Callers, NEW d \in S!Devices, S!EnableTx(x, d)
  PROVE  SpiInv'
<1> DEFINE c == TxChannel[d]
<1>1. /\ Starts(x, d) /\ call[x].at = "tx_on" /\ call' = [call EXCEPT ![x].at = "select"]
      /\ UNCHANGED <<rxtx, ss, shifting, toSend, toReceive, nullWrite, txReq, cbAt, active>>
      /\ dma_enable_channel(c)
  BY SpiWrapper DEF S!EnableTx, S!At, S!Goto, S!run, S!spiHw, S!status, Starts, Starting
<1>2. c \in Channels /\ RxChannel[d] \in Channels \ {c}
  BY SpiChannels
<1>3. /\ DmaTypes' /\ isr' = isr
      /\ idle' = IF OneShot(dma[c].mode) THEN clock_disable_idle(idle) ELSE idle
      /\ dma'[c] = [dma[c] EXCEPT !.chen = TRUE, !.hw = 0]
      /\ \A e \in Channels \ {c} : Same(e)
  BY <1>1, <1>2, EnableChannel DEF SpiInv
<1>4. /\ Place(d) = "tx_on" /\ Place(d)' = "select"
      /\ \A e \in S!Devices \ {d} : Place(e)' = Place(e)
      /\ \A e \in S!Devices : Ends(e)' <=> Ends(e)
      /\ \A y \in S!Callers, e \in S!Devices : Starts(y, e)' <=> Starts(y, e)
      /\ \A y \in S!Callers : call'[y].tx = call[y].tx
      /\ \A y \in S!Callers \ {x} : call'[y] = call[y]
      /\ call'[x].at = "select" /\ call' \in Calls
  BY <1>1, <1>3, PlaceMoves DEF SpiInv, Starting
<1>5. SpiTypes'
  BY <1>1, <1>4 DEF SpiInv, SpiTypes
<1>6. CallsInv'
  BY <1>1, <1>4 DEF SpiInv, CallsInv, Starts
<1>7. \A e \in S!Devices \ {d} : SameDevice(e)
  <2>1. SUFFICES ASSUME NEW e \in S!Devices \ {d} PROVE SameDevice(e)
    OBVIOUS
  <2>2. RxChannel[e] \in Channels \ {c} /\ TxChannel[e] \in Channels \ {c}
    BY SpiChannels
  <2>3. QED
    BY <1>1, <1>3, <1>4, <2>2 DEF SameDevice, Same
<1>8. dma'[c].ie = dma[c].ie /\ dma'[c].mode = dma[c].mode
      /\ dma'[RxChannel[d]] = dma[RxChannel[d]]
  BY <1>2, <1>3 DEF SpiInv, DmaTypes, Registers, Same
<1>9. WordsInv(d)'
  BY <1>1, <1>4, <1>8 DEF SpiInv, WordsInv, Starting
<1>10. call[x].tx /\ d \notin nullWrite
  BY <1>1 DEF SpiInv, CallsInv
<1>11. RxHeld(d) /\ ~TxHeld(d) /\ RxHeld(d)' /\ TxHeld(d)'
  BY <1>1, <1>4, <1>10 DEF RxHeld, TxHeld
<1>12. ChannelsInv(d)'
  BY <1>1, <1>4, <1>8, <1>11 DEF SpiInv, ChannelsInv
<1>13. \A e \in Channels : ~PingPong(dma'[e].mode)
  BY <1>3, <1>8 DEF SpiInv, Same
<1>14. idle' = idle + (Held(d)' - Held(d))
  <2>1. Held(d) = 1 /\ Held(d)' = 2
    BY <1>11 DEF Held, Bit
  <2>2. idle \in 0 .. 3 /\ OneShot(dma[c].mode)
    BY <1>4, <2>1, HeldType DEF SpiInv, SpiTotal, S!Devices, ChannelsInv
  <2>3. QED
    BY <1>3, <2>1, <2>2, ClientsAssumption DEF clock_disable_idle
<1>15. QED
  BY <1>3, <1>5, <1>6, <1>7, <1>9, <1>12, <1>13, <1>14, OneDeviceMoves

LEMMA SelectKeeps ==
  ASSUME SpiInv, NEW x \in S!Callers, NEW d \in S!Devices, S!Select(x, d)
  PROVE  SpiInv'
<1>1. /\ Starts(x, d) /\ call[x].at = "select" /\ call' = [call EXCEPT ![x].at = "go"]
      /\ ss' = ss \cup {d}
      /\ UNCHANGED <<dmaVars, rxtx, shifting, toSend, toReceive, nullWrite, txReq, cbAt, active>>
      /\ isr' = isr
  BY DEF S!Select, S!At, S!Goto, S!run, S!spiHw, S!dmaVars, dmaVars, Starts, Starting
<1>2. /\ Place(d) = "select" /\ Place(d)' = "go"
      /\ \A e \in S!Devices \ {d} : Place(e)' = Place(e)
      /\ \A e \in S!Devices : Ends(e)' <=> Ends(e)
      /\ \A y \in S!Callers, e \in S!Devices : Starts(y, e)' <=> Starts(y, e)
      /\ \A y \in S!Callers : call'[y].tx = call[y].tx
      /\ \A y \in S!Callers \ {x} : call'[y] = call[y]
      /\ call'[x].at = "go" /\ call' \in Calls
  BY <1>1, PlaceMoves DEF SpiInv, Starting
<1>3. SpiTypes' /\ DmaTypes'
  BY <1>1, <1>2 DEF SpiInv, SpiTypes, DmaTypes, dmaVars
<1>4. CallsInv'
  BY <1>1, <1>2 DEF SpiInv, CallsInv, Starts
<1>5. \A e \in S!Devices \ {d} : SameDevice(e)
  BY <1>1, <1>2 DEF SameDevice, dmaVars
<1>6. WordsInv(d)'
  BY <1>1, <1>2 DEF SpiInv, WordsInv, Starting, dmaVars
<1>7. (RxHeld(d)' <=> RxHeld(d)) /\ (TxHeld(d)' <=> TxHeld(d))
  BY <1>1, <1>2 DEF RxHeld, TxHeld
<1>8. ChannelsInv(d)'
  BY <1>1, <1>2, <1>7 DEF SpiInv, ChannelsInv, dmaVars
<1>9. idle' = idle + (Held(d)' - Held(d)) /\ \A c \in Channels : ~PingPong(dma'[c].mode)
  <2>1. Held(d)' = Held(d)
    BY <1>7 DEF Held, Bit
  <2>2. QED
    BY <1>1, <2>1, HeldType DEF SpiInv, DmaTypes, dmaVars
<1>10. QED
  BY <1>3, <1>4, <1>5, <1>6, <1>8, <1>9, OneDeviceMoves

(* The transfer is started: the caller leaves the device to the hardware.   *)
LEMMA GoKeeps ==
  ASSUME SpiInv, NEW x \in S!Callers, NEW d \in S!Devices, S!Go(x, d)
  PROVE  SpiInv'
<1>1. /\ Starts(x, d) /\ call[x].at = "go"
      /\ call' = [call EXCEPT ![x] = IF call[x].sync THEN [call[x] EXCEPT !.at = "wait"]
                                                     ELSE S!NoCall]
      /\ IF call[x].tx THEN txReq' = txReq \cup {d} /\ UNCHANGED shifting
                       ELSE shifting' = shifting \cup {"SPI_1"} /\ UNCHANGED txReq
      /\ UNCHANGED <<dmaVars, rxtx, ss, toSend, toReceive, nullWrite, cbAt, active>>
      /\ isr' = isr
  BY DEF S!Go, S!At, S!run, S!status, S!dmaVars, dmaVars, Starts, Starting
<1>2. /\ d \in active /\ ~Ends(d) /\ (call[x].tx \/ d = "SPI_1")
      /\ (call[x].tx <=> d \notin nullWrite)
      /\ \A y \in S!Callers \ {x} : ~Starts(y, d)
  BY <1>1 DEF SpiInv, CallsInv
<1>3. /\ call' \in Calls /\ call'[x].at \in {"none", "wait"}
      /\ \A y \in S!Callers \ {x} : call'[y] = call[y]
  BY <1>1 DEF SpiInv, SpiTypes, Calls, S!NoCall, S!Devices
<1>4. /\ \A y \in S!Callers, e \in S!Devices : Starts(y, e)' <=> (y # x /\ Starts(y, e))
      /\ \A e \in S!Devices : Ends(e)' <=> Ends(e)
      /\ \A e \in S!Devices : Starts(x, e) => e = d
  BY <1>1, <1>3 DEF Starts, Ends, Starting
<1>5. Place(d) = "go" /\ Place(d)' = "running"
  BY <1>1, <1>2, <1>4 DEF Place, S!Callers
<1>6. \A e \in S!Devices \ {d} : Place(e)' = Place(e)
  BY <1>1, <1>3, <1>4 DEF Place, S!Callers
<1>7. d \notin shifting /\ d \notin txReq
  BY <1>5 DEF SpiInv, WordsInv
<1>8. /\ d \in txReq' <=> d \notin nullWrite
      /\ d \in shifting' <=> d \in nullWrite
      /\ \A e \in S!Devices \ {d} : (e \in txReq' <=> e \in txReq)
                                    /\ (e \in shifting' <=> e \in shifting)
  BY <1>1, <1>2, <1>7
<1>9. SpiTypes' /\ DmaTypes'
  BY <1>1, <1>3 DEF SpiInv, SpiTypes, DmaTypes, dmaVars, S!Devices
<1>10. CallsInv'
  BY <1>1, <1>3, <1>4 DEF SpiInv, CallsInv
<1>11. \A e \in S!Devices \ {d} : SameDevice(e)
  BY <1>1, <1>6, <1>8 DEF SameDevice, dmaVars
<1>12. WordsInv(d)'
  <2>1. /\ toReceive'[d] = Words /\ (d \notin nullWrite => toSend'[d] = Words)
        /\ ~dma'[RxChannel[d]].iflag /\ (d \in nullWrite' <=> d \in nullWrite)
    BY <1>1, <1>5 DEF SpiInv, WordsInv, dmaVars, Starting
  <2>2. Words \in Nat \ {0}
    BY ClientsAssumption
  <2>3. QED
    BY <1>5, <1>8, <2>1, <2>2 DEF WordsInv, Starting, Bit
<1>13. (RxHeld(d)' <=> RxHeld(d)) /\ (TxHeld(d)' <=> TxHeld(d))
  BY <1>1, <1>5 DEF RxHeld, TxHeld
<1>14. ChannelsInv(d)'
  BY <1>1, <1>5, <1>13 DEF SpiInv, ChannelsInv, dmaVars
<1>15. idle' = idle + (Held(d)' - Held(d)) /\ \A c \in Channels : ~PingPong(dma'[c].mode)
  <2>1. Held(d)' = Held(d)
    BY <1>13 DEF Held, Bit
  <2>2. QED
    BY <1>1, <2>1, HeldType DEF SpiInv, DmaTypes, dmaVars
<1>16. QED
  BY <1>9, <1>10, <1>11, <1>12, <1>14, <1>15, OneDeviceMoves

(* A transfer is asked for on a device without one.                         *)
LEMMA CallKeeps ==
  ASSUME RxOnlyOn \subseteq {"SPI_1"}, SpiInv, NEW x \in S!Callers, NEW d \in S!Devices,
         NEW tx \in BOOLEAN, NEW sync \in BOOLEAN, S!SpiCall(x, d, tx, sync)
  PROVE  SpiInv'
<1>1. /\ d \notin active /\ (tx \/ d = "SPI_1") /\ call[x].at = "none"
      /\ active' = active \cup {d}
      /\ call' = [call EXCEPT ![x] = [at |-> "rx", spi_id |-> d, tx |-> tx, sync |-> sync]]
      /\ UNCHANGED <<dmaVars, rxtx, ss, shifting, toSend, toReceive, nullWrite, txReq, cbAt>>
      /\ isr' = isr
  BY DEF S!SpiCall, S!CallAllowed, S!spiHw, S!dmaVars, dmaVars
<1>2. ~Ends(d) /\ \A y \in S!Callers : ~Starts(y, d)
  BY <1>1 DEF SpiInv, CallsInv
<1>3. /\ call' \in Calls /\ call'[x].at = "rx" /\ call'[x].spi_id = d /\ call'[x].tx = tx
      /\ \A y \in S!Callers \ {x} : call'[y] = call[y]
  BY <1>1 DEF SpiInv, SpiTypes, Calls, Starting
<1>4. /\ \A y \in S!Callers, e \in S!Devices :
           Starts(y, e)' <=> ((y = x /\ e = d) \/ (y # x /\ Starts(y, e)))
      /\ \A e \in S!Devices : Ends(e)' <=> Ends(e)
      /\ \A e \in S!Devices : ~Starts(x, e)
  BY <1>1, <1>3 DEF Starts, Ends, Starting
<1>5. Place(d) = "idle" /\ Place(d)' = "rx"
  BY <1>1, <1>2, <1>3, <1>4 DEF Place, S!Callers
<1>6. \A e \in S!Devices \ {d} : Place(e)' = Place(e)
  BY <1>1, <1>3, <1>4 DEF Place, S!Callers
<1>7. SpiTypes' /\ DmaTypes'
  BY <1>1, <1>3 DEF SpiInv, SpiTypes, DmaTypes, dmaVars
<1>8. CallsInv'
  BY <1>1, <1>2, <1>3, <1>4 DEF SpiInv, CallsInv
<1>9. \A e \in S!Devices \ {d} : SameDevice(e)
  BY <1>1, <1>6 DEF SameDevice, dmaVars
<1>10. WordsInv(d)'
  BY <1>1, <1>5 DEF SpiInv, WordsInv, dmaVars, Starting
<1>11. ~RxHeld(d)' /\ ~RxHeld(d) /\ ~TxHeld(d)' /\ ~TxHeld(d)
  BY <1>5 DEF RxHeld, TxHeld
<1>12. ChannelsInv(d)'
  BY <1>1, <1>5, <1>11 DEF SpiInv, ChannelsInv, dmaVars
<1>13. idle' = idle + (Held(d)' - Held(d)) /\ \A c \in Channels : ~PingPong(dma'[c].mode)
  <2>1. Held(d)' = Held(d)
    BY <1>11 DEF Held, Bit
  <2>2. QED
    BY <1>1, <2>1, HeldType DEF SpiInv, DmaTypes, dmaVars
<1>14. QED
  BY <1>7, <1>8, <1>9, <1>10, <1>12, <1>13, OneDeviceMoves

LEMMA SyncDoneKeeps ==
  ASSUME SpiInv, NEW d \in S!Devices, S!SyncDone(d)
  PROVE  SpiInv'
<1>1. /\ call["program"].at = "wait" /\ call' = [call EXCEPT !["program"] = S!NoCall]
      /\ UNCHANGED <<dmaVars, rxtx, ss, shifting, toSend, toReceive, nullWrite, txReq, cbAt,
                     active>>
      /\ isr' = isr
  BY DEF S!SyncDone, S!At, S!spiHw, S!status, S!run, S!dmaVars, dmaVars
<1>2. /\ call' \in Calls /\ call'["program"].at = "none"
      /\ \A y \in S!Callers \ {"program"} : call'[y] = call[y]
  BY <1>1 DEF SpiInv, SpiTypes, Calls, S!NoCall, S!Callers, S!Devices
<1>3. /\ \A y \in S!Callers, e \in S!Devices : Starts(y, e)' <=> Starts(y, e)
      /\ \A e \in S!Devices : Ends(e)' <=> Ends(e)
  BY <1>1, <1>2 DEF Starts, Ends, Starting
<1>4. \A e \in S!Devices : ~Starts("program", e)
  BY <1>1 DEF Starts, Starting
<1>5. \A e \in S!Devices : Place(e)' = Place(e)
  BY <1>1, <1>2, <1>3, <1>4 DEF Place, S!Callers
<1>6. SpiTypes' /\ DmaTypes'
  BY <1>1, <1>2 DEF SpiInv, SpiTypes, DmaTypes, dmaVars
<1>7. CallsInv'
  BY <1>1, <1>2, <1>3, <1>4 DEF SpiInv, CallsInv
<1>8. \A e \in S!Devices : SameDevice(e)
  BY <1>1, <1>5 DEF SameDevice, dmaVars
<1>9. \A e \in S!Devices : WordsInv(e)' /\ ChannelsInv(e)' /\ Held(e)' = Held(e)
  BY <1>8, SameDeviceKeeps DEF SpiInv
<1>10. idle' = idle + (Held(d)' - Held(d)) /\ \A c \in Channels : ~PingPong(dma'[c].mode)
  BY <1>1, <1>9, HeldType DEF SpiInv, DmaTypes, dmaVars
<1>11. QED
  BY <1>6, <1>7, <1>8, <1>9, <1>10, OneDeviceMoves

(* Steps of the hardware: no caller and no interrupt moves.                 *)
LEMMA PlacesStay ==
  ASSUME UNCHANGED <<call, cbAt, active, isr>>
  PROVE  /\ \A e \in S!Devices : Place(e)' = Place(e)
         /\ \A y \in S!Callers, e \in S!Devices : Starts(y, e)' <=> Starts(y, e)
         /\ \A e \in S!Devices : Ends(e)' <=> Ends(e)
<1>1. /\ \A y, e : Starts(y, e)' <=> Starts(y, e)
      /\ \A e : Ends(e)' <=> Ends(e)
  BY DEF Starts, Ends
<1>2. \A e : Place(e)' = Place(e)
  BY <1>1 DEF Place
<1>3. QED
  BY <1>1, <1>2

(* What a completion leaves of the other channels and of the count.         *)
LEMMA CompletedOrNot ==
  ASSUME DmaTypes, \A e \in Channels : ~PingPong(dma[e].mode), NEW c \in Channels, NEW last,
         IF last THEN Complete(c) ELSE UNCHANGED dmaVars
  PROVE  /\ DmaTypes' /\ idle' = idle /\ isr' = isr
         /\ dma'[c].mode = dma[c].mode /\ dma'[c].ie = dma[c].ie
         /\ dma'[c].iflag => dma[c].iflag \/ last
         /\ \A e \in Channels \ {c} : dma'[e] = dma[e]
         /\ \A e \in Channels : ~PingPong(dma'[e].mode)
<1>1. CASE last
  <2>1. /\ DmaTypes' /\ UNCHANGED <<isr, pingpong_dma, idle>>
        /\ dma'[c] = [dma[c] EXCEPT !.iflag = TRUE, !.chen = ~OneShot(dma[c].mode),
                        !.hw = IF PingPong(dma[c].mode) THEN 1 - dma[c].hw ELSE dma[c].hw]
        /\ \A e \in Channels \ {c} : Same(e)
    BY <1>1, CompleteChannel
  <2>2. dma'[c].mode = dma[c].mode /\ dma'[c].ie = dma[c].ie
    BY <2>1 DEF DmaTypes, Registers
  <2>3. QED
    BY <1>1, <2>1, <2>2 DEF Same
<1>2. CASE ~last
  BY <1>2 DEF dmaVars, DmaTypes
<1>3. QED
  BY <1>1, <1>2

LEMMA MoveTxKeeps ==
  ASSUME SpiInv, NEW d \in S!Devices, S!MoveTx(d)
  PROVE  SpiInv'
<1> DEFINE c == TxChannel[d]
<1>1. /\ d \in txReq /\ d \notin shifting
      /\ txReq' = txReq \ {d} /\ shifting' = shifting \cup {d}
      /\ toSend' = [toSend EXCEPT ![d] = @ - 1]
      /\ UNCHANGED <<rxtx, ss, toReceive, nullWrite, call, cbAt, active>>
      /\ IF toSend[d] = 1 THEN Complete(c) ELSE UNCHANGED dmaVars
  BY SpiWrapper DEF S!MoveTx, S!status, S!run, S!dmaVars, dmaVars
<1>2. c \in Channels /\ RxChannel[d] \in Channels \ {c}
  BY SpiChannels
<1>3. /\ DmaTypes' /\ idle' = idle /\ isr' = isr
      /\ dma'[c].mode = dma[c].mode /\ dma'[c].ie = dma[c].ie
      /\ \A e \in Channels \ {c} : dma'[e] = dma[e]
      /\ \A e \in Channels : ~PingPong(dma'[e].mode)
  BY <1>1, <1>2, CompletedOrNot DEF SpiInv
<1>4. /\ \A e \in S!Devices : Place(e)' = Place(e)
      /\ \A y \in S!Callers, e \in S!Devices : Starts(y, e)' <=> Starts(y, e)
      /\ \A e \in S!Devices : Ends(e)' <=> Ends(e)
  BY <1>1, <1>3, PlacesStay
<1>5. SpiTypes'
  BY <1>1 DEF SpiInv, SpiTypes
<1>6. CallsInv'
  BY <1>1, <1>4 DEF SpiInv, CallsInv
<1>7. \A e \in S!Devices \ {d} : SameDevice(e)
  <2>1. SUFFICES ASSUME NEW e \in S!Devices \ {d} PROVE SameDevice(e)
    OBVIOUS
  <2>2. RxChannel[e] \in Channels \ {c} /\ TxChannel[e] \in Channels \ {c}
    BY SpiChannels
  <2>3. QED
    BY <1>1, <1>3, <1>4, <2>2 DEF SameDevice, SpiInv, SpiTypes
<1>8. WordsInv(d)'
  <2>1. /\ Place(d)' = "running" /\ toReceive[d] > 0 /\ d \notin nullWrite
        /\ toReceive[d] = toSend[d] + 0 /\ ~dma[RxChannel[d]].iflag
    BY <1>1, <1>4 DEF SpiInv, WordsInv, Bit
  <2>2. toSend'[d] = toSend[d] - 1 /\ toReceive'[d] = toReceive[d] /\ toSend[d] \in Int
    BY <1>1 DEF SpiInv, SpiTypes
  <2>3. d \in shifting' /\ d \notin txReq' /\ d \notin nullWrite'
        /\ ~dma'[RxChannel[d]].iflag
    BY <1>1, <1>2, <1>3, <2>1
  <2>4. toReceive'[d] = toSend'[d] + 1 /\ toReceive'[d] > 0
    BY <2>1, <2>2
  <2>5. QED
    BY <2>1, <2>3, <2>4 DEF WordsInv, Bit, Starting
<1>9. (RxHeld(d)' <=> RxHeld(d)) /\ (TxHeld(d)' <=> TxHeld(d))
  BY <1>1, <1>4 DEF RxHeld, TxHeld
<1>10. ChannelsInv(d)'
  BY <1>1, <1>2, <1>3, <1>4, <1>9 DEF SpiInv, ChannelsInv
<1>11. idle' = idle + (Held(d)' - Held(d))
  <2>1. Held(d)' = Held(d)
    BY <1>9 DEF Held, Bit
  <2>2. QED
    BY <1>3, <2>1, HeldType DEF SpiInv, DmaTypes
<1>12. QED
  BY <1>3, <1>5, <1>6, <1>7, <1>8, <1>10, <1>11, OneDeviceMoves

LEMMA ShiftedKeeps ==
  ASSUME SpiInv, NEW d \in S!Devices, S!Shifted(d)
  PROVE  SpiInv'
<1> DEFINE c == RxChannel[d]
<1>1. /\ d \in shifting
      /\ toReceive' = [toReceive EXCEPT ![d] = IF @ > 0 THEN @ - 1 ELSE 0]
      /\ shifting' = IF d \in nullWrite /\ toReceive[d] > 1 THEN shifting ELSE shifting \ {d}
      /\ txReq' = IF d \notin nullWrite /\ toSend[d] > 0 THEN txReq \cup {d} ELSE txReq
      /\ UNCHANGED <<rxtx, ss, toSend, nullWrite, call, cbAt, active>>
      /\ IF toReceive[d] = 1 THEN Complete(c) ELSE UNCHANGED dmaVars
  BY SpiWrapper DEF S!Shifted, S!status, S!run, S!dmaVars, dmaVars
<1>2. c \in Channels /\ TxChannel[d] \in Channels \ {c}
  BY SpiChannels
<1>3. /\ DmaTypes' /\ idle' = idle /\ isr' = isr
      /\ dma'[c].mode = dma[c].mode /\ dma'[c].ie = dma[c].ie
      /\ dma'[c].iflag => dma[c].iflag \/ toReceive[d] = 1
      /\ \A e \in Channels \ {c} : dma'[e] = dma[e]
      /\ \A e \in Channels : ~PingPong(dma'[e].mode)
  BY <1>1, <1>2, CompletedOrNot DEF SpiInv
<1>4. /\ \A e \in S!Devices : Place(e)' = Place(e)
      /\ \A y \in S!Callers, e \in S!Devices : Starts(y, e)' <=> Starts(y, e)
      /\ \A e \in S!Devices : Ends(e)' <=> Ends(e)
  BY <1>1, <1>3, PlacesStay
<1>5. toReceive[d] \in Int /\ toSend[d] \in Int /\ toReceive[d] > 0
  BY <1>1 DEF SpiInv, SpiTypes, WordsInv
<1>6. toReceive' = [toReceive EXCEPT ![d] = toReceive[d] - 1]
      /\ toReceive'[d] = toReceive[d] - 1
  BY <1>1, <1>5 DEF SpiInv, SpiTypes
<1>7. SpiTypes'
  BY <1>1, <1>5, <1>6 DEF SpiInv, SpiTypes
<1>8. CallsInv'
  BY <1>1, <1>4 DEF SpiInv, CallsInv
<1>9. \A e \in S!Devices \ {d} : SameDevice(e)
  <2>1. SUFFICES ASSUME NEW e \in S!Devices \ {d} PROVE SameDevice(e)
    OBVIOUS
  <2>2. RxChannel[e] \in Channels \ {c} /\ TxChannel[e] \in Channels \ {c}
    BY SpiChannels
  <2>3. toReceive'[e] = toReceive[e]
    BY <1>6 DEF SpiInv, SpiTypes
  <2>4. QED
    BY <1>1, <1>3, <1>4, <2>2, <2>3 DEF SameDevice
<1>10. WordsInv(d)'
  <2>1. /\ Place(d)' = "running" /\ ~dma[c].iflag /\ d \notin txReq
        /\ (d \notin nullWrite => toReceive[d] = toSend[d] + 1)
    BY <1>1, <1>4, <1>5 DEF SpiInv, WordsInv, Bit
  <2>2. dma'[c].iflag => toReceive[d] = 1
    BY <1>3, <2>1
  <2>3. CASE d \in nullWrite
    <3>1. d \notin txReq' /\ d \in nullWrite' /\ (d \in shifting' => toReceive[d] > 1)
      BY <1>1, <2>1, <2>3
    <3>2. QED
      BY <1>5, <1>6, <2>1, <2>2, <3>1 DEF WordsInv, Starting
  <2>4. CASE d \notin nullWrite
    <3>1. d \notin shifting' /\ d \notin nullWrite' /\ (d \in txReq' => toSend[d] > 0)
          /\ toSend'[d] = toSend[d]
      BY <1>1, <2>1, <2>4
    <3>2. toReceive'[d] = toSend'[d] + 0
      BY <1>5, <1>6, <2>1, <2>4, <3>1
    <3>3. d \in txReq' => toReceive'[d] > 0
      BY <1>5, <1>6, <2>1, <2>4, <3>1
    <3>4. QED
      BY <1>5, <1>6, <2>1, <2>2, <3>1, <3>2, <3>3 DEF WordsInv, Starting, Bit
  <2>5. QED
    BY <2>3, <2>4
<1>11. (RxHeld(d)' <=> RxHeld(d)) /\ (TxHeld(d)' <=> TxHeld(d))
  BY <1>1, <1>4 DEF RxHeld, TxHeld
<1>12. ChannelsInv(d)'
  BY <1>1, <1>2, <1>3, <1>4, <1>11 DEF SpiInv, ChannelsInv
<1>13. idle' = idle + (Held(d)' - Held(d))
  <2>1. Held(d)' = Held(d)
    BY <1>11 DEF Held, Bit
  <2>2. QED
    BY <1>3, <2>1, HeldType DEF SpiInv, DmaTypes
<1>14. QED
  BY <1>3, <1>7, <1>8, <1>9, <1>10, <1>12, <1>13, OneDeviceMoves

(* The interrupt of the rx channel: the last word is in.                    *)
LEMMA DeselectKeeps ==
  ASSUME SpiInv, NEW d \in S!Devices, S!Deselect(d)
  PROVE  SpiInv' /\ isr'.channel = RxChannel[d]
<1> DEFINE c == RxChannel[d]
<1>1. c \in Channels /\ TxChannel[d] \in Channels \ {c}
  BY SpiChannels
<1>2. ~EnterIsr(TxChannel[d])
  BY DEF EnterIsr, Pending, SpiInv, ChannelsInv
<1>3. /\ EnterIsr(c) /\ isr'.callback = d /\ cbAt = "none" /\ cbAt' = "tx" /\ ss' = ss \ {d}
      /\ UNCHANGED <<rxtx, shifting, toSend, toReceive, nullWrite, txReq, call, active>>
  BY <1>2, SpiWrapper DEF S!Deselect, S!status, S!spiHw
<1>4. /\ DmaTypes' /\ idle' = idle
      /\ isr = None /\ isr' # None /\ isr'.channel = c
      /\ dma[c].iflag /\ dma'[c] = [dma[c] EXCEPT !.iflag = FALSE]
      /\ \A e \in Channels \ {c} : Same(e)
  BY <1>1, <1>3, EnterChannel DEF SpiInv
<1>5. ~dma'[c].iflag /\ dma'[c].ie = dma[c].ie /\ dma'[c].mode = dma[c].mode
  BY <1>1, <1>4 DEF SpiInv, DmaTypes, Registers
<1>6. Place(d) = "running" /\ toReceive[d] = 0 /\ d \notin shifting /\ d \notin txReq
  BY <1>4 DEF SpiInv, WordsInv
<1>7. d \in active /\ \A y \in S!Callers : ~Starts(y, d)
  BY <1>6 DEF Place, Starts, Starting, S!Callers
<1>8. /\ \A y \in S!Callers, e \in S!Devices : Starts(y, e)' <=> Starts(y, e)
      /\ \A e \in S!Devices : ~Ends(e) /\ (Ends(e)' <=> e = d)
  BY <1>3, <1>4 DEF Starts, Ends, Ending
<1>9. Place(d)' = "end_tx"
  BY <1>3, <1>7, <1>8 DEF Place
<1>10. \A e \in S!Devices \ {d} : Place(e)' = Place(e)
  BY <1>3, <1>8 DEF Place, S!Callers
<1>11. SpiTypes'
  BY <1>3 DEF SpiInv, SpiTypes, Ending
<1>12. CallsInv'
  BY <1>3, <1>7, <1>8 DEF SpiInv, CallsInv
<1>13. \A e \in S!Devices \ {d} : SameDevice(e)
  <2>1. SUFFICES ASSUME NEW e \in S!Devices \ {d} PROVE SameDevice(e)
    OBVIOUS
  <2>2. RxChannel[e] \in Channels \ {c} /\ TxChannel[e] \in Channels \ {c}
    BY SpiChannels
  <2>3. QED
    BY <1>3, <1>4, <1>10, <2>2 DEF SameDevice, Same
<1>14. WordsInv(d)'
  BY <1>3, <1>5, <1>6, <1>9 DEF WordsInv, Starting
<1>15. RxHeld(d) /\ RxHeld(d)' /\ (TxHeld(d)' <=> TxHeld(d))
  BY <1>3, <1>6, <1>9 DEF RxHeld, TxHeld
<1>16. ChannelsInv(d)'
  <2>1. dma'[TxChannel[d]] = dma[TxChannel[d]]
    BY <1>1, <1>4 DEF Same
  <2>2. QED
    BY <1>3, <1>5, <1>6, <1>9, <1>15, <2>1 DEF SpiInv, ChannelsInv
<1>17. \A e \in Channels : ~PingPong(dma'[e].mode)
  BY <1>4, <1>5 DEF SpiInv, Same
<1>18. idle' = idle + (Held(d)' - Held(d))
  <2>1. Held(d)' = Held(d)
    BY <1>15 DEF Held, Bit
  <2>2. QED
    BY <1>4, <2>1, HeldType DEF SpiInv, DmaTypes
<1>19. QED
  BY <1>4, <1>11, <1>12, <1>13, <1>14, <1>16, <1>17, <1>18, OneDeviceMoves

(* The interrupt releases a channel if the transfer used it.                *)
LEMMA ReleaseChannel ==
  ASSUME DmaTypes, \A e \in Channels : ~PingPong(dma[e].mode), NEW c \in Channels, NEW used,
         IF used THEN dma_disable_channel(c) ELSE UNCHANGED dmaVars
  PROVE  /\ DmaTypes' /\ isr' = isr
         /\ used => idle' = IF OneShot(dma[c].mode) THEN clock_enable_idle(idle) ELSE idle
         /\ ~used => idle' = idle
         /\ dma'[c].mode = dma[c].mode /\ dma'[c].ie = dma[c].ie /\ dma'[c].iflag = dma[c].iflag
         /\ \A e \in Channels \ {c} : dma'[e] = dma[e]
         /\ \A e \in Channels : ~PingPong(dma'[e].mode)
<1>1. CASE used
  <2>1. /\ DmaTypes' /\ isr' = isr
        /\ idle' = IF OneShot(dma[c].mode) THEN clock_enable_idle(idle) ELSE idle
        /\ dma'[c] = [dma[c] EXCEPT !.chen = FALSE]
        /\ \A e \in Channels \ {c} : Same(e)
    BY <1>1, DisableChannel
  <2>2. dma'[c].mode = dma[c].mode /\ dma'[c].ie = dma[c].ie /\ dma'[c].iflag = dma[c].iflag
    BY <2>1 DEF DmaTypes, Registers
  <2>3. QED
    BY <1>1, <2>1, <2>2 DEF Same
<1>2. CASE ~used
  BY <1>2 DEF dmaVars, DmaTypes
<1>3. QED
  BY <1>1, <1>2

LEMMA ReleaseKeeps ==
  ASSUME MaxIdle >= 4, SpiInv, NEW d \in S!Devices, NEW at \in {"tx", "rx"}, S!Release(d, at)
  PROVE  SpiInv' /\ isr' = isr
<1> DEFINE c == IF at = "tx" THEN TxChannel[d] ELSE RxChannel[d]
<1>1. /\ isr # None /\ isr.callback = d /\ cbAt = at
      /\ cbAt' = IF at = "tx" THEN "rx" ELSE "call"
      /\ UNCHANGED <<rxtx, ss, shifting, toSend, toReceive, nullWrite, txReq, call, active>>
      /\ IF at \in rxtx[d] THEN dma_disable_channel(c) ELSE UNCHANGED dmaVars
  BY SpiWrapper DEF S!Release, S!Serving, S!status, S!spiHw, S!dmaVars, dmaVars
<1>2. c \in Channels
  BY SpiChannels
<1>3. /\ DmaTypes' /\ isr' = isr
      /\ at \in rxtx[d] =>
           idle' = IF OneShot(dma[c].mode) THEN clock_enable_idle(idle) ELSE idle
      /\ at \notin rxtx[d] => idle' = idle
      /\ dma'[c].mode = dma[c].mode /\ dma'[c].ie = dma[c].ie /\ dma'[c].iflag = dma[c].iflag
      /\ \A e \in Channels \ {c} : dma'[e] = dma[e]
      /\ \A e \in Channels : ~PingPong(dma'[e].mode)
  <2> HIDE DEF c
  <2>1. QED
    BY <1>1, <1>2, ReleaseChannel DEF SpiInv
<1>4. \A e \in Channels : dma'[e].mode = dma[e].mode /\ dma'[e].ie = dma[e].ie
                          /\ dma'[e].iflag = dma[e].iflag
  BY <1>2, <1>3
<1>5. /\ \A y \in S!Callers, e \in S!Devices : Starts(y, e)' <=> Starts(y, e)
      /\ \A e \in S!Devices : (Ends(e)' <=> Ends(e)) /\ (Ends(e) <=> e = d)
  BY <1>1, <1>3 DEF Starts, Ends, Ending
<1>6. d \in active /\ \A y \in S!Callers : ~Starts(y, d)
  BY <1>5 DEF SpiInv, CallsInv
<1>7. /\ at = "tx" => Place(d) = "end_tx" /\ Place(d)' = "end_rx"
      /\ at = "rx" => Place(d) = "end_rx" /\ Place(d)' = "end"
  BY <1>1, <1>5, <1>6 DEF Place
<1>8. \A e \in S!Devices \ {d} : Place(e)' = Place(e)
  BY <1>1, <1>5 DEF Place, S!Callers
<1>9. SpiTypes'
  BY <1>1 DEF SpiInv, SpiTypes, Ending
<1>10. CallsInv'
  BY <1>1, <1>5 DEF SpiInv, CallsInv
<1>11. \A e \in S!Devices \ {d} : SameDevice(e)
  <2>1. SUFFICES ASSUME NEW e \in S!Devices \ {d} PROVE SameDevice(e)
    OBVIOUS
  <2>2. RxChannel[e] \in Channels \ {c} /\ TxChannel[e] \in Channels \ {c}
    BY SpiChannels
  <2>3. QED
    BY <1>1, <1>3, <1>8, <2>2 DEF SameDevice
<1>12. WordsInv(d)'
  <2>1. ~dma[RxChannel[d]].iflag /\ d \notin shifting /\ d \notin txReq
    BY <1>7 DEF SpiInv, WordsInv
  <2>2. ~dma'[RxChannel[d]].iflag
    BY <1>4, <2>1, SpiChannels
  <2>3. QED
    BY <1>1, <1>7, <2>1, <2>2 DEF WordsInv, Starting
<1>13. CASE at = "tx"
  <2>1. at \in rxtx[d] <=> d \notin nullWrite
    BY <1>7, <1>13 DEF SpiInv, ChannelsInv
  <2>2. /\ RxHeld(d) /\ RxHeld(d)' /\ ~TxHeld(d)' /\ (TxHeld(d) <=> at \in rxtx[d])
    BY <1>7, <1>13, <2>1 DEF RxHeld, TxHeld
  <2>3. ChannelsInv(d)'
    BY <1>1, <1>4, <1>7, <1>13, <2>2, SpiChannels DEF SpiInv, ChannelsInv
  <2>4. idle' = idle + (Held(d)' - Held(d))
    <3>1. CASE at \in rxtx[d]
      <4>1. Held(d) = 2 /\ Held(d)' = 1
        BY <2>2, <3>1 DEF Held, Bit
      <4>2. idle \in 1 .. 4 /\ OneShot(dma[c].mode)
        BY <1>13, <2>2, <3>1, <4>1, HeldType DEF SpiInv, SpiTotal, S!Devices, ChannelsInv
      <4>3. QED
        BY <1>3, <3>1, <4>1, <4>2, ClientsAssumption DEF clock_enable_idle
    <3>2. CASE at \notin rxtx[d]
      <4>1. Held(d) = 1 /\ Held(d)' = 1
        BY <2>2, <3>2 DEF Held, Bit
      <4>2. QED
        BY <1>3, <3>2, <4>1 DEF SpiInv, DmaTypes
    <3>3. QED
      BY <3>1, <3>2
  <2>5. QED
    BY <1>3, <1>9, <1>10, <1>11, <1>12, <2>3, <2>4, OneDeviceMoves
<1>14. CASE at = "rx"
  <2>1. RxHeld(d) /\ ~TxHeld(d) /\ ~RxHeld(d)' /\ ~TxHeld(d)'
    BY <1>7, <1>14 DEF RxHeld, TxHeld
  <2>2. at \in rxtx[d]
    BY <1>14, <2>1 DEF SpiInv, ChannelsInv
  <2>3. ChannelsInv(d)'
    BY <1>1, <1>4, <1>7, <1>14, <2>1, SpiChannels DEF SpiInv, ChannelsInv
  <2>4. idle' = idle + (Held(d)' - Held(d))
    <3>1. Held(d) = 1 /\ Held(d)' = 0
      BY <2>1 DEF Held, Bit
    <3>2. idle \in 1 .. 3 /\ OneShot(dma[c].mode)
      BY <1>14, <2>1, <3>1, HeldType DEF SpiInv, SpiTotal, S!Devices, ChannelsInv
    <3>3. QED
      BY <1>3, <2>2, <3>1, <3>2, ClientsAssumption DEF clock_enable_idle
  <2>5. QED
    BY <1>3, <1>9, <1>10, <1>11, <1>12, <2>3, <2>4, OneDeviceMoves
<1>15. QED
  BY <1>3, <1>13, <1>14

LEMMA CallBackKeeps ==
  ASSUME SpiInv, NEW d \in S!Devices, S!CallBack(d)
  PROVE  SpiInv' /\ isr' = isr
<1>1. /\ isr # None /\ isr.callback = d /\ cbAt = "call" /\ cbAt' \in {"done", "user"}
      /\ active' = active \ {d} /\ isr' = isr
      /\ UNCHANGED <<dmaVars, rxtx, ss, shifting, toSend, toReceive, nullWrite, txReq, call>>
  BY DEF S!CallBack, S!Serving, S!spiHw, S!dmaVars, dmaVars
<1>2. /\ \A y \in S!Callers, e \in S!Devices : Starts(y, e)' <=> Starts(y, e)
      /\ \A e \in S!Devices : ~Ends(e)' /\ (Ends(e) <=> e = d)
  BY <1>1 DEF Starts, Ends, Ending
<1>3. d \in active /\ \A y \in S!Callers : ~Starts(y, d)
  BY <1>2 DEF SpiInv, CallsInv
<1>4. Place(d) = "end" /\ Place(d)' = "idle"
  BY <1>1, <1>2, <1>3 DEF Place
<1>5. \A e \in S!Devices \ {d} : Place(e)' = Place(e)
  BY <1>1, <1>2 DEF Place, S!Callers
<1>6. SpiTypes' /\ DmaTypes'
  BY <1>1 DEF SpiInv, SpiTypes, DmaTypes, dmaVars
<1>7. CallsInv'
  BY <1>1, <1>2, <1>3 DEF SpiInv, CallsInv
<1>8. \A e \in S!Devices \ {d} : SameDevice(e)
  BY <1>1, <1>5 DEF SameDevice, dmaVars
<1>9. WordsInv(d)'
  BY <1>1, <1>4 DEF SpiInv, WordsInv, dmaVars, Starting
<1>10. ~RxHeld(d)' /\ ~RxHeld(d) /\ ~TxHeld(d)' /\ ~TxHeld(d)
  BY <1>4 DEF RxHeld, TxHeld
<1>11. ChannelsInv(d)'
  BY <1>1, <1>4, <1>10 DEF SpiInv, ChannelsInv, dmaVars
<1>12. idle' = idle + (Held(d)' - Held(d)) /\ \A c \in Channels : ~PingPong(dma'[c].mode)
  <2>1. Held(d)' = Held(d)
    BY <1>10 DEF Held, Bit
  <2>2. QED
    BY <1>1, <2>1, HeldType DEF SpiInv, DmaTypes, dmaVars
<1>13. QED
  BY <1>1, <1>6, <1>7, <1>8, <1>9, <1>11, <1>12, OneDeviceMoves

LEMMA SpiReturnKeeps ==
  ASSUME SpiInv, S!SpiReturn
  PROVE  SpiInv' /\ isr' = None
<1>1. /\ LeaveIsr /\ cbAt \in {"done", "user"} /\ cbAt' = "none"
      /\ UNCHANGED <<rxtx, ss, shifting, toSend, toReceive, nullWrite, txReq, call, active>>
  BY SpiWrapper DEF S!SpiReturn, S!status, S!spiHw
<1>2. /\ DmaTypes' /\ UNCHANGED <<dma, DMA_Data, idle>> /\ isr' = None
  BY <1>1, LeaveChannel DEF SpiInv
<1>3. /\ \A y \in S!Callers, e \in S!Devices : Starts(y, e)' <=> Starts(y, e)
      /\ \A e \in S!Devices : ~Ends(e)' /\ ~Ends(e)
  BY <1>1, <1>2 DEF Starts, Ends, Ending
<1>4. \A e \in S!Devices : Place(e)' = Place(e)
  BY <1>1, <1>3 DEF Place, S!Callers
<1>5. SpiTypes'
  BY <1>1 DEF SpiInv, SpiTypes
<1>6. CallsInv'
  BY <1>1, <1>3 DEF SpiInv, CallsInv
<1>7. \A e \in S!Devices : SameDevice(e)
  BY <1>1, <1>2, <1>4 DEF SameDevice
<1>8. \A e \in S!Devices : WordsInv(e)' /\ ChannelsInv(e)' /\ Held(e)' = Held(e)
  BY <1>7, SameDeviceKeeps DEF SpiInv
<1>9. SpiTotal'
  BY <1>2, <1>8 DEF SpiInv, SpiTotal, S!Devices
<1>10. QED
  BY <1>2, <1>5, <1>6, <1>8, <1>9 DEF SpiInv

LEMMA SpiKeepsInv ==
  ASSUME RxOnlyOn \subseteq {"SPI_1"}, MaxIdle >= 4, SpiInv, S!SpiNext
  PROVE  /\ SpiInv'
         /\ isr = None /\ isr' # None => ~PingPong(dma[isr'.channel].mode)
<1>1. CASE S!spi_start_transfert \/ S!spi_transfert_sync
  <2>1. PICK x \in S!Callers, d \in S!Devices, tx \in BOOLEAN, sync \in BOOLEAN :
          S!SpiCall(x, d, tx, sync)
    BY <1>1 DEF S!spi_start_transfert, S!spi_transfert_sync, S!Callers
  <2>2. isr' = isr
    BY <2>1 DEF S!SpiCall, S!dmaVars
  <2>3. QED
    BY <2>1, <2>2, CallKeeps
<1>2. CASE S!SpiReturn
  BY <1>2, SpiReturnKeeps
<1>3. ASSUME NEW d \in S!Devices, S!Transfert(d)
      PROVE  SpiInv' /\ isr' = isr
  <2>1. PICK x \in S!Callers : S!SetupRx(x, d) \/ S!EnableRx(x, d) \/ S!SetupTx(x, d)
                               \/ S!EnableTx(x, d) \/ S!Select(x, d) \/ S!Go(x, d)
    BY <1>3 DEF S!Transfert
  <2>2. isr' = isr
    BY <2>1 DEF S!SetupRx, S!EnableRx, S!SetupTx, S!EnableTx, S!Select, S!Go,
                S!dma_init_channel, S!dma_enable_channel, S!dmaVars
  <2>3. QED
    BY <2>1, <2>2, SetupRxKeeps, EnableRxKeeps, SetupTxKeeps, EnableTxKeeps, SelectKeeps, GoKeeps
<1>4. ASSUME NEW d \in S!Devices, S!DmaCallback(d)
      PROVE  SpiInv' /\ (isr' = isr \/ isr'.channel \in Channels)
  <2>1. CASE S!Deselect(d)
    BY <2>1, DeselectKeeps, SpiChannels
  <2>2. CASE S!CallBack(d)
    BY <2>2, CallBackKeeps
  <2>3. CASE \E at \in {"tx", "rx"} : S!Release(d, at)
    BY <2>3, ReleaseKeeps
  <2>4. QED
    BY <1>4, <2>1, <2>2, <2>3 DEF S!DmaCallback
<1>5. ASSUME NEW d \in S!Devices, S!SyncDone(d) \/ S!Hardware(d)
      PROVE  SpiInv' /\ isr' = isr
  <2>1. isr' = isr
    BY <1>5 DEF S!SyncDone, S!Hardware, S!MoveTx, S!Shifted, S!Complete, S!dmaVars
  <2>2. QED
    BY <1>5, <2>1, SyncDoneKeeps, MoveTxKeeps, ShiftedKeeps DEF S!Hardware
<1>6. \A c \in Channels : ~PingPong(dma[c].mode)
  BY DEF SpiInv
<1>7. "SPI_1" \in S!Devices /\ "SPI_2" \in S!Devices
  BY DEF S!Devices
<1>8. QED
  BY <1>1, <1>2, <1>3, <1>4, <1>5, <1>6, <1>7
     DEF S!SpiNext, S!Transfert1, S!Transfert2, S!spi1_dma_cb, S!spi2_dma_cb

-----------------------------------------------------------------------------
(* All of them: each client in its own behaviour.                           *)
LEMMA AdcNextInv ==
  ASSUME ~InitAnyTime, AdcInv, [Next]_vars
  PROVE  AdcInv'
<1>1. Inputs \subseteq Nat
  BY ClientsAssumption
<1>2. CASE A!AdcNext
  BY <1>1, <1>2, AdcKeepsInv
<1>3. CASE UNCHANGED adc
  BY <1>3 DEF adc, AdcInv, AdcTypes, ConvInv, A!Labelled
<1>4. QED
  BY <1>2, <1>3 DEF Next, vars

(* Whoever starts a conversion, in the program, in the callback of the last *)
(* one or in the program while the other converter's interrupt is served,   *)
(* its value is reported with its own input (adc.c:167-179, 673-684), as    *)
(* long as a converter is not initialised again during a conversion.        *)
THEOREM ConversionsLabelled ==
  ASSUME ~InitAnyTime
  PROVE  Spec => []Labelled
<1>1. Init => AdcInv
  BY AdcInitInv DEF Init
<1>2. AdcInv /\ [Next]_vars => AdcInv'
  BY AdcNextInv
<1>3. AdcInv => Labelled
  BY DEF AdcInv, Labelled
<1>4. QED
  BY <1>1, <1>2, <1>3, PTL DEF Spec

LEMMA DmaInitTypes ==
  ASSUME DmaInit
  PROVE  DmaTypes /\ \A c \in Channels : dma[c].mode = "continuous" /\ ~dma[c].ie
                                        /\ Fresh(c)
<1>1. dma \in [Channels -> Registers]
  BY DEF DmaInit, Registers, Modes
<1>2. QED
  BY <1>1 DEF DmaInit, DmaTypes, Fresh, Busy

LEMMA SpiInitInv ==
  ASSUME S!SpiInit
  PROVE  SpiInv
<1>1. DmaInit
  BY DEF S!SpiInit, S!DmaInit, DmaInit
<1>2. DmaTypes /\ \A c \in Channels : dma[c].mode = "continuous" /\ ~dma[c].ie /\ ~dma[c].iflag
  BY <1>1, DmaInitTypes DEF Fresh
<1>3. SpiTypes
  BY DEF S!SpiInit, SpiTypes, Calls, S!NoCall, S!Devices
<1>4. /\ \A x \in S!Callers, d \in S!Devices : ~Starts(x, d)
      /\ \A d \in S!Devices : ~Ends(d)
  BY <1>1 DEF S!SpiInit, DmaInit, Starts, Ends, Starting, S!NoCall
<1>5. \A d \in S!Devices : Place(d) = "idle"
  BY DEF S!SpiInit, Place
<1>6. \A d \in S!Devices : ~RxHeld(d) /\ ~TxHeld(d) /\ Held(d) = 0
  BY <1>5 DEF RxHeld, TxHeld, Held, Bit
<1>7. CallsInv
  BY <1>4 DEF CallsInv
<1>8. SpiTotal
  BY <1>1, <1>6 DEF SpiTotal, DmaInit, S!Devices
<1>9. \A d \in S!Devices : WordsInv(d) /\ ChannelsInv(d)
  BY <1>2, <1>5, <1>6, SpiChannels DEF S!SpiInit, WordsInv, ChannelsInv, Starting
<1>10. QED
  BY <1>2, <1>3, <1>7, <1>8, <1>9 DEF SpiInv, PingPong

LEMMA DacInitInv ==
  ASSUME D!DacInit
  PROVE  DacInv
<1>1. DmaInit
  BY DEF D!DacInit, D!DmaInit, DmaInit
<1>2. DmaTypes /\ \A c \in Channels : Fresh(c)
  BY <1>1, DmaInitTypes
<1>3. QED
  BY <1>1, <1>2, SidesAreChannels
     DEF D!DacInit, DmaInit, DacInv, SideRuns, SideSet, Fresh

LEMMA ScanInitInv ==
  ASSUME A!AdcInit
  PROVE  ScanInv
<1>1. DmaInit
  BY DEF A!AdcInit, A!DmaInit, DmaInit
<1>2. DmaTypes /\ \A c \in Channels : Fresh(c)
  BY <1>1, DmaInitTypes
<1>3. AdcTypes
  BY AdcInitInv DEF AdcInv
<1>4. \A a \in A!Adcs : scan[a] = "off"
  BY DEF A!AdcInit
<1>5. \A a \in A!Adcs : ScanAt(a, ScanChannel[a]) /\ ~ScanHeld(a)
  BY <1>2, <1>4, ScanChannels DEF ScanAt, ScanHeld
<1>6. idle = Bit(ScanHeld(1)) + Bit(ScanHeld(2))
  BY <1>1, <1>5 DEF DmaInit, Bit, A!Adcs
<1>7. QED
  BY <1>2, <1>3, <1>5, <1>6 DEF ScanInv

(* Only the SPI moves its devices.                                          *)
SpiClientInv ==
  /\ client = "spi" => SpiInv
  /\ client # "spi" => shifting = {}

LEMMA SpiClientKeeps ==
  ASSUME RxOnlyOn \subseteq {"SPI_1"}, MaxIdle >= 4, SpiClientInv, [Next]_vars
  PROVE  SpiClientInv'
<1>1. CASE client = "spi" /\ S!SpiNext /\ client' = client
  BY <1>1, SpiKeepsInv DEF SpiClientInv
<1>2. CASE client # "spi" /\ client' = client /\ UNCHANGED spi
  BY <1>2 DEF SpiClientInv, spi
<1>3. CASE UNCHANGED vars
  <2>1. /\ \A e : Place(e)' = Place(e)
        /\ \A y, e : Starts(y, e)' <=> Starts(y, e)
        /\ \A e : Ends(e)' <=> Ends(e)
    BY <1>3 DEF vars, spi, dmaVars, Place, Starts, Ends
  <2>2. \A e \in S!Devices : SameDevice(e)
    BY <1>3, <2>1 DEF SameDevice, vars, spi, dmaVars
  <2>3. CASE client = "spi"
    <3>1. SpiInv
      BY <2>3 DEF SpiClientInv
    <3>2. \A e \in S!Devices : WordsInv(e)' /\ ChannelsInv(e)' /\ Held(e)' = Held(e)
      BY <2>2, <3>1, SameDeviceKeeps DEF SpiInv
    <3>3. CallsInv'
      BY <1>3, <2>1, <3>1 DEF vars, spi, SpiInv, CallsInv
    <3>4. SpiTotal'
      BY <1>3, <3>1, <3>2 DEF vars, dmaVars, SpiInv, SpiTotal, S!Devices
    <3>5. DmaTypes' /\ SpiTypes' /\ \A c \in Channels : ~PingPong(dma'[c].mode)
      BY <1>3, <3>1 DEF vars, dmaVars, spi, SpiInv, DmaTypes, SpiTypes
    <3>6. QED
      BY <1>3, <2>3, <3>2, <3>3, <3>4, <3>5 DEF vars, SpiClientInv, SpiInv
  <2>4. CASE client # "spi"
    BY <1>3, <2>4 DEF vars, spi, SpiClientInv
  <2>5. QED
    BY <2>3, <2>4
<1>4. QED
  BY <1>1, <1>2, <1>3 DEF Next

(* The slave stays selected until the last word is through (spi.c:170-171), *)
(* whatever transfers the callbacks and the program start on both devices,  *)
(* for words without a tx buffer on SPI_1 only: the code writes the null    *)
(* that starts such a transfer to SPI1BUF.                                  *)
THEOREM SlaveStaysSelected ==
  ASSUME RxOnlyOn \subseteq {"SPI_1"}, MaxIdle >= 4
  PROVE  Spec => []SelectedWhileClocked
<1>1. Init => SpiClientInv
  BY SpiInitInv DEF Init, SpiClientInv, S!SpiInit
<1>2. SpiClientInv /\ [Next]_vars => SpiClientInv'
  BY SpiClientKeeps
<1>3. SpiClientInv => SelectedWhileClocked
  BY DEF SpiClientInv, SpiInv, SpiTypes, WordsInv, ChannelsInv, SelectedWhileClocked,
         S!SelectedWhileClocked
<1>4. QED
  BY <1>1, <1>2, <1>3, PTL DEF Spec

ScanClientInv == AdcInv /\ (client = "adc" => ScanInv)

LEMMA ScanClientKeeps ==
  ASSUME ~InitAnyTime, MaxIdle >= 4, ScanClientInv, [Next]_vars
  PROVE  ScanClientInv'
<1>1. AdcInv' /\ MaxIdle >= 2
  BY AdcNextInv, ClientsAssumption DEF ScanClientInv
<1>2. CASE client = "adc" /\ A!AdcNext /\ client' = client
  BY <1>1, <1>2, ScansKeepInv DEF ScanClientInv, AdcInv
<1>3. CASE client # "adc" /\ client' = client
  BY <1>1, <1>3 DEF ScanClientInv
<1>4. CASE UNCHANGED vars
  BY <1>1, <1>4, ScanQuiet DEF ScanClientInv, AdcInv, vars, adc
<1>5. QED
  BY <1>2, <1>3, <1>4 DEF Next

(* Errata 38: the idle mode is forbidden while a word moves over the SPI    *)
(* and allowed again once every transfer, or every scan, is over: the calls *)
(* of clock_disable_idle and clock_enable_idle add up (dma.c:429-556), for  *)
(* every interleaving of the two SPI devices and of the two converters, the *)
(* count's limit (clock.c) being at least the four channels of the SPI.     *)
THEOREM IdleIsHonest ==
  ASSUME RxOnlyOn \subseteq {"SPI_1"}, ~InitAnyTime, MaxIdle >= 4
  PROVE  Spec => []IdleHonest
<1>1. Init => SpiClientInv /\ ScanClientInv
  BY SpiInitInv, AdcInitInv, ScanInitInv DEF Init, SpiClientInv, ScanClientInv, S!SpiInit
<1>2. SpiClientInv /\ ScanClientInv /\ [Next]_vars => (SpiClientInv /\ ScanClientInv)'
  BY SpiClientKeeps, ScanClientKeeps
<1>3. SpiClientInv /\ ScanClientInv => IdleHonest
  <2>1. ASSUME SpiInv PROVE S!IdleHonest
    <3>1. ASSUME NEW d \in shifting PROVE idle > 0
      <4>1. d \in S!Devices /\ Place(d) = "running"
        BY <2>1, <3>1 DEF SpiInv, SpiTypes, WordsInv
      <4>2. Held(d) \in 1 .. 2
        BY <4>1, HeldType DEF Held, RxHeld, Bit
      <4>3. QED
        BY <2>1, <4>1, <4>2, HeldType DEF SpiInv, SpiTotal, S!Devices
    <3>2. ASSUME active = {} PROVE idle = 0
      <4>1. \A d : Held(d) = 0
        BY <3>2 DEF Place, Held, RxHeld, TxHeld, Bit
      <4>2. QED
        BY <2>1, <4>1 DEF SpiInv, SpiTotal
    <3>3. QED
      BY <3>1, <3>2 DEF S!IdleHonest
  <2>2. ASSUME ScanInv PROVE A!ScanIdleHonest
    BY <2>2 DEF ScanInv, A!ScanIdleHonest, ScanHeld, Bit, A!Adcs
  <2>3. QED
    BY <2>1, <2>2 DEF SpiClientInv, ScanClientInv, IdleHonest
<1>4. QED
  BY <1>1, <1>2, <1>3, PTL DEF Spec

DacClientInv == client = "dac" => DacInv

LEMMA DacClientKeeps ==
  ASSUME Prompt, ~StopInCallback, DacClientInv, [Next]_vars
  PROVE  DacClientInv'
<1>1. CASE client = "dac" /\ D!DacNext /\ client' = client
  BY <1>1, DacKeepsInv DEF DacClientInv
<1>2. CASE client # "dac" /\ client' = client
  BY <1>2 DEF DacClientInv
<1>3. CASE UNCHANGED vars
  <2>1. UNCHANGED <<client, dma, DMA_Data, pingpong_dma, idle, isr, dacen, dacAt>>
    BY <1>3 DEF vars, dmaVars, dac
  <2>2. ASSUME client = "dac" PROVE DacInv'
    <3>1. DacInv
      BY <2>2 DEF DacClientInv
    <3>2. QED
      BY <2>1, <3>1 DEF DacInv, DmaTypes, SideRuns, SideSet, Phase, Busy
  <2>3. QED
    BY <2>1, <2>2 DEF DacClientInv
<1>4. QED
  BY <1>1, <1>2, <1>3 DEF Next

(* The callback of a ping-pong channel is given the buffer the hardware has *)
(* just left, although the software only counts interrupts                  *)
(* (dma.c:618-734): after any number of buffers, stops and restarts of the  *)
(* DAC and of scans in any mode.  It takes interrupts served within one     *)
(* buffer, a DAC that is not stopped from its own callback and a scan that  *)
(* is ended before the next is set up.                                      *)
THEOREM BuffersInStep ==
  ASSUME Prompt, ~StopInCallback, ~InitAnyTime, RxOnlyOn \subseteq {"SPI_1"}, MaxIdle >= 4
  PROVE  Spec => BufferTrue
<1> DEFINE Inv == /\ client \in {"spi", "dac", "adc"}
                  /\ SpiClientInv /\ ScanClientInv /\ DacClientInv
<1>1. Init => Inv
  BY SpiInitInv, AdcInitInv, ScanInitInv, DacInitInv
     DEF Init, SpiClientInv, ScanClientInv, DacClientInv, S!SpiInit
<1>2. Inv /\ [Next]_vars => Inv'
  BY SpiClientKeeps, ScanClientKeeps, DacClientKeeps DEF Next, vars
<1>3. Inv /\ [Next]_vars =>
        [isr = None /\ isr' # None /\ PingPong(dma[isr'.channel].mode)
           => isr'.first = (dma[isr'.channel].hw = 1)]_dmaVars
  <2>1. SUFFICES ASSUME Inv, Next, isr = None, isr' # None,
                        PingPong(dma[isr'.channel].mode)
                 PROVE  isr'.first = (dma[isr'.channel].hw = 1)
    BY DEF vars
  <2>2. CASE client = "spi" /\ S!SpiNext
    BY <2>1, <2>2, SpiKeepsInv DEF SpiClientInv
  <2>3. CASE client = "dac" /\ D!DacNext
    BY <2>1, <2>3, DacKeepsInv DEF DacClientInv
  <2>4. CASE client = "adc" /\ A!AdcNext
    <3>1. AdcTypes' /\ MaxIdle >= 2
      BY <2>1, AdcNextInv, ClientsAssumption DEF ScanClientInv, AdcInv
    <3>2. QED
      BY <2>1, <2>4, <3>1, ScansKeepInv DEF ScanClientInv
  <2>5. QED
    BY <2>1, <2>2, <2>3, <2>4 DEF Next
<1> HIDE DEF Inv
<1>4. QED
  BY <1>1, <1>2, <1>3, PTL DEF Spec, BufferTrue
=============================================================================
