--------------------------- MODULE DevicesProofs ---------------------------
(***************************************************************************)
(* Theorems about six parts of MCDrivers, for every value of the           *)
(* constants: the encoders, the motor outputs, the flash, the motor        *)
(* controllers, the numbers sent and read as text, and the rates.          *)
(***************************************************************************)
EXTENDS MCDrivers, Rings, TLAPS

(* The encoders.                                                            *)
EncoderRules == ~TurnAtWrap /\ Span >= 4

LEMMA SpanIsNumber == Span \in Nat \ {0}
BY DriversAssumption

-----------------------------------------------------------------------------
(* Arithmetic: a count in the direction of the motor, the words of the QEI, *)
(* and a counter that wraps.                                                *)
Along(up, n) == IF up THEN n ELSE 0 - n
Words(h) == 2 * Span * h

LEMMA SignTimes == \A up \in BOOLEAN : \A n \in Int : E!Sign(up) * n = Along(up, n)
BY DEF E!Sign, Along

LEMMA AlongNothing == \A up \in BOOLEAN : Along(up, 0) = 0
BY DEF Along

LEMMA WordsStep ==
  ASSUME NEW h \in Int
  PROVE  /\ Words(h) \in Int
         /\ Words(h + 1) = Words(h) + 2 * Span
         /\ Words(h - 1) = Words(h) - 2 * Span
<1>1. \A r \in Nat : /\ 2 * r * h \in Int
                     /\ 2 * r * (h + 1) = 2 * r * h + 2 * r
                     /\ 2 * r * (h - 1) = 2 * r * h - 2 * r
  OBVIOUS
<1>2. QED
  BY <1>1, SpanIsNumber DEF Words

LEMMA Wraps ==
  ASSUME NEW n \in -1 .. Span
  PROVE  /\ n = Span => n % Span = 0
         /\ n = -1 => n % Span = Span - 1
         /\ n \in 0 .. Span - 1 => n % Span = n
<1>1. \A r \in Nat \ {0} : \A m \in -1 .. r :
        /\ m = r => m % r = 0
        /\ m = -1 => m % r = r - 1
        /\ m \in 0 .. r - 1 => m % r = m
  OBVIOUS
<1>2. QED
  BY <1>1, SpanIsNumber

-----------------------------------------------------------------------------
(* Where the motor is, out of the counter, what software adds to it and the *)
(* interrupts that wait.                                                    *)
EncoderTypes ==
  /\ kind \in E!Kinds
  /\ counter \in 0 .. Span - 1 /\ captured \in Int /\ position \in Int
  /\ ovf \in BOOLEAN /\ forward \in BOOLEAN /\ turned \in BOOLEAN /\ sens \in BOOLEAN
  /\ got_irq \in BOOLEAN
  /\ high_word \in Int /\ poscnt_b15 \in {0, Span} /\ tpos \in Int

QeiCounts ==
  kind = "QEI" =>
    /\ ~turned
    /\ ~ovf => position = Words(high_word) + counter + poscnt_b15
    /\ ovf /\ forward => counter = 0 /\ position = Words(high_word) + Span + poscnt_b15
    /\ ovf /\ ~forward => counter = Span - 1 /\ position = Words(high_word) + poscnt_b15 - 1

SoftCounts ==
  kind # "QEI" =>
    /\ ovf => ~turned /\ counter = 0 /\ position = tpos + Along(sens, Span)
    /\ ~turned => sens = forward
    /\ turned => sens = ~forward
    /\ ~ovf /\ ~turned => position = tpos + Along(sens, counter)
    /\ turned /\ kind = "TMR" => position = tpos + Along(sens, counter)
    /\ turned /\ kind # "TMR" =>
         /\ captured \in 0 .. Span - 1 /\ counter \in {captured, captured + 1}
         /\ position = tpos + Along(sens, captured) - Along(sens, counter - captured)

(* What a call has read holds as long as no interrupt waits or has come.    *)
PartsRead ==
  ~got_irq /\ ~ovf /\ ~turned =>
    /\ kind = "QEI" =>
         /\ at \in {"second", "third", "test"} => seen = Words(high_word) + temp[2] + poscnt_b15
         /\ at \in {"third", "test"} => temp[1] = high_word
         /\ at = "test" => temp[3] = poscnt_b15
    /\ kind # "QEI" =>
         /\ at \in {"second", "third", "test"} => temp[1] = tpos
         /\ at \in {"third", "test"} => seen = tpos + Along(sens, temp[2])
         /\ at = "test" => temp[3] = E!Sign(sens)

ReaderTypes ==
  /\ at \in {"idle", "retry", "first", "second", "third", "test"}
  /\ temp \in [1 .. 3 -> Int] /\ seen \in Int

EncoderInv == EncoderTypes /\ QeiCounts /\ SoftCounts /\ ReaderTypes /\ PartsRead

LEMMA Nothing == <<0, 0, 0>> \in [1 .. 3 -> Int]
OBVIOUS

LEMMA EncoderInitInv == Init => EncoderInv
<1>1. Init => E!EncoderInit
  BY DEF Init
<1>2. Words(0) = 0
  BY SpanIsNumber DEF Words
<1> SUFFICES ASSUME E!EncoderInit PROVE EncoderInv
  BY <1>1
<1>4. EncoderTypes
  <2>1. 0 \in 0 .. Span - 1
    BY SpanIsNumber
  <2>2. counter \in 0 .. Span - 1 /\ poscnt_b15 \in {0, Span}
    BY <2>1 DEF E!EncoderInit
  <2>3. captured \in Int /\ position \in Int /\ high_word \in Int /\ tpos \in Int
    BY DEF E!EncoderInit
  <2>4. QED
    BY <2>2, <2>3 DEF E!EncoderInit, EncoderTypes
<1>5. QeiCounts /\ SoftCounts
  BY <1>2, AlongNothing DEF E!EncoderInit, QeiCounts, SoftCounts
<1>6. ReaderTypes /\ PartsRead
  BY Nothing DEF E!EncoderInit, ReaderTypes, PartsRead
<1>7. QED
  BY <1>4, <1>5, <1>6 DEF EncoderInv

(* The motor.                                                               *)
LEMMA MotorTurns ==
  ASSUME EncoderInv, E!Turn
  PROVE  EncoderInv'
<1> USE DEF EncoderInv, E!Turn, E!qei, E!soft, E!call
<1>1. EncoderTypes'
  BY DEF EncoderTypes, E!Captures
<1>2. QeiCounts'
  BY DEF EncoderTypes, QeiCounts
<1>3. SoftCounts'
  <2>1. CASE kind = "TMR"
    BY <2>1 DEF EncoderTypes, SoftCounts
  <2>2. CASE kind \in {"TMR2", "TMR3"}
    <3>1. /\ ~ovf' /\ turned' /\ sens' = ~forward' /\ captured' = counter /\ counter' = counter
          /\ position' = tpos + Along(sens, counter) /\ tpos' = tpos /\ sens' = sens
          /\ counter \in 0 .. Span - 1 /\ kind' = kind
      BY <2>2 DEF EncoderTypes, SoftCounts, E!Captures
    <3>2. counter - counter = 0 /\ Along(sens, counter) \in Int
      BY <3>1, SpanIsNumber DEF EncoderTypes, Along
    <3>3. position' = tpos' + Along(sens, counter) - Along(sens, counter - counter)
      BY <3>1, <3>2, AlongNothing DEF EncoderTypes
    <3>4. QED
      BY <2>2, <3>1, <3>3, SpanIsNumber DEF SoftCounts
  <2>3. QED
    BY <2>1, <2>2 DEF EncoderTypes, SoftCounts, E!Kinds
<1>4. ReaderTypes' /\ PartsRead'
  BY DEF EncoderTypes, ReaderTypes, PartsRead
<1>5. QED
  BY <1>1, <1>2, <1>3, <1>4

LEMMA MotorMoves ==
  ASSUME EncoderRules, EncoderInv, E!Edge
  PROVE  EncoderInv'
<1> USE SpanIsNumber DEF EncoderInv, E!qei, E!soft, E!call
<1> DEFINE n == counter + (IF kind = "QEI" THEN E!Sign(forward) ELSE 1)
<1>1. /\ ~ovf /\ (turned => E!Captures /\ counter = captured /\ counter < Span - 1)
      /\ position' = position + E!Sign(forward)
      /\ counter' = n % Span /\ ovf' = (n \notin 0 .. Span - 1)
      /\ UNCHANGED <<kind, forward, turned, captured, high_word, poscnt_b15, tpos, sens, got_irq,
                     at, temp, seen>>
  BY DEF E!Edge, E!Move, EncoderRules
<1>2. n \in -1 .. Span /\ (kind # "QEI" => n \in 0 .. Span)
  BY DEF EncoderTypes, E!Sign
<1>3. /\ n = Span => counter' = 0 /\ ovf'
      /\ n = -1 => counter' = Span - 1 /\ ovf'
      /\ n \in 0 .. Span - 1 => counter' = n /\ ~ovf'
  <2>1. /\ n = Span => n % Span = 0
        /\ n = -1 => n % Span = Span - 1
        /\ n \in 0 .. Span - 1 => n % Span = n
    BY <1>2, Wraps
  <2>2. ovf' <=> n \notin 0 .. Span - 1
    BY <1>1
  <2>3. /\ n = Span => n \notin 0 .. Span - 1
        /\ n = -1 => n \notin 0 .. Span - 1
    BY <1>2
  <2> HIDE DEF n
  <2>4. QED
    BY <1>1, <2>1, <2>2, <2>3
<1>4. EncoderTypes'
  BY <1>1, <1>2, <1>3 DEF EncoderTypes, E!Sign
<1>5. QeiCounts'
  <2> SUFFICES ASSUME kind = "QEI" PROVE QeiCounts'
    BY <1>1 DEF QeiCounts
  <2>1. /\ counter \in 0 .. Span - 1 /\ forward \in BOOLEAN
        /\ position = Words(high_word) + counter + poscnt_b15 /\ ~turned
        /\ Words(high_word) \in Int /\ poscnt_b15 \in Int
    BY <1>1, WordsStep DEF EncoderTypes, QeiCounts
  <2>2. UNCHANGED <<kind, forward, turned, high_word, poscnt_b15>>
    BY <1>1
  <2>3. CASE forward
    <3>1. E!Sign(forward) = 1
      BY <2>3 DEF E!Sign
    <3>2. /\ position' = position + 1
          /\ \/ ~ovf' /\ counter' = counter + 1
             \/ ovf' /\ counter' = 0 /\ counter = Span - 1
      BY <1>1, <1>3, <2>1, <3>1
    <3>3. QED
      BY <2>1, <2>2, <2>3, <3>2 DEF QeiCounts
  <2>4. CASE ~forward
    <3>1. E!Sign(forward) = -1
      BY <2>4 DEF E!Sign
    <3>2. /\ position' = position - 1
          /\ \/ ~ovf' /\ counter' = counter - 1
             \/ ovf' /\ counter' = Span - 1 /\ counter = 0
      BY <1>1, <1>3, <2>1, <3>1
    <3>3. QED
      BY <2>1, <2>2, <2>4, <3>2 DEF QeiCounts
  <2>5. QED
    BY <2>3, <2>4
<1>6. SoftCounts'
  <2>1. CASE kind # "QEI" /\ turned
    <3>1. /\ kind # "TMR" /\ sens = ~forward /\ ~ovf' /\ counter' = captured + 1
          /\ captured \in 0 .. Span - 2 /\ forward \in BOOLEAN /\ tpos \in Int
          /\ position = tpos + Along(sens, captured) - Along(sens, 0)
      BY <1>1, <1>3, <2>1 DEF EncoderTypes, SoftCounts, E!Captures
    <3>2. /\ position' = position + E!Sign(forward)
          /\ UNCHANGED <<kind, forward, turned, captured, tpos, sens>>
      BY <1>1
    <3>3. counter' - captured' = 1
      BY <3>1, <3>2
    <3>4. E!Sign(forward) = 0 - Along(sens, 1) /\ Along(sens, 1) \in Int /\ Along(sens, 0) = 0
      <4>1. (forward => ~sens) /\ (~forward => sens)
        BY <3>1
      <4>2. (forward => E!Sign(forward) = 1) /\ (~forward => E!Sign(forward) = -1)
        BY DEF E!Sign
      <4>3. /\ ~sens => Along(sens, 1) = 0 - 1 /\ Along(sens, 0) = 0
            /\ sens => Along(sens, 1) = 1 /\ Along(sens, 0) = 0
        BY DEF Along
      <4>4. QED
        BY <4>1, <4>2, <4>3
    <3>5. position' = tpos + Along(sens, captured) - Along(sens, 1)
      BY <3>1, <3>2, <3>4, SpanIsNumber DEF Along
    <3>6. QED
      BY <2>1, <3>1, <3>2, <3>3, <3>5 DEF SoftCounts
  <2>2. CASE kind # "QEI" /\ ~turned
    <3>1. /\ sens = forward /\ counter \in 0 .. Span - 1 /\ forward \in BOOLEAN /\ tpos \in Int
          /\ position = tpos + Along(sens, counter)
          /\ n = counter + 1
      BY <1>1, <2>2 DEF EncoderTypes, SoftCounts
    <3>7. \/ ~ovf' /\ counter' = counter + 1
          \/ ovf' /\ counter' = 0 /\ counter = Span - 1
      BY <1>1, <1>3, <3>1
    <3>2. /\ position' = position + E!Sign(forward)
          /\ UNCHANGED <<kind, forward, turned, tpos, sens>>
      BY <1>1
    <3>3. \A m \in Int : Along(sens, m) + E!Sign(sens) = Along(sens, m + 1)
      BY <3>1 DEF E!Sign, Along
    <3>4. position' = tpos + Along(sens, counter + 1)
      BY <3>1, <3>2, <3>3 DEF E!Sign, Along
    <3>5. counter' = 0 /\ counter = Span - 1 => counter + 1 = Span
      BY <3>1
    <3>6. QED
      BY <2>2, <3>1, <3>2, <3>4, <3>5, <3>7 DEF SoftCounts
  <2>3. QED
    BY <1>1, <2>1, <2>2 DEF SoftCounts
<1>7. ReaderTypes' /\ PartsRead'
  BY <1>1 DEF ReaderTypes, PartsRead
<1>8. QED
  BY <1>4, <1>5, <1>6, <1>7

(* The interrupts.                                                          *)
LEMMA QeiServed ==
  ASSUME EncoderRules, EncoderInv, E!QEIInterrupt
  PROVE  EncoderInv'
<1> USE SpanIsNumber DEF EncoderInv, E!soft, E!call
<1>1. /\ kind = "QEI" /\ ovf /\ ~ovf' /\ got_irq' /\ ovf' \in BOOLEAN /\ got_irq' \in BOOLEAN
      /\ poscnt_b15' = Span - poscnt_b15 /\ high_word' = E!HighWord(poscnt_b15')
      /\ UNCHANGED <<kind, counter, forward, turned, captured, position, tpos, sens, at, temp, seen>>
  BY DEF E!QEIInterrupt
<1>2. 0 < (Span \div 2) - 1 /\ Span - 1 > (Span \div 2) - 1
  <2>1. \A r \in Nat : r >= 4 => 0 < (r \div 2) - 1 /\ r - 1 > (r \div 2) - 1
    OBVIOUS
  <2>2. QED
    BY <2>1 DEF EncoderRules
<1>3. poscnt_b15' \in {0, Span}
  BY <1>1 DEF EncoderTypes
<1>4. /\ forward => high_word' = high_word + (IF poscnt_b15' = 0 THEN 1 ELSE 0)
      /\ ~forward => high_word' = high_word - (IF poscnt_b15' # 0 THEN 1 ELSE 0)
  BY <1>1, <1>2, <1>3 DEF EncoderTypes, QeiCounts, E!HighWord
<1>5. EncoderTypes'
  BY <1>1, <1>3, <1>4 DEF EncoderTypes
<1>6. QeiCounts'
  <2> DEFINE h == high_word
  <2>1. /\ Words(h) \in Int /\ Words(h + 1) = Words(h) + 2 * Span
        /\ Words(h - 1) = Words(h) - 2 * Span
    BY WordsStep DEF EncoderTypes
  <2>2. CASE forward
    <3>1. ~turned /\ counter = 0 /\ position = Words(h) + Span + poscnt_b15
      BY <1>1, <2>2 DEF QeiCounts
    <3>2. CASE poscnt_b15 = 0
      <4>1. poscnt_b15' = Span /\ high_word' = h
        BY <1>1, <1>4, <2>2, <3>2, SpanIsNumber DEF EncoderTypes
      <4>2. QED
        BY <1>1, <2>1, <3>1, <3>2, <4>1 DEF QeiCounts
    <3>3. CASE poscnt_b15 = Span
      BY <1>1, <1>4, <2>1, <2>2, <3>1, <3>3 DEF QeiCounts, EncoderTypes
    <3>4. QED
      BY <3>2, <3>3 DEF EncoderTypes
  <2>3. CASE ~forward
    BY <1>1, <1>3, <1>4, <2>1, <2>3 DEF EncoderTypes, QeiCounts
  <2>4. QED
    BY <2>2, <2>3
<1>7. SoftCounts' /\ ReaderTypes' /\ PartsRead'
  BY <1>1 DEF SoftCounts, ReaderTypes, PartsRead
<1>8. QED
  BY <1>5, <1>6, <1>7

LEMMA TimerServed ==
  ASSUME EncoderInv, E!tmr_cb \/ E!tmr2_3_cb
  PROVE  EncoderInv'
<1> USE SpanIsNumber DEF EncoderInv, E!qei, E!call
<1>1. kind # "QEI" /\ ovf /\ ~turned /\ sens = forward /\ counter = 0
  BY DEF EncoderTypes, SoftCounts, E!tmr_cb, E!tmr2_3_cb, E!Captures
<1>2. /\ ~ovf' /\ got_irq' /\ ovf' \in BOOLEAN /\ got_irq' \in BOOLEAN
      /\ tpos' = tpos + E!Sign(sens) * Span
      /\ UNCHANGED <<kind, counter, forward, turned, captured, position, high_word, poscnt_b15,
                     sens, at, temp, seen>>
  BY <1>1 DEF EncoderTypes, E!tmr_cb, E!tmr2_3_cb
<1>3. tpos' = tpos + Along(sens, Span)
  BY <1>2, SignTimes DEF EncoderTypes
<1>4. EncoderTypes'
  BY <1>2, <1>3 DEF EncoderTypes, Along
<1>5. SoftCounts'
  BY <1>1, <1>2, <1>3 DEF EncoderTypes, SoftCounts, Along
<1>6. QeiCounts' /\ ReaderTypes' /\ PartsRead'
  BY <1>1, <1>2 DEF QeiCounts, ReaderTypes, PartsRead
<1>7. QED
  BY <1>4, <1>5, <1>6

LEMMA TurnServed ==
  ASSUME EncoderInv, E!ic_cb \/ E!ic_tmr2_cb \/ E!ic_tmr3_cb
  PROVE  EncoderInv'
<1> USE SpanIsNumber DEF EncoderInv, E!qei, E!call
<1>1. kind # "QEI" /\ turned /\ ~ovf /\ sens = ~forward
  BY DEF EncoderTypes, SoftCounts, E!ic_cb, E!ic_tmr2_cb, E!ic_tmr3_cb, E!CaptureCallback
<1>2. /\ ~turned' /\ ~ovf' /\ got_irq' /\ sens' = forward /\ counter' = 0
      /\ turned' \in BOOLEAN /\ ovf' \in BOOLEAN /\ got_irq' \in BOOLEAN /\ captured' \in Int
      /\ UNCHANGED <<kind, forward, position, high_word, poscnt_b15, at, temp, seen>>
  <2>1. CASE E!ic_cb
    BY <1>1, <2>1 DEF EncoderTypes, E!ic_cb
  <2>2. CASE E!ic_tmr2_cb \/ E!ic_tmr3_cb
    <3>1. E!CaptureCallback
      BY <2>2 DEF E!ic_tmr2_cb, E!ic_tmr3_cb
    <3>2. ovf' = FALSE
      BY <1>1, <3>1 DEF E!CaptureCallback
    <3>3. turned' = FALSE /\ got_irq' = TRUE /\ captured' = 0
      BY <3>1 DEF E!CaptureCallback
    <3>4. sens' = forward /\ counter' = 0
      BY <3>1 DEF E!CaptureCallback
    <3>5. UNCHANGED <<kind, forward, position, high_word, poscnt_b15, at, temp, seen>>
      BY <3>1 DEF E!CaptureCallback
    <3>6. turned' \in BOOLEAN /\ ovf' \in BOOLEAN /\ got_irq' \in BOOLEAN
      BY <3>2, <3>3
    <3>7. ~turned' /\ ~ovf' /\ got_irq'
      BY <3>2, <3>3
    <3>8. captured' \in Int
      BY <3>3
    <3>9. QED
      BY <3>4, <3>5, <3>6, <3>7, <3>8
  <2>3. QED
    BY <2>1, <2>2
<1>3. tpos' = position
  <2>1. CASE E!ic_cb
    <3>1. tpos' = tpos + Along(sens, counter)
      BY <2>1, SignTimes DEF E!ic_cb, EncoderTypes
    <3>2. QED
      BY <1>1, <2>1, <3>1 DEF SoftCounts, E!ic_cb
  <2>2. CASE E!ic_tmr2_cb \/ E!ic_tmr3_cb
    <3>1. E!CaptureCallback /\ kind # "TMR"
      BY <2>2 DEF E!ic_tmr2_cb, E!ic_tmr3_cb
    <3>2. E!Since = counter - captured
      BY <1>1, <3>1 DEF EncoderTypes, SoftCounts, E!Since
    <3>3. tpos' = tpos + E!Sign(sens) * captured - E!Sign(sens) * (counter - captured)
      BY <3>1, <3>2 DEF E!CaptureCallback
    <3>4. tpos' = tpos + Along(sens, captured) - Along(sens, counter - captured)
      BY <3>3, SignTimes DEF EncoderTypes
    <3>5. QED
      BY <1>1, <3>1, <3>4 DEF SoftCounts
  <2>3. QED
    BY <2>1, <2>2
<1>4. EncoderTypes'
  BY <1>2, <1>3 DEF EncoderTypes
<1>5. SoftCounts'
  <2>1. position' = tpos' + Along(sens', counter')
    <3>1. Along(forward, 0) = 0
      BY AlongNothing DEF EncoderTypes
    <3>2. QED
      BY <1>2, <1>3, <3>1 DEF EncoderTypes
  <2>2. QED
    BY <1>1, <1>2, <2>1 DEF EncoderTypes, SoftCounts
<1>6. QeiCounts' /\ ReaderTypes' /\ PartsRead'
  BY <1>1, <1>2 DEF QeiCounts, ReaderTypes, PartsRead
<1>7. QED
  BY <1>4, <1>5, <1>6

(* The reader.                                                              *)
LEMMA CallReads ==
  ASSUME EncoderInv, E!Clear \/ E!ReadQei \/ E!ReadSoft \/ E!ReadHalf \/ E!Test
  PROVE  EncoderInv'
<1> USE SpanIsNumber DEF EncoderInv
<1>1. UNCHANGED <<kind, counter, ovf, forward, turned, captured, position, high_word, poscnt_b15,
                  tpos, sens>>
  BY DEF E!Clear, E!ReadQei, E!ReadSoft, E!ReadBase, E!ReadCounter, E!ReadHalf, E!Test, E!hw,
         E!qei, E!soft
<1>2. got_irq' = got_irq \/ (got_irq' = FALSE /\ at' = "first")
  BY DEF E!Clear, E!ReadQei, E!ReadSoft, E!ReadBase, E!ReadCounter, E!ReadHalf, E!Test
<1>3. EncoderTypes' /\ QeiCounts' /\ SoftCounts'
  BY <1>1, <1>2 DEF EncoderTypes, QeiCounts, SoftCounts
<1>4. CASE E!Clear \/ E!Test
  <2>1. at' \in {"first", "retry", "idle"} /\ temp' \in [1 .. 3 -> Int] /\ seen' \in Int
    BY <1>4, Nothing DEF E!Clear, E!Test, ReaderTypes
  <2>2. QED
    BY <1>3, <2>1 DEF ReaderTypes, PartsRead
<1>5. CASE E!ReadQei
  <2>1. CASE E!ReadCounter("first", "second")
    BY <1>1, <1>3, <1>5, <2>1
       DEF E!ReadCounter, E!ReadQei, EncoderTypes, QeiCounts, ReaderTypes, PartsRead
  <2>2. CASE E!ReadBase("second", "third", high_word)
    BY <1>1, <1>3, <1>5, <2>2
       DEF E!ReadBase, E!ReadQei, EncoderTypes, QeiCounts, ReaderTypes, PartsRead
  <2>3. QED
    BY <1>5, <2>1, <2>2 DEF E!ReadQei
<1>6. CASE E!ReadSoft
  <2>1. CASE E!ReadBase("first", "second", tpos)
    BY <1>1, <1>3, <1>6, <2>1
       DEF E!ReadBase, E!ReadSoft, EncoderTypes, SoftCounts, ReaderTypes, PartsRead
  <2>2. CASE E!ReadCounter("second", "third")
    BY <1>1, <1>3, <1>6, <2>2
       DEF E!ReadCounter, E!ReadSoft, EncoderTypes, SoftCounts, ReaderTypes, PartsRead
  <2>3. QED
    BY <1>6, <2>1, <2>2 DEF E!ReadSoft
<1>7. CASE E!ReadHalf
  BY <1>1, <1>3, <1>7 DEF E!ReadHalf, E!Sign, EncoderTypes, ReaderTypes, PartsRead
<1>8. QED
  BY <1>4, <1>5, <1>6, <1>7

LEMMA ResetCounts ==
  ASSUME EncoderInv, E!encoder_reset
  PROVE  EncoderInv'
<1> USE SpanIsNumber DEF EncoderInv, E!encoder_reset, E!qei, E!soft, E!call
<1>1. Words(0) = 0
  BY DEF Words
<1>2. EncoderTypes'
  BY DEF EncoderTypes
<1>3. QeiCounts' /\ SoftCounts'
  BY <1>1 DEF EncoderTypes, QeiCounts, SoftCounts, Along
<1>4. ReaderTypes' /\ PartsRead'
  BY DEF ReaderTypes, PartsRead
<1>5. QED
  BY <1>2, <1>3, <1>4

LEMMA EncoderStep ==
  ASSUME EncoderRules, EncoderInv, [E!EncoderNext]_(E!encoderVars)
  PROVE  EncoderInv'
<1>1. CASE E!EncoderNext
  BY <1>1, MotorTurns, MotorMoves, QeiServed, TimerServed, TurnServed, CallReads, ResetCounts
     DEF E!EncoderNext
<1>2. CASE UNCHANGED E!encoderVars
  BY <1>2 DEF E!encoderVars, E!hw, E!qei, E!soft, E!call, EncoderInv, EncoderTypes, QeiCounts,
              SoftCounts, ReaderTypes, PartsRead
<1>3. QED
  BY <1>1, <1>2

LEMMA EncoderShare == [Next]_vars => [E!EncoderNext]_(E!encoderVars)
<1> SUFFICES ASSUME [Next]_vars PROVE E!EncoderNext \/ UNCHANGED E!encoderVars
  OBVIOUS
<1>1. CASE UNCHANGED encoder
  BY <1>1 DEF encoder, E!encoderVars, E!hw, E!qei, E!soft, E!call
<1>2. CASE ~UNCHANGED encoder
  BY <1>2 DEF Next, vars
<1>3. QED
  BY <1>1, <1>2

(* A call of encoder_get_position returns where the motor was when it read  *)
(* the counter (encoder.c:262-301), whatever overflows and changes of       *)
(* direction fell between its reads (:375-563), for a counter of any range: *)
(* if no more than one edge comes before the interrupt of a change of       *)
(* direction and that edge does not overflow the counter.                   *)
THEOREM PositionPutTogether ==
  ASSUME EncoderRules
  PROVE  Spec => PositionTrue
<1> DEFINE Together == at = "test" /\ at' = "idle" => E!Result = seen
<1>1. Init => EncoderInv
  BY EncoderInitInv
<1>2. EncoderInv /\ [Next]_vars => EncoderInv'
  BY EncoderShare, EncoderStep
<1>3. EncoderInv /\ [Next]_vars => [Together]_(E!encoderVars)
  <2> SUFFICES ASSUME EncoderInv, E!EncoderNext, at = "test", at' = "idle"
               PROVE  E!Result = seen
    BY EncoderShare
  <2>1. ~got_irq /\ ~ovf /\ ~turned
    <3>1. E!Test
      BY DEF E!EncoderNext, E!Turn, E!Edge, E!QEIInterrupt, E!tmr_cb, E!tmr2_3_cb, E!ic_cb,
             E!ic_tmr2_cb, E!ic_tmr3_cb, E!CaptureCallback, E!Clear, E!ReadQei, E!ReadSoft,
             E!ReadBase, E!ReadCounter, E!ReadHalf, E!encoder_reset, E!call
    <3>2. QED
      BY <3>1 DEF E!Test, E!Again
  <2>2. CASE kind = "QEI"
    BY <2>1, <2>2 DEF EncoderInv, EncoderTypes, ReaderTypes, PartsRead, Words, E!Result
  <2>3. CASE kind # "QEI"
    <3>1. E!Sign(sens) * temp[2] = Along(sens, temp[2])
      BY SignTimes DEF EncoderInv, EncoderTypes, ReaderTypes
    <3>2. QED
      BY <2>1, <2>3, <3>1 DEF EncoderInv, PartsRead, E!Result
  <2>4. QED
    BY <2>2, <2>3
<1>4. QED
  BY <1>1, <1>2, <1>3, PTL DEF Spec, PositionTrue, E!PositionTrue

-----------------------------------------------------------------------------
(* The motor outputs.                                                       *)
LEMMA DutiesAreNumbers == Duties \subseteq Int /\ Periods \subseteq Nat
BY NothingAssumption DEF Duties

PwmInv ==
  /\ period \in Nat /\ mode \in P!Modes /\ inverted \in {0, 1} /\ reverse \in BOOLEAN
  /\ period # 0 /\ P!One => inverted = 1
  /\ period = 0 => last = None
  /\ DOMAIN POUT = P!Pins
  /\ P!DriveTrue

(* The registers of the channel after a duty d, not 0, for a time.          *)
LEMMA RunShows ==
  ASSUME PwmInv, period # 0, NEW dd \in Int, dd # 0, P!Run(dd), period' = period, PMOD' = inverted
  PROVE  LET time  == P!Smaller(P!Magnitude(dd), period)
             held  == IF dd > 0 THEN "L" ELSE "H"
             Away(p) == IF P!Default = 0 THEN P!High(p)' ELSE period - P!High(p)'
         IN  /\ P!One => \A p \in P!Pins : Away(p) = IF p = held THEN 0 ELSE time
             /\ ~P!One => Away("H") = time
                          /\ Away("L") = IF inverted = 1 THEN time ELSE period - time
<1> DEFINE time == P!Smaller(P!Magnitude(dd), period)
           held == IF dd > 0 THEN "L" ELSE "H"
           Away(p) == IF P!Default = 0 THEN P!High(p)' ELSE period - P!High(p)'
<1>1. period \in Nat /\ time \in 0 .. period /\ P!Default \in {0, 1} /\ P!Magnitude(dd) \in Nat
  BY DEF PwmInv, P!Smaller, P!Magnitude, P!Default
<1>2. P!Smaller(PDC', period) = IF P!Default = 0 THEN time ELSE period - time
  BY <1>1 DEF P!Run, P!Smaller, P!Magnitude
<1> HIDE DEF time
<1>3. ASSUME NEW p \in P!Pins, POVD'[p]
      PROVE  Away(p) = IF p = "L" /\ inverted = 0 THEN period - time ELSE time
  BY <1>1, <1>2, <1>3 DEF P!High
<1>4. CASE P!One
  <2>1. inverted = 1 /\ DOMAIN POUT = P!Pins
    BY <1>4 DEF PwmInv
  <2>2. ASSUME NEW p \in P!Pins, p # held PROVE Away(p) = time
    <3>1. POVD'[p]
      BY <2>2 DEF P!Run
    <3>2. QED
      BY <1>3, <2>1, <3>1
  <2>3. ASSUME NEW p \in P!Pins, p = held PROVE Away(p) = 0
    <3>1. ~POVD'[p] /\ POUT'[p] = P!Default
      BY <1>4, <2>1, <2>3 DEF P!Run, P!Holds, P!Pins
    <3>2. P!High(p)' = P!Default * period
      BY <3>1 DEF P!High
    <3>3. QED
      BY <1>1, <3>2
  <2>4. QED
    BY <1>4, <2>2, <2>3 DEF time
<1>5. CASE ~P!One
  <2>1. POVD'["H"] /\ POVD'["L"]
    BY <1>5 DEF P!Run, P!Pins
  <2>2. "H" \in P!Pins /\ "L" \in P!Pins /\ inverted \in {0, 1}
    BY DEF P!Pins, PwmInv
  <2>3. Away("H") = time /\ Away("L") = IF inverted = 1 THEN time ELSE period - time
    BY <1>3, <2>1, <2>2
  <2>4. QED
    BY <1>5, <2>3 DEF time
<1>6. QED
  BY <1>4, <1>5

LEMMA DutyShown ==
  ASSUME PwmInv, NEW id, P!SetDuty(id)
  PROVE  PwmInv'
<1>1. /\ period \in Nat /\ period # 0 /\ PMOD' = inverted
      /\ UNCHANGED <<pwm_id, period, mode, inverted, reverse>>
  BY DEF PwmInv, P!SetDuty, P!data
<1>2. PICK duty \in Duties :
        LET dd == IF reverse THEN -duty ELSE duty
        IN  /\ (dd = 0 /\ P!Stop) \/ (dd # 0 /\ P!Run(dd))
            /\ last' = [duty |-> duty, mode |-> mode, PMOD |-> inverted, reverse |-> reverse]
  BY DEF P!SetDuty
<1> DEFINE dd == IF reverse THEN -duty ELSE duty
<1>3. /\ last'.duty = duty /\ last'.mode = mode /\ last'.PMOD = inverted /\ last'.reverse = reverse
  BY <1>2
<1>4. duty \in Int /\ dd \in Int /\ (dd = 0 <=> duty = 0) /\ P!Magnitude(dd) = P!Magnitude(duty)
  BY <1>2, DutiesAreNumbers DEF P!Magnitude
<1>5. DOMAIN POUT' = P!Pins
  BY <1>2 DEF PwmInv, P!Stop, P!Run, P!Holds
<1> DEFINE low == mode \in {"ONE_DEFAULT_LOW", "BOTH_DEFAULT_LOW"}
           one == mode \in {"ONE_DEFAULT_LOW", "ONE_DEFAULT_HIGH"}
           time == P!Smaller(P!Magnitude(duty), period)
           driven == IF (duty > 0) # reverse THEN "H" ELSE "L"
           Away(p) == IF low THEN P!High(p)' ELSE period - P!High(p)'
           AtRest == \A p \in P!Pins : Away(p) = 0
           OneDriven == \A p \in P!Pins : Away(p) = IF p = driven THEN time ELSE 0
           BothDriven == Away("H") = time /\ Away("L") = IF inverted = 1 THEN time ELSE period - time
<1>6. (low <=> P!Default = 0) /\ (one <=> P!One) /\ P!Default \in {0, 1}
  BY DEF P!Default, P!One
<1>7. ASSUME duty = 0 PROVE AtRest
  <2>1. ASSUME NEW p \in P!Pins PROVE Away(p) = 0
    <3>1. ~POVD'[p] /\ POUT'[p] = P!Default
      BY <1>2, <1>4, <1>7 DEF P!Stop
    <3>2. P!High(p)' = P!Default * period
      BY <1>1, <3>1 DEF P!High
    <3>3. QED
      BY <1>1, <1>6, <3>2
  <2>2. QED
    BY <2>1
<1>8. ASSUME duty # 0 PROVE (one => OneDriven) /\ (~one => BothDriven)
  <2> DEFINE held == IF dd > 0 THEN "L" ELSE "H"
  <2>1. P!Run(dd)
    BY <1>2, <1>4, <1>8
  <2>2. /\ one => \A p \in P!Pins : Away(p) = IF p = held THEN 0 ELSE time
        /\ ~one => Away("H") = time /\ Away("L") = IF inverted = 1 THEN time ELSE period - time
    BY <1>1, <1>4, <1>6, <1>8, <2>1, RunShows
  <2>3. \A p \in P!Pins : p = held <=> p # driven
    BY <1>4, <1>8 DEF P!Pins, PwmInv
  <2>4. one => \A p \in P!Pins : Away(p) = IF p = driven THEN time ELSE 0
    BY <2>2, <2>3
  <2> HIDE DEF Away, time, one, driven
  <2>5. QED
    BY <2>2, <2>4
<1>9. P!DriveTrue'
  <2>1. CASE duty = 0
    BY <1>1, <1>3, <1>7, <2>1 DEF P!DriveTrue
  <2>2. CASE duty # 0 /\ one
    BY <1>1, <1>3, <1>8, <2>2 DEF P!DriveTrue
  <2>3. CASE duty # 0 /\ ~one
    BY <1>1, <1>3, <1>8, <2>3 DEF P!DriveTrue
  <2>4. QED
    BY <2>1, <2>2, <2>3
<1>10. QED
  BY <1>1, <1>5, <1>9 DEF PwmInv, P!One

LEMMA PwmStep ==
  ASSUME PwmInv, P!PwmNext \/ UNCHANGED P!pwmVars
  PROVE  PwmInv'
<1>1. CASE P!pwm_init
  <2>1. period' \in Nat /\ inverted' = 1 /\ last' = None
    BY <1>1, DutiesAreNumbers DEF P!pwm_init
  <2>2. UNCHANGED <<mode, reverse, POUT>>
    BY <1>1 DEF P!pwm_init, P!registers
  <2>3. QED
    BY <2>1, <2>2 DEF PwmInv, P!DriveTrue
<1>2. CASE P!pwm_disable
  BY <1>2 DEF P!pwm_disable, P!data, PwmInv, P!DriveTrue, P!One
<1>3. CASE P!pwm_set_brake \/ P!pwm_invert \/ UNCHANGED P!pwmVars
  <2>1. UNCHANGED <<period, PMOD, POVD, POUT, PDC, last>>
    BY <1>3 DEF P!pwm_set_brake, P!pwm_invert, P!pwmVars, P!data, P!registers
  <2>2. mode' \in P!Modes /\ inverted' \in {0, 1} /\ reverse' \in BOOLEAN
    BY <1>3 DEF P!pwm_set_brake, P!pwm_invert, P!pwmVars, P!data, PwmInv, P!Modes
  <2>3. period # 0 /\ P!One' => inverted' = 1
    BY <1>3 DEF P!pwm_set_brake, P!pwm_invert, P!pwmVars, P!data, PwmInv, P!One
  <2>4. P!DriveTrue'
    BY <2>1 DEF PwmInv, P!DriveTrue, P!High
  <2>5. QED
    BY <2>1, <2>2, <2>3, <2>4 DEF PwmInv
<1>4. QED
  BY <1>1, <1>2, <1>3, DutyShown
     DEF P!PwmNext, P!set_duty_1, P!set_duty_2, P!set_duty_3, P!set_duty_4

LEMMA PwmShare == [Next]_vars => P!PwmNext \/ UNCHANGED P!pwmVars
<1> SUFFICES ASSUME [Next]_vars PROVE P!PwmNext \/ UNCHANGED P!pwmVars
  OBVIOUS
<1>1. CASE UNCHANGED pwm
  BY <1>1 DEF pwm, P!pwmVars, P!data, P!registers
<1>2. CASE ~UNCHANGED pwm
  BY <1>2 DEF Next, vars
<1>3. QED
  BY <1>1, <1>2

(* Whatever was set before, the pins of a channel show the last duty in the *)
(* mode, with the inversion and the reversal that were in force when it was *)
(* set (pwm.c:163-512), a part of SettingsRight.                            *)
THEOREM LastDutyShown == Spec => []P!DriveTrue
<1>1. Init => PwmInv
  <2>1. P!PwmInit => PwmInv
    <3>1. P!PwmInit => last = None /\ P!DriveTrue
      BY DEF P!PwmInit, P!DriveTrue
    <3>2. P!PwmInit => /\ period = 0 /\ mode \in P!Modes /\ inverted \in {0, 1}
                         /\ reverse \in BOOLEAN /\ DOMAIN POUT = P!Pins
      BY DEF P!PwmInit, P!Modes
    <3>3. QED
      BY <3>1, <3>2 DEF PwmInv
  <2>2. QED
    BY <2>1 DEF Init
<1>2. PwmInv /\ [Next]_vars => PwmInv'
  BY PwmShare, PwmStep
<1>3. PwmInv => P!DriveTrue
  BY DEF PwmInv
<1>4. QED
  BY <1>1, <1>2, <1>3, PTL DEF Spec

-----------------------------------------------------------------------------
(* The flash.  Addresses as a row, or a page, and a place in it.            *)
LEMMA FlashSizes ==
  /\ RowSize \in Nat \ {0} /\ PageSize \in Nat \ {0} /\ FlashSize \in Nat \ {0} /\ MaxWritten \in Nat
  /\ F!Quarter \in Nat \ {0} /\ RowSize = 4 * F!Quarter
  /\ Errata \in 0 .. F!Quarter - 1
  /\ PageSize % RowSize = 0 /\ FlashSize % RowSize = 0
<1>1. /\ RowSize \in Nat \ {0} /\ PageSize \in Nat \ {0} /\ FlashSize \in Nat \ {0}
      /\ MaxWritten \in Nat /\ RowSize % 4 = 0
      /\ PageSize % RowSize = 0 /\ FlashSize % RowSize = 0 /\ Errata \in 0 .. (RowSize \div 4) - 1
  BY DriversAssumption
<1>2. RowSize = 4 * (RowSize \div 4) /\ RowSize \div 4 \in Nat
  BY <1>1
<1>3. QED
  BY <1>1, <1>2 DEF F!Quarter

LEMMA RowIsNumber == RowSize \in Nat \ {0} /\ F!Quarter \in Nat \ {0}
BY FlashSizes

LEMMA InRow ==
  ASSUME NEW b \in Nat, NEW l \in 0 .. RowSize - 1, b % RowSize = 0
  PROVE  /\ (b + l) % RowSize = l /\ F!RowOf(b + l) = b
         /\ (b + l) % F!Quarter = l % F!Quarter
         /\ l \div F!Quarter \in 0 .. 3
         /\ ((b + l) \div F!Quarter) % 4 = l \div F!Quarter
         /\ (b + l) \div F!Quarter \in Nat
<1> DEFINE Q == F!Quarter
           k == b \div RowSize
           x == l \div Q
           y == l % Q
<1>1. k \in Nat /\ b = RowSize * k
  <2>1. b = RowSize * k + (b % RowSize) /\ k \in Nat
    BY Divided, FlashSizes
  <2>2. QED
    BY <2>1, FlashSizes
<1>2. l = Q * x + y /\ x \in Nat /\ y \in 0 .. Q - 1 /\ Q \in Nat \ {0} /\ RowSize = 4 * Q
  <2>1. Q \in Nat \ {0} /\ RowSize = 4 * Q /\ l \in Nat
    BY FlashSizes
  <2> HIDE DEF Q
  <2>2. QED
    BY <2>1, Divided
<1> HIDE DEF k, x, y, Q
<1>3. (b + l) % RowSize = l
  BY <1>1, Divides, FlashSizes
<1>4. F!RowOf(b + l) = b
  BY <1>3 DEF F!RowOf
<1>5. x \in 0 .. 3
  <2>1. x >= 4 => Q * x >= Q * 4
    BY <1>2
  <2>2. QED
    BY <1>2, <2>1
<1>6. b + l = Q * (4 * k + x) + y
  <2>1. RowSize * k = Q * (4 * k)
    BY <1>1, <1>2
  <2>2. Q * (4 * k + x) = Q * (4 * k) + Q * x
    BY <1>1, <1>2
  <2>3. QED
    BY <1>1, <1>2, <2>1, <2>2
<1>7. (b + l) \div Q = 4 * k + x /\ (b + l) % Q = y
  BY <1>1, <1>2, <1>6, Divides
<1>8. (4 * k + x) % 4 = x
  BY <1>1, <1>5
<1>9. QED
  BY <1>1, <1>3, <1>4, <1>5, <1>7, <1>8 DEF x, y, Q

LEMMA InOnePage ==
  ASSUME NEW b \in Nat, NEW l \in 0 .. RowSize - 1, b % RowSize = 0
  PROVE  F!InPage(b \div PageSize, b + l) = b + l
<1> DEFINE k == b \div RowSize
           m == PageSize \div RowSize
           q == b \div PageSize
           s == b % PageSize
<1>1. k \in Nat /\ b = RowSize * k
  <2>1. b = RowSize * k + (b % RowSize) /\ k \in Nat
    BY Divided, FlashSizes
  <2>2. QED
    BY <2>1, FlashSizes
<1>2. m \in Nat /\ PageSize = RowSize * m
  <2>1. PageSize = RowSize * m + (PageSize % RowSize) /\ m \in Nat
    BY Divided, FlashSizes
  <2>2. QED
    BY <2>1, FlashSizes
<1>3. q \in Nat /\ s \in 0 .. PageSize - 1 /\ b = PageSize * q + s
  BY Divided, FlashSizes
<1> HIDE DEF k, m, q, s
<1>4. s = RowSize * (k - m * q)
  <2>1. PageSize * q = RowSize * (m * q)
    BY <1>2, <1>3, FlashSizes
  <2>2. RowSize * (k - m * q) = RowSize * k - RowSize * (m * q)
    BY <1>1, <1>2, <1>3, FlashSizes
  <2>3. RowSize * k \in Int /\ RowSize * (m * q) \in Int /\ s \in Int
    BY <1>1, <1>2, <1>3, FlashSizes
  <2>4. RowSize * k = RowSize * (m * q) + s
    BY <1>1, <1>3, <2>1
  <2>5. QED
    BY <2>2, <2>3, <2>4
<1>5. s <= PageSize - RowSize
  <2> DEFINE t == k - m * q
  <2>1. t \in Int /\ s = RowSize * t
    BY <1>1, <1>2, <1>3, <1>4
  <2> HIDE DEF t
  <2>2. t < m
    <3>1. t >= m => RowSize * t >= RowSize * m
      BY <1>2, <2>1, FlashSizes
    <3>2. QED
      BY <1>2, <1>3, <2>1, <3>1, FlashSizes
  <2>3. RowSize * t <= RowSize * (m - 1) /\ RowSize * (m - 1) = RowSize * m - RowSize
    BY <1>2, <2>1, <2>2, FlashSizes
  <2>4. QED
    BY <1>2, <2>1, <2>3, FlashSizes
<1>6. (b + l) % PageSize = s + l
  BY <1>3, <1>5, Divides, FlashSizes
<1>7. F!InPage(q, b + l) = b + l
  BY <1>3, <1>6, FlashSizes DEF F!InPage
<1>8. QED
  BY <1>7 DEF q

LEMMA RowIs ==
  ASSUME NEW b \in Nat, NEW a \in Nat, b % RowSize = 0
  PROVE  /\ F!RowOf(a) = b <=> a \in b .. b + RowSize - 1
         /\ a \in b .. b + RowSize - 1 => a % RowSize = a - b
<1>1. a % RowSize \in 0 .. RowSize - 1
  BY Divided, FlashSizes
<1>2. ASSUME a \in b .. b + RowSize - 1
      PROVE  F!RowOf(a) = b /\ a % RowSize = a - b
  <2>1. a - b \in 0 .. RowSize - 1 /\ b + (a - b) = a
    BY <1>2, FlashSizes
  <2>2. QED
    BY <2>1, InRow
<1>3. ASSUME F!RowOf(a) = b PROVE a \in b .. b + RowSize - 1
  BY <1>1, <1>3, FlashSizes DEF F!RowOf
<1>4. QED
  BY <1>2, <1>3

LEMMA NextRow ==
  ASSUME NEW b \in Nat, b % RowSize = 0
  PROVE  (b + RowSize) % RowSize = 0
<1> DEFINE k == b \div RowSize
<1>1. b = RowSize * k + (b % RowSize) /\ k \in Nat
  BY Divided, FlashSizes
<1> HIDE DEF k
<1>2. PICK q \in Int : q = k + 1
  BY <1>1
<1>3. PICK a \in Int : a = b + RowSize
  BY RowIsNumber
<1>4. a = RowSize * q + 0 /\ 0 \in 0 .. RowSize - 1
  BY <1>1, <1>2, <1>3, FlashSizes
<1>5. a % RowSize = 0
  BY <1>4, Divides, RowIsNumber
<1>6. QED
  BY <1>3, <1>5

(* The latches the erratum spoils, and how they are written again.          *)
ErrataPlace(i) == i * F!Quarter + Errata

LEMMA ErrataPlaces ==
  /\ \A i \in 0 .. 3 : /\ ErrataPlace(i) \in 0 .. RowSize - 1
                       /\ ErrataPlace(i) % F!Quarter = Errata /\ ErrataPlace(i) \div F!Quarter = i
  /\ \A l \in 0 .. RowSize - 1 : /\ l \div F!Quarter \in 0 .. 3
                                 /\ l % F!Quarter = Errata => l = ErrataPlace(l \div F!Quarter)
<1>1. ASSUME NEW i \in 0 .. 3
      PROVE  /\ ErrataPlace(i) \in 0 .. RowSize - 1
             /\ ErrataPlace(i) % F!Quarter = Errata /\ ErrataPlace(i) \div F!Quarter = i
  <2>1. ErrataPlace(i) = F!Quarter * i + Errata /\ F!Quarter * i \in 0 .. 3 * F!Quarter
    BY FlashSizes DEF ErrataPlace
  <2>2. QED
    BY <2>1, Divides, FlashSizes
<1>2. ASSUME NEW l \in 0 .. RowSize - 1
      PROVE  /\ l \div F!Quarter \in 0 .. 3
             /\ l % F!Quarter = Errata => l = ErrataPlace(l \div F!Quarter)
  <2>1. l = F!Quarter * (l \div F!Quarter) + (l % F!Quarter) /\ l \div F!Quarter \in Nat
    BY Divided, FlashSizes
  <2>2. 0 % RowSize = 0
    BY FlashSizes
  <2>3. l \div F!Quarter \in 0 .. 3
    BY <2>2, InRow
  <2>4. QED
    BY <2>1, <2>3, FlashSizes DEF ErrataPlace
<1>3. QED
  BY <1>1, <1>2

(* g is f with data written at the place of addr: a place of the erratum is *)
(* only spared when addr is of one too.                                     *)
Written(g, f, addr, data) ==
  /\ DOMAIN g = 0 .. RowSize - 1 /\ g[addr % RowSize] = data
  /\ \A p \in 0 .. RowSize - 1 :
       p # addr % RowSize /\ (p % F!Quarter # Errata \/ addr % F!Quarter = Errata) => g[p] = f[p]

LEMMA LatchWritten ==
  ASSUME NEW addr \in Nat, NEW data, NEW f, DOMAIN f = 0 .. RowSize - 1
  PROVE  Written(F!tblwt(f, addr, data), f, addr, data)
<1> DEFINE i == (addr \div F!Quarter + 3) % 4
           l == addr % RowSize
           g == F!tblwt(f, addr, data)
<1>1. i \in 0 .. 3 /\ l \in 0 .. RowSize - 1
  <2>1. addr \div F!Quarter \in Nat /\ l \in 0 .. RowSize - 1
    BY Divided, RowIsNumber
  <2>2. QED
    BY <2>1
<1>2. i * F!Quarter + Errata = ErrataPlace(i) /\ ErrataPlace(i) % F!Quarter = Errata
  BY <1>1, ErrataPlaces DEF ErrataPlace
<1>3. g = [f EXCEPT ![ErrataPlace(i)] = IF addr % F!Quarter = Errata THEN @ ELSE F!Spoilt,
                    ![l] = data]
  BY <1>1, <1>2 DEF F!tblwt
<1> HIDE DEF i, g, l
<1>4. /\ DOMAIN g = 0 .. RowSize - 1 /\ g[l] = data
      /\ \A p \in 0 .. RowSize - 1 :
           p # l /\ (p % F!Quarter # Errata \/ addr % F!Quarter = Errata) => g[p] = f[p]
  BY <1>1, <1>2, <1>3
<1>5. QED
  BY <1>4 DEF g, l, Written

Rewritten(f, saved, b, i) == F!tblwt(f, b + ErrataPlace(i), saved[i])

LEMMA LatchRewritten ==
  ASSUME NEW b \in Nat, NEW f, NEW saved, NEW i \in 0 .. 3,
         b % RowSize = 0, DOMAIN f = 0 .. RowSize - 1
  PROVE  /\ DOMAIN Rewritten(f, saved, b, i) = 0 .. RowSize - 1
         /\ Rewritten(f, saved, b, i)[ErrataPlace(i)] = saved[i]
         /\ \A p \in 0 .. RowSize - 1 :
              p # ErrataPlace(i) => Rewritten(f, saved, b, i)[p] = f[p]
<1>1. ErrataPlace(i) \in 0 .. RowSize - 1 /\ ErrataPlace(i) % F!Quarter = Errata
  BY ErrataPlaces
<1> DEFINE addr == b + ErrataPlace(i)
<1>2. addr \in Nat /\ addr % RowSize = ErrataPlace(i) /\ addr % F!Quarter = Errata
  <2>1. PICK l \in 0 .. RowSize - 1 : l = ErrataPlace(i)
    BY <1>1
  <2>2. (b + l) % RowSize = l /\ (b + l) % F!Quarter = l % F!Quarter
    BY InRow
  <2>3. b + l \in Nat
    BY RowIsNumber
  <2>4. QED
    BY <1>1, <2>1, <2>2, <2>3
<1> HIDE DEF addr
<1>3. /\ DOMAIN F!tblwt(f, addr, saved[i]) = 0 .. RowSize - 1
      /\ F!tblwt(f, addr, saved[i])[ErrataPlace(i)] = saved[i]
      /\ \A p \in 0 .. RowSize - 1 :
           p # ErrataPlace(i) => F!tblwt(f, addr, saved[i])[p] = f[p]
  <2>1. Written(F!tblwt(f, addr, saved[i]), f, addr, saved[i])
    BY <1>2, LatchWritten
  <2>2. QED
    BY <1>2, <2>1 DEF Written
<1>4. QED
  BY <1>3 DEF Rewritten, addr

(* g is f with the places of the erratum written again.                     *)
FixesUp(g, f, saved) ==
  /\ DOMAIN g = 0 .. RowSize - 1
  /\ \A i \in 0 .. 3 : g[ErrataPlace(i)] = saved[i]
  /\ \A p \in 0 .. RowSize - 1 : p % F!Quarter # Errata => g[p] = f[p]

LEMMA FixedUp ==
  ASSUME NEW addr \in Nat, NEW f, NEW saved,
         addr >= RowSize, (addr - RowSize) % RowSize = 0, DOMAIN f = 0 .. RowSize - 1
  PROVE  FixesUp(F!Fixup(f, saved, addr), f, saved)
<1>1. PICK b \in Nat : b = addr - RowSize
  BY RowIsNumber
<1>2. b % RowSize = 0
  BY <1>1
<1> DEFINE f1 == Rewritten(f, saved, b, 0)
           f2 == Rewritten(f1, saved, b, 1)
           f3 == Rewritten(f2, saved, b, 2)
           f4 == Rewritten(f3, saved, b, 3)
<1>3. \A i \in 0 .. 3 : F!fixup_addr(addr, i) = b + ErrataPlace(i)
  BY <1>1, FlashSizes DEF F!fixup_addr, ErrataPlace
<1>4. F!Fixup(f, saved, addr) = f4
  BY <1>3 DEF F!Fixup, Rewritten
<1>5. \A i, j \in 0 .. 3 : i # j => ErrataPlace(i) # ErrataPlace(j)
  BY ErrataPlaces
<1>6. 0 \in 0 .. 3 /\ 1 \in 0 .. 3 /\ 2 \in 0 .. 3 /\ 3 \in 0 .. 3
  OBVIOUS
<1>7. /\ DOMAIN f1 = 0 .. RowSize - 1 /\ f1[ErrataPlace(0)] = saved[0]
      /\ \A p \in 0 .. RowSize - 1 : p # ErrataPlace(0) => f1[p] = f[p]
  BY <1>6, <1>2, LatchRewritten, RowIsNumber
<1> HIDE DEF f1
<1>8. /\ DOMAIN f2 = 0 .. RowSize - 1 /\ f2[ErrataPlace(1)] = saved[1]
      /\ \A p \in 0 .. RowSize - 1 : p # ErrataPlace(1) => f2[p] = f1[p]
  BY <1>6, <1>7, <1>2, LatchRewritten, RowIsNumber
<1> HIDE DEF f2
<1>9. /\ DOMAIN f3 = 0 .. RowSize - 1 /\ f3[ErrataPlace(2)] = saved[2]
      /\ \A p \in 0 .. RowSize - 1 : p # ErrataPlace(2) => f3[p] = f2[p]
  BY <1>6, <1>8, <1>2, LatchRewritten, RowIsNumber
<1> HIDE DEF f3
<1>10. /\ DOMAIN f4 = 0 .. RowSize - 1 /\ f4[ErrataPlace(3)] = saved[3]
      /\ \A p \in 0 .. RowSize - 1 : p # ErrataPlace(3) => f4[p] = f3[p]
  BY <1>6, <1>9, <1>2, LatchRewritten, RowIsNumber
<1> HIDE DEF f4
<1>11. \A i \in 0 .. 3 : f4[ErrataPlace(i)] = saved[i]
  <2>1. /\ ErrataPlace(0) \in 0 .. RowSize - 1 /\ ErrataPlace(1) \in 0 .. RowSize - 1
        /\ ErrataPlace(2) \in 0 .. RowSize - 1
    BY ErrataPlaces
  <2>2. /\ f4[ErrataPlace(0)] = saved[0] /\ f4[ErrataPlace(1)] = saved[1]
        /\ f4[ErrataPlace(2)] = saved[2] /\ f4[ErrataPlace(3)] = saved[3]
    BY <1>5, <1>7, <1>8, <1>9, <1>10, <2>1
  <2>3. QED
    BY <2>2
<1>12. \A p \in 0 .. RowSize - 1 : p % F!Quarter # Errata => f4[p] = f[p]
  <2> SUFFICES ASSUME NEW p \in 0 .. RowSize - 1, p % F!Quarter # Errata PROVE f4[p] = f[p]
    OBVIOUS
  <2>1. /\ p # ErrataPlace(0) /\ p # ErrataPlace(1) /\ p # ErrataPlace(2) /\ p # ErrataPlace(3)
    BY ErrataPlaces
  <2>2. QED
    BY <1>7, <1>8, <1>9, <1>10, <2>1
<1>13. QED
  BY <1>4, <1>10, <1>11, <1>12 DEF FixesUp

(* What the flash, the latches and the words kept for the fix-up hold of an *)
(* image, with a row begun.                                                 *)
Base == current_addr - row_counter

Held(img) ==
  /\ DOMAIN flash = F!Addresses /\ DOMAIN latch = 0 .. RowSize - 1
  /\ DOMAIN _errata_latch_d = 0 .. 3
  /\ row_counter \in 0 .. RowSize - 1 /\ current_addr \in 0 .. FlashSize
  /\ Base \in Nat /\ Base % RowSize = 0
  /\ TBLPAG = Base \div PageSize
  /\ \A a \in F!Addresses : flash[a] = IF a < Base THEN img[a] ELSE Blank
  /\ \A l \in 0 .. row_counter - 1 : l % F!Quarter # Errata => latch[l] = img[Base + l]
  /\ \A i \in 0 .. 3 :
       ErrataPlace(i) < row_counter => _errata_latch_d[i] = img[Base + ErrataPlace(i)]

LEMMA InstructionHeld ==
  ASSUME NEW img, NEW data, Held(img), current_addr < FlashSize, img[current_addr] = data,
         F!WriteInstruction(data)
  PROVE  Held(img)' /\ current_addr' = current_addr + 1
<1> DEFINE c == row_counter
           b == Base
           errata == IF current_addr % F!Quarter = Errata
                     THEN [_errata_latch_d EXCEPT ![(current_addr \div F!Quarter) % 4] = data]
                     ELSE _errata_latch_d
           written1 == F!tblwt(latch, current_addr, data)
           fixed == F!Fixup(written1, errata, current_addr + 1)
<1>1. /\ DOMAIN flash = F!Addresses /\ DOMAIN latch = 0 .. RowSize - 1
      /\ DOMAIN _errata_latch_d = 0 .. 3
      /\ c \in 0 .. RowSize - 1 /\ current_addr \in 0 .. FlashSize - 1
      /\ b \in Nat /\ b % RowSize = 0 /\ current_addr = b + c
  BY FlashSizes DEF Held, Base
<1>2. /\ _errata_latch_d' = errata /\ current_addr' = current_addr + 1
      /\ c + 1 = RowSize => /\ NVMADR' = F!InPage(TBLPAG, F!fixup_addr(current_addr + 1, 3))
                            /\ flash' = F!do_key_seq(fixed, NVMADR')
                            /\ latch' = [l \in 0 .. RowSize - 1 |-> Blank]
                            /\ TBLPAG' = current_addr' \div PageSize /\ row_counter' = 0
      /\ c + 1 # RowSize => /\ latch' = written1 /\ row_counter' = c + 1
                            /\ UNCHANGED <<flash, TBLPAG>>
  BY DEF F!WriteInstruction
<1>3. /\ \A a \in F!Addresses : flash[a] = IF a < b THEN img[a] ELSE Blank
      /\ \A l \in 0 .. c - 1 : l % F!Quarter # Errata => latch[l] = img[b + l]
      /\ \A i \in 0 .. 3 : ErrataPlace(i) < c => _errata_latch_d[i] = img[b + ErrataPlace(i)]
      /\ TBLPAG = b \div PageSize
  BY DEF Held
<1>4. /\ current_addr % RowSize = c /\ current_addr % F!Quarter = c % F!Quarter
      /\ (current_addr \div F!Quarter) % 4 = c \div F!Quarter
  <2>1. PICK k \in Nat : k = b
    BY <1>1
  <2>2. PICK l \in 0 .. RowSize - 1 : l = c
    BY <1>1
  <2>3. k % RowSize = 0 /\ current_addr = k + l
    BY <1>1, <2>1, <2>2
  <2>4. /\ (k + l) % RowSize = l /\ (k + l) % F!Quarter = l % F!Quarter
        /\ ((k + l) \div F!Quarter) % 4 = l \div F!Quarter
    BY <2>3, InRow
  <2>5. QED
    BY <2>2, <2>3, <2>4
<1> HIDE DEF b, c
<1>5. /\ DOMAIN errata = 0 .. 3
      /\ \A i \in 0 .. 3 : ErrataPlace(i) < c + 1 => errata[i] = img[b + ErrataPlace(i)]
  <2>1. CASE c % F!Quarter = Errata
    <3>1. errata = [_errata_latch_d EXCEPT ![c \div F!Quarter] = data]
      BY <1>4, <2>1
    <3>2. c \div F!Quarter \in 0 .. 3 /\ c = ErrataPlace(c \div F!Quarter)
      BY <1>1, <2>1, ErrataPlaces
    <3>3. \A i \in 0 .. 3 : ErrataPlace(i) \in Nat /\ (ErrataPlace(i) = c => i = c \div F!Quarter)
      BY ErrataPlaces, RowIsNumber
    <3>4. ASSUME NEW i \in 0 .. 3, ErrataPlace(i) < c + 1
          PROVE  errata[i] = img[b + ErrataPlace(i)]
      <4>1. CASE ErrataPlace(i) = c
        <5>1. i = c \div F!Quarter /\ errata[i] = data
          BY <1>1, <3>1, <3>2, <3>3, <4>1
        <5>2. b + ErrataPlace(i) = current_addr
          BY <1>1, <4>1
        <5>3. QED
          BY <5>1, <5>2
      <4>2. CASE ErrataPlace(i) # c
        <5>1. i # c \div F!Quarter
          BY <3>2, <4>2
        <5>2. ErrataPlace(i) < c
          BY <1>1, <3>3, <3>4, <4>2
        <5>3. errata[i] = _errata_latch_d[i]
          BY <1>1, <3>1, <5>1
        <5>4. QED
          BY <1>3, <5>2, <5>3
      <4>3. QED
        BY <4>1, <4>2
    <3>5. QED
      BY <1>1, <3>1, <3>4
  <2>2. CASE c % F!Quarter # Errata
    <3>1. errata = _errata_latch_d
      BY <1>4, <2>2
    <3>2. \A i \in 0 .. 3 : ErrataPlace(i) # c /\ ErrataPlace(i) \in Nat
      BY <2>2, ErrataPlaces, RowIsNumber
    <3>3. \A i \in 0 .. 3 : ErrataPlace(i) < c + 1 => ErrataPlace(i) < c
      BY <1>1, <3>2, RowIsNumber
    <3>4. QED
      BY <1>1, <1>3, <3>1, <3>3
  <2>3. QED
    BY <2>1, <2>2
<1>6. /\ DOMAIN written1 = 0 .. RowSize - 1
      /\ \A l \in 0 .. c : l % F!Quarter # Errata => written1[l] = img[b + l]
  <2>1. /\ DOMAIN written1 = 0 .. RowSize - 1 /\ written1[c] = data
        /\ \A p \in 0 .. RowSize - 1 : p # c /\ p % F!Quarter # Errata => written1[p] = latch[p]
    <3>1. current_addr \in Nat /\ DOMAIN latch = 0 .. RowSize - 1
      BY <1>1, FlashSizes
    <3>2. /\ DOMAIN written1 = 0 .. RowSize - 1 /\ written1[current_addr % RowSize] = data
          /\ \A p \in 0 .. RowSize - 1 :
               p # current_addr % RowSize /\ p % F!Quarter # Errata => written1[p] = latch[p]
      <4>1. Written(written1, latch, current_addr, data)
        BY <3>1, LatchWritten
      <4>2. QED
        BY <4>1 DEF Written
    <3>3. QED
      BY <1>4, <3>2
  <2> HIDE DEF written1
  <2>2. ASSUME NEW l \in 0 .. c, l % F!Quarter # Errata PROVE written1[l] = img[b + l]
    <3>1. CASE l = c
      BY <1>1, <2>1, <3>1
    <3>2. CASE l # c
      <4>1. l \in 0 .. c - 1 /\ l \in 0 .. RowSize - 1
        BY <1>1, <2>2, <3>2, RowIsNumber
      <4>2. QED
        BY <1>3, <2>1, <2>2, <3>2, <4>1
    <3>3. QED
      BY <3>1, <3>2
  <2>3. QED
    BY <2>1, <2>2
<1> HIDE DEF errata, written1
<1>7. CASE c + 1 # RowSize
  <2>1. /\ UNCHANGED <<flash, TBLPAG>> /\ latch' = written1 /\ row_counter' = c + 1
        /\ _errata_latch_d' = errata /\ Base' = b
    BY <1>1, <1>2, <1>7, RowIsNumber DEF Base
  <2>2. row_counter' \in 0 .. RowSize - 1 /\ current_addr' \in 0 .. FlashSize
    BY <1>1, <1>2, <1>7, FlashSizes
  <2>3. \A l \in 0 .. row_counter' - 1 : l % F!Quarter # Errata => latch'[l] = img[Base' + l]
    <3>1. row_counter' - 1 = c
      BY <1>1, <2>1, RowIsNumber
    <3>2. QED
      BY <1>6, <2>1, <3>1
  <2>4. QED
    BY <1>1, <1>2, <1>3, <1>5, <1>6, <2>1, <2>2, <2>3 DEF Held
<1>8. CASE c + 1 = RowSize
  <2>1. /\ NVMADR' = F!InPage(TBLPAG, F!fixup_addr(current_addr + 1, 3))
        /\ flash' = F!do_key_seq(fixed, NVMADR') /\ latch' = [l \in 0 .. RowSize - 1 |-> Blank]
        /\ TBLPAG' = current_addr' \div PageSize /\ row_counter' = 0
    BY <1>2, <1>8
  <2>2. current_addr + 1 = b + RowSize /\ Base' = b + RowSize /\ b + RowSize \in 0 .. FlashSize
    BY <1>1, <1>2, <1>8, <2>1, FlashSizes DEF Base
  <2>3. NVMADR' = b + ErrataPlace(3) /\ ErrataPlace(3) \in 0 .. RowSize - 1
    <3>1. F!fixup_addr(b + RowSize, 3) = b + ErrataPlace(3)
      BY <1>1, FlashSizes DEF F!fixup_addr, ErrataPlace
    <3>2. PICK l \in 0 .. RowSize - 1 : l = ErrataPlace(3)
      BY ErrataPlaces
    <3>3. F!InPage(b \div PageSize, b + l) = b + l
      BY <1>1, InOnePage
    <3>4. QED
      BY <1>3, <2>1, <2>2, <3>1, <3>2, <3>3
  <2>4. \A l \in 0 .. RowSize - 1 : fixed[l] = img[b + l]
    <3>1. /\ \A i \in 0 .. 3 : fixed[ErrataPlace(i)] = errata[i]
          /\ \A p \in 0 .. RowSize - 1 : p % F!Quarter # Errata => fixed[p] = written1[p]
      <4>1. PICK addr \in Nat : addr = current_addr + 1
        BY <1>1
      <4>2. addr >= RowSize /\ (addr - RowSize) % RowSize = 0
        BY <1>1, <2>2, <4>1, RowIsNumber
      <4>3. fixed = F!Fixup(written1, errata, addr)
        BY <4>1
      <4>4. FixesUp(F!Fixup(written1, errata, addr), written1, errata)
        BY <1>6, <4>2, FixedUp, RowIsNumber
      <4>5. QED
        BY <4>3, <4>4 DEF FixesUp
    <3> HIDE DEF fixed
    <3>2. ASSUME NEW l \in 0 .. RowSize - 1, l % F!Quarter = Errata PROVE fixed[l] = img[b + l]
      <4>1. PICK i \in 0 .. 3 : l = ErrataPlace(i)
        BY <3>2, ErrataPlaces
      <4>2. ErrataPlace(i) < c + 1
        BY <1>8, <4>1, RowIsNumber
      <4>3. QED
        BY <1>5, <3>1, <4>1, <4>2
    <3>3. ASSUME NEW l \in 0 .. RowSize - 1, l % F!Quarter # Errata PROVE fixed[l] = img[b + l]
      BY <1>1, <1>6, <1>8, <3>1, <3>3, RowIsNumber
    <3>4. QED
      BY <3>2, <3>3
  <2> HIDE DEF fixed
  <2>5. ASSUME NEW a \in F!Addresses
        PROVE  flash'[a] = IF a < b + RowSize THEN img[a] ELSE Blank
    <3>1. a \in Nat /\ F!RowOf(NVMADR') = b
      BY <1>1, <2>3, RowIs, RowIsNumber DEF F!Addresses
    <3>2. flash'[a] = IF F!RowOf(a) = b THEN fixed[a % RowSize] ELSE flash[a]
      BY <2>1, <3>1 DEF F!do_key_seq
    <3>3. CASE a \in b .. b + RowSize - 1
      <4>1. F!RowOf(a) = b /\ a % RowSize = a - b /\ a - b \in 0 .. RowSize - 1 /\ b + (a - b) = a
        BY <1>1, <3>1, <3>3, RowIs, RowIsNumber
      <4>2. QED
        BY <1>1, <2>4, <3>1, <3>2, <3>3, <4>1, RowIsNumber
    <3>4. CASE a \notin b .. b + RowSize - 1
      <4>1. F!RowOf(a) # b
        BY <1>1, <3>1, <3>4, RowIs
      <4>2. QED
        BY <1>1, <1>3, <3>1, <3>2, <3>4, <4>1, RowIsNumber
    <3>5. QED
      BY <3>3, <3>4
  <2>6. (b + RowSize) % RowSize = 0 /\ b + RowSize \in Nat
    <3>1. b \in Nat /\ b % RowSize = 0
      BY <1>1
    <3>2. (b + RowSize) % RowSize = 0
      BY <3>1, NextRow
    <3>3. QED
      BY <3>1, <3>2, RowIsNumber
  <2>7. /\ DOMAIN flash' = F!Addresses /\ DOMAIN latch' = 0 .. RowSize - 1
        /\ DOMAIN _errata_latch_d' = 0 .. 3
    BY <1>2, <1>5, <2>1 DEF F!do_key_seq
  <2>8. /\ row_counter' \in 0 .. RowSize - 1 /\ current_addr' \in 0 .. FlashSize
        /\ TBLPAG' = Base' \div PageSize
    BY <1>2, <2>1, <2>2, RowIsNumber
  <2>9. /\ \A l \in 0 .. row_counter' - 1 : l % F!Quarter # Errata => latch'[l] = img[Base' + l]
        /\ \A i \in 0 .. 3 :
             ErrataPlace(i) < row_counter' => _errata_latch_d'[i] = img[Base' + ErrataPlace(i)]
    <3>1. 0 .. row_counter' - 1 = {}
      BY <2>1
    <3>2. \A i \in 0 .. 3 : ErrataPlace(i) \in 0 .. RowSize - 1
      BY ErrataPlaces
    <3>3. \A i \in 0 .. 3 : ~(ErrataPlace(i) < row_counter')
      BY <2>1, <3>2, RowIsNumber
    <3>4. QED
      BY <3>1, <3>3
  <2>10. QED
    BY <1>2, <2>2, <2>5, <2>6, <2>7, <2>8, <2>9 DEF Held
<1>9. QED
  BY <1>7, <1>8

(* The sessions.                                                            *)
Image == [a \in F!Addresses |-> F!Expected(a)]
Instructions == Nat \cup {Blank}

FlashInv ==
  /\ session \in {"idle", "writing", "padding", "written"}
  /\ written \in Seq(Instructions) /\ Len(written) <= MaxWritten
  /\ from \in Nat /\ from % RowSize = 0 /\ from + Len(written) <= FlashSize
  /\ DOMAIN flash = F!Addresses /\ DOMAIN latch = 0 .. RowSize - 1
  /\ DOMAIN _errata_latch_d = 0 .. 3
  /\ session \in {"idle", "written"} => TBLPAG = 0
  /\ session = "idle" => \A a \in F!Addresses : flash[a] = Blank
  /\ session = "written" => \A a \in F!Addresses : flash[a] = Image[a]
  /\ session \in {"writing", "padding"} =>
       /\ saved_tblpag = 0 /\ Held(Image) /\ from + Len(written) <= current_addr
       /\ session = "writing" => from + Len(written) = current_addr

LEMMA NothingWritten == <<>> \in Seq(Instructions) /\ Len(<<>>) = 0
OBVIOUS

LEMMA FlashInitInv == Init => FlashInv
<1>1. Init => F!FlashInit
  BY DEF Init
<1>2. 0 % RowSize = 0
  BY FlashSizes
<1>3. F!FlashInit => FlashInv
  BY <1>2, NothingWritten, FlashSizes DEF F!FlashInit, FlashInv
<1>4. QED
  BY <1>1, <1>3

LEMMA SessionBegins ==
  ASSUME FlashInv, NEW addr \in F!Addresses, F!flash_prepare_write(addr)
  PROVE  FlashInv'
<1>1. /\ session = "idle" /\ session' = "writing" /\ from' = addr /\ written' = <<>>
      /\ addr % RowSize = 0 /\ current_addr' = addr /\ row_counter' = 0
      /\ saved_tblpag' = TBLPAG /\ TBLPAG' = addr \div PageSize
      /\ UNCHANGED <<flash, latch, _errata_latch_d>>
  BY DEF F!flash_prepare_write, F!latches
<1>2. addr \in 0 .. FlashSize - 1
  BY DEF F!Addresses
<1>3. \A a \in F!Addresses : Image'[a] = Blank
  BY <1>1, <1>2, NothingWritten DEF Image, F!Expected, F!Addresses
<1>4. Base' = addr
  BY <1>1, <1>2, FlashSizes DEF Base
<1>5. Held(Image)'
  <2>1. \A a \in F!Addresses : flash'[a] = IF a < Base' THEN Image'[a] ELSE Blank
    BY <1>1, <1>3 DEF FlashInv
  <2>2. /\ row_counter' \in 0 .. RowSize - 1 /\ current_addr' \in 0 .. FlashSize
        /\ Base' \in Nat /\ Base' % RowSize = 0 /\ TBLPAG' = Base' \div PageSize
    BY <1>1, <1>2, <1>4, FlashSizes
  <2>3. /\ 0 .. row_counter' - 1 = {}
        /\ \A i \in 0 .. 3 : ErrataPlace(i) \in 0 .. RowSize - 1
    BY <1>1, ErrataPlaces
  <2>4. \A i \in 0 .. 3 : ~(ErrataPlace(i) < row_counter')
    BY <1>1, <2>3, RowIsNumber
  <2>5. /\ DOMAIN flash' = F!Addresses /\ DOMAIN latch' = 0 .. RowSize - 1
        /\ DOMAIN _errata_latch_d' = 0 .. 3
    BY <1>1 DEF FlashInv
  <2>6. QED
    BY <2>1, <2>2, <2>3, <2>4, <2>5 DEF Held
<1>6. /\ written' \in Seq(Instructions) /\ Len(written') = 0
  BY <1>1, NothingWritten
<1>7. QED
  BY <1>1, <1>2, <1>5, <1>6, FlashSizes DEF FlashInv

LEMMA SessionWrites ==
  ASSUME FlashInv, F!flash_write_instruction
  PROVE  FlashInv'
<1>1. PICK data \in {Len(written) + 1, Blank} :
        F!WriteInstruction(data) /\ written' = Append(written, data)
  BY DEF F!flash_write_instruction
<1>2. /\ session = "writing" /\ Len(written) < MaxWritten /\ current_addr < FlashSize
      /\ UNCHANGED <<saved_tblpag, session, from>>
  BY DEF F!flash_write_instruction
<1>3. /\ written \in Seq(Instructions) /\ Len(written) \in Nat /\ from \in Nat
      /\ Held(Image) /\ from + Len(written) = current_addr /\ saved_tblpag = 0
  BY <1>2 DEF FlashInv
<1>4. /\ written' \in Seq(Instructions) /\ Len(written') = Len(written) + 1
      /\ written'[Len(written) + 1] = data
      /\ \A i \in 1 .. Len(written) : written'[i] = written[i]
  BY <1>1, <1>3 DEF Instructions
<1>5. PICK img : img = Image'
  OBVIOUS
<1>6. current_addr \in F!Addresses
  BY <1>2, <1>3, FlashSizes DEF F!Addresses
<1>7. img[current_addr] = data
  BY <1>2, <1>3, <1>4, <1>5, <1>6 DEF Image, F!Expected
<1>8. \A a \in F!Addresses : a # current_addr => img[a] = Image[a]
  <2> SUFFICES ASSUME NEW a \in F!Addresses, a # current_addr PROVE img[a] = Image[a]
    OBVIOUS
  <2>1. a \in Nat
    BY DEF F!Addresses
  <2>2. CASE a >= from /\ a - from < Len(written)
    <3>1. a - from + 1 \in 1 .. Len(written) /\ a - from < Len(written')
      BY <1>3, <1>4, <2>1, <2>2
    <3>2. QED
      BY <1>2, <1>4, <1>5, <2>2, <3>1 DEF Image, F!Expected
  <2>3. CASE ~(a >= from /\ a - from < Len(written))
    <3>1. ~(a >= from /\ a - from < Len(written'))
      BY <1>3, <1>4, <2>1, <2>3
    <3>2. QED
      BY <1>2, <1>5, <2>3, <3>1 DEF Image, F!Expected
  <2>4. QED
    BY <2>2, <2>3
<1>9. Held(img)
  <2>1. /\ Base \in Nat /\ Base + row_counter = current_addr /\ row_counter \in Nat
    BY <1>3, FlashSizes DEF Held, Base
  <2>2. \A a \in F!Addresses : flash[a] = IF a < Base THEN img[a] ELSE Blank
    BY <1>3, <1>8, <2>1 DEF Held, F!Addresses
  <2>3. ASSUME NEW l \in 0 .. row_counter - 1 PROVE img[Base + l] = Image[Base + l]
    <3>1. Base + l \in F!Addresses /\ Base + l # current_addr
      BY <1>6, <2>1, FlashSizes DEF F!Addresses
    <3>2. QED
      BY <1>8, <3>1
  <2>4. ASSUME NEW i \in 0 .. 3, ErrataPlace(i) < row_counter
        PROVE  img[Base + ErrataPlace(i)] = Image[Base + ErrataPlace(i)]
    <3>1. PICK l \in 0 .. RowSize - 1 : l = ErrataPlace(i)
      BY ErrataPlaces
    <3>2. l \in 0 .. row_counter - 1
      BY <2>1, <2>4, <3>1, RowIsNumber
    <3>3. QED
      BY <2>3, <3>1, <3>2
  <2>5. QED
    BY <1>3, <2>2, <2>3, <2>4 DEF Held
<1>10. Held(img)' /\ current_addr' = current_addr + 1
  BY <1>1, <1>2, <1>7, <1>9, InstructionHeld
<1>11. Held(Image)'
  BY <1>5, <1>10 DEF Held
<1>12. /\ DOMAIN flash' = F!Addresses /\ DOMAIN latch' = 0 .. RowSize - 1
       /\ DOMAIN _errata_latch_d' = 0 .. 3
  BY <1>11 DEF Held
<1>13. /\ from' + Len(written') = current_addr' /\ from' + Len(written') <= FlashSize
       /\ Len(written') <= MaxWritten
  BY <1>2, <1>3, <1>4, <1>10, FlashSizes
<1>14. QED
  BY <1>2, <1>3, <1>4, <1>11, <1>12, <1>13 DEF FlashInv

LEMMA SessionEnds ==
  ASSUME FlashInv, F!flash_complete_write
  PROVE  FlashInv'
<1>1. session \in {"writing", "padding"} /\ UNCHANGED <<from, written>>
  BY DEF F!flash_complete_write
<1>2. /\ saved_tblpag = 0 /\ Held(Image) /\ from + Len(written) <= current_addr
      /\ from \in Nat /\ written \in Seq(Instructions) /\ Len(written) \in Nat
  BY <1>1 DEF FlashInv
<1>3. /\ Base \in Nat /\ Base % RowSize = 0 /\ row_counter \in 0 .. RowSize - 1
      /\ current_addr = Base + row_counter /\ current_addr \in 0 .. FlashSize
  BY <1>2, FlashSizes DEF Held, Base
<1>4. \A a \in F!Addresses : a >= current_addr => Image[a] = Blank
  BY <1>2, <1>3 DEF Image, F!Expected, F!Addresses
<1>5. Image' = Image
  BY <1>1 DEF Image, F!Expected
<1>6. CASE row_counter # 0
  <2>1. F!WriteInstruction(Blank) /\ session' = "padding" /\ UNCHANGED saved_tblpag
    BY <1>6 DEF F!flash_complete_write
  <2>2. current_addr < FlashSize
    <3>1. PICK b \in Nat, l \in 0 .. RowSize - 1 : b = Base /\ l = row_counter
      BY <1>3
    <3>2. (b + l) % RowSize = l
      BY <1>3, <3>1, InRow
    <3>3. current_addr # FlashSize
      BY <1>3, <1>6, <3>1, <3>2, FlashSizes
    <3>4. QED
      BY <1>3, <3>3, FlashSizes
  <2>3. PICK img : img = Image
    OBVIOUS
  <2>4. img[current_addr] = Blank
    BY <1>3, <1>4, <2>2, <2>3, FlashSizes DEF F!Addresses
  <2>5. Held(img)
    BY <1>2, <2>3
  <2>6. Held(img)' /\ current_addr' = current_addr + 1
    BY <2>1, <2>2, <2>4, <2>5, InstructionHeld
  <2>7. Held(Image)'
    BY <1>5, <2>3, <2>6 DEF Held
  <2>8. /\ DOMAIN flash' = F!Addresses /\ DOMAIN latch' = 0 .. RowSize - 1
        /\ DOMAIN _errata_latch_d' = 0 .. 3
    BY <2>7 DEF Held
  <2>9. from' + Len(written') <= current_addr'
    BY <1>1, <1>2, <1>3, <2>6
  <2>10. QED
    BY <1>1, <1>2, <2>1, <2>7, <2>8, <2>9 DEF FlashInv
<1>7. CASE row_counter = 0
  <2>1. /\ session' = "written" /\ TBLPAG' = saved_tblpag
        /\ UNCHANGED <<flash, latch, _errata_latch_d>>
    BY <1>7 DEF F!flash_complete_write, F!latches
  <2>2. Base = current_addr
    BY <1>3, <1>7
  <2>3. \A a \in F!Addresses : flash[a] = Image[a]
    BY <1>2, <1>3, <1>4, <2>2 DEF Held, F!Addresses
  <2>4. QED
    BY <1>1, <1>2, <1>5, <2>1, <2>3 DEF FlashInv
<1>8. QED
  BY <1>6, <1>7

LEMMA SessionForgotten ==
  ASSUME FlashInv, F!flash_erase_page
  PROVE  FlashInv'
<1>1. /\ session = "written" /\ session' = "idle" /\ from' = 0 /\ written' = <<>>
      /\ flash' = [a \in F!Addresses |-> Blank]
      /\ UNCHANGED <<latch, TBLPAG, _errata_latch_d>>
  BY DEF F!flash_erase_page, F!latches
<1>2. 0 % RowSize = 0
  BY FlashSizes
<1>3. written' \in Seq(Instructions) /\ Len(written') = 0
  BY <1>1, NothingWritten
<1>4. QED
  BY <1>1, <1>2, <1>3, FlashSizes DEF FlashInv

LEMMA FlashStep ==
  ASSUME FlashInv, F!FlashNext \/ UNCHANGED F!flashVars
  PROVE  FlashInv'
<1>1. CASE UNCHANGED F!flashVars
  <2>1. UNCHANGED <<flash, latch, TBLPAG, saved_tblpag, current_addr, row_counter, _errata_latch_d,
                    session, from, written>>
    BY <1>1 DEF F!flashVars, F!latches
  <2>2. Image' = Image
    BY <2>1 DEF Image, F!Expected
  <2>3. Held(Image)' = Held(Image)
    BY <2>1, <2>2 DEF Held, Base
  <2>4. QED
    BY <2>1, <2>2, <2>3 DEF FlashInv
<1>2. QED
  BY <1>1, SessionBegins, SessionWrites, SessionEnds, SessionForgotten DEF F!FlashNext

(* Reading back: the bytes of one page, and of a chunk of at most two.      *)
LEMMA ReadInPage ==
  ASSUME NEW addr \in Nat, NEW size \in Nat, size <= 3 * (PageSize - (addr % PageSize))
  PROVE  F!_frc_nc(addr, size) =
           [b \in 1 .. size |-> <<flash[addr + ((b - 1) \div 3)], (b - 1) % 3>>]
<1> DEFINE q == addr \div PageSize
           s == addr % PageSize
<1>1. q \in Nat /\ s \in 0 .. PageSize - 1 /\ addr = PageSize * q + s /\ PageSize \in Nat \ {0}
  BY Divided, FlashSizes
<1> HIDE DEF q, s
<1>2. ASSUME NEW b \in 1 .. size
      PROVE  F!InPage(q, addr + ((b - 1) \div 3)) = addr + ((b - 1) \div 3)
  <2>1. PICK k \in Nat : k = (b - 1) \div 3
    OBVIOUS
  <2>2. s + k \in 0 .. PageSize - 1
    <3>1. 3 * k <= b - 1 /\ size <= 3 * (PageSize - s)
      BY <2>1 DEF s
    <3>2. QED
      BY <1>1, <3>1
  <2>3. PICK a \in Nat : a = addr + k
    OBVIOUS
  <2>4. PICK r \in 0 .. PageSize - 1 : r = s + k
    BY <2>2
  <2>5. a = PageSize * q + r
    BY <1>1, <2>3, <2>4
  <2>6. a % PageSize = r
    BY <1>1, <2>5, Divides
  <2>7. QED
    BY <1>1, <2>1, <2>3, <2>5, <2>6 DEF F!InPage
<1>3. F!_frc_nc(addr, size) =
        [b \in 1 .. size |-> <<flash[F!InPage(q, addr + ((b - 1) \div 3))], (b - 1) % 3>>]
  BY DEF F!_frc_nc, q
<1>4. QED
  BY <1>2, <1>3

LEMMA ChunkRead ==
  ASSUME NEW addr \in Nat, NEW size \in Nat, size <= 3 * PageSize
  PROVE  F!flash_read_chunk(addr, size) =
           [b \in 1 .. size |-> <<flash[addr + ((b - 1) \div 3)], (b - 1) % 3>>]
<1> DEFINE Byte(b) == <<flash[addr + ((b - 1) \div 3)], (b - 1) % 3>>
<1>1. PICK rest \in 1 .. PageSize : rest = PageSize - (addr % PageSize)
  <2>1. addr % PageSize \in 0 .. PageSize - 1 /\ PageSize \in Nat \ {0}
    BY Divided, FlashSizes
  <2>2. PageSize - (addr % PageSize) \in 1 .. PageSize
    BY <2>1
  <2>3. QED
    BY <2>2
<1>2. PICK nt \in Nat : nt = 3 * rest
  BY FlashSizes
<1>3. /\ PageSize \in Nat \ {0} /\ nt = 3 * rest /\ rest = PageSize - (addr % PageSize)
      /\ (PageSize - (addr % PageSize)) * 3 = nt
  BY <1>1, <1>2, FlashSizes
<1>4. CASE ~(nt < size)
  <2>1. size <= 3 * rest
    BY <1>3, <1>4
  <2>2. F!flash_read_chunk(addr, size) = F!_frc_nc(addr, size)
    BY <1>3, <1>4 DEF F!flash_read_chunk
  <2>3. size <= 3 * (PageSize - (addr % PageSize))
    BY <1>3, <2>1
  <2>4. QED
    BY <2>2, <2>3, ReadInPage
<1>5. CASE nt < size
  <2>1. PICK more \in Nat : more = size - nt
    BY <1>5
  <2>2. PICK after \in Nat : after = addr + (nt \div 3)
    BY <1>3
  <2>3. after = addr + rest /\ after % PageSize = 0
    <3>1. nt \div 3 = rest
      BY <1>3
    <3>2. addr = PageSize * (addr \div PageSize) + (addr % PageSize) /\ addr \div PageSize \in Nat
      BY Divided, FlashSizes
    <3>3. PICK q \in Int : q = (addr \div PageSize) + 1
      BY <3>2
    <3>4. after = PageSize * q + 0
      BY <1>3, <2>2, <3>1, <3>2, <3>3
    <3>5. QED
      <4>1. after % PageSize = 0
        BY <1>3, <3>4, Divides
      <4>2. QED
        BY <2>2, <3>1, <4>1
  <2>4. F!_frc_nc(addr, nt) = [b \in 1 .. nt |-> Byte(b)]
    <3>1. nt <= 3 * (PageSize - (addr % PageSize))
      BY <1>3
    <3>2. QED
      BY <3>1, ReadInPage
  <2>5. F!_frc_nc(after, more) =
          [b \in 1 .. more |-> <<flash[after + ((b - 1) \div 3)], (b - 1) % 3>>]
    <3>1. more <= 3 * (PageSize - (after % PageSize))
      BY <1>3, <2>1, <2>3
    <3>2. QED
      BY <3>1, ReadInPage
  <2>6. ASSUME NEW b \in 1 .. more
        PROVE  Byte(b + nt) = <<flash[after + ((b - 1) \div 3)], (b - 1) % 3>>
    <3>1. (b + nt - 1) \div 3 = rest + ((b - 1) \div 3) /\ (b + nt - 1) % 3 = (b - 1) % 3
      BY <1>3
    <3>2. QED
      BY <1>3, <2>3, <3>1
  <2>7. F!flash_read_chunk(addr, size) = F!_frc_nc(addr, nt) \o F!_frc_nc(after, more)
    BY <1>3, <1>5, <2>1, <2>2 DEF F!flash_read_chunk
  <2> HIDE DEF Byte
  <2>8. [b \in 1 .. nt |-> Byte(b)] \o [b \in 1 .. more |-> Byte(b + nt)] =
          [b \in 1 .. size |-> Byte(b)]
    <3> DEFINE whole == [b \in 1 .. nt |-> Byte(b)] \o [b \in 1 .. more |-> Byte(b + nt)]
    <3>1. nt + more = size /\ nt \in Nat
      BY <1>3, <2>1
    <3>2. QED
      BY <3>1
  <2>9. [b \in 1 .. more |-> Byte(b + nt)] =
          [b \in 1 .. more |-> <<flash[after + ((b - 1) \div 3)], (b - 1) % 3>>]
    BY <2>6
  <2>10. F!flash_read_chunk(addr, size) = [b \in 1 .. size |-> Byte(b)]
    BY <2>4, <2>5, <2>7, <2>8, <2>9
  <2>11. QED
    BY <2>10 DEF Byte
<1>6. QED
  BY <1>4, <1>5

LEMMA ImageShown ==
  ASSUME FlashInv, MaxWritten <= PageSize
  PROVE  F!FlashImage
<1>1. /\ written \in Seq(Instructions) /\ Len(written) \in Nat /\ Len(written) <= MaxWritten
      /\ from \in Nat /\ from + Len(written) <= FlashSize
  BY DEF FlashInv
<1>2. ASSUME session # "idle", NEW a \in F!Addresses,
             a < F!RowOf(current_addr) \/ a >= current_addr
      PROVE  flash[a] = F!Expected(a)
  <2>1. CASE session = "written"
    BY <2>1 DEF FlashInv, Image
  <2>2. CASE session \in {"writing", "padding"}
    <3>1. /\ Held(Image) /\ from + Len(written) <= current_addr /\ a \in Nat
      BY <2>2 DEF FlashInv, F!Addresses
    <3>2. /\ Base \in Nat /\ Base % RowSize = 0 /\ row_counter \in 0 .. RowSize - 1
          /\ current_addr = Base + row_counter
          /\ flash[a] = IF a < Base THEN F!Expected(a) ELSE Blank
      BY <3>1, FlashSizes DEF Held, Base, Image
    <3>3. F!RowOf(current_addr) = Base
      <4>1. PICK b \in Nat, l \in 0 .. RowSize - 1 : b = Base /\ l = row_counter
        BY <3>2
      <4>2. F!RowOf(b + l) = b
        BY <3>2, <4>1, InRow
      <4>3. QED
        BY <3>2, <4>1, <4>2
    <3>4. CASE a < Base
      BY <3>2, <3>4
    <3>5. CASE a >= current_addr
      <4>1. flash[a] = Blank
        BY <3>1, <3>2, <3>5, FlashSizes
      <4>2. ~(a >= from /\ a - from < Len(written))
        BY <1>1, <3>1, <3>2, <3>5, FlashSizes
      <4>3. QED
        BY <4>1, <4>2 DEF F!Expected
    <3>6. QED
      BY <1>2, <3>3, <3>4, <3>5
  <2>3. QED
    BY <1>2, <2>1, <2>2 DEF FlashInv
<1>3. ASSUME session = "written", NEW size \in 0 .. 3 * Len(written)
      PROVE  F!flash_read_chunk(from, size) =
               [b \in 1 .. size |-> <<written[((b - 1) \div 3) + 1], (b - 1) % 3>>]
  <2>1. size \in Nat /\ size <= 3 * PageSize
    BY <1>1, <1>3, FlashSizes
  <2>2. F!flash_read_chunk(from, size) =
          [b \in 1 .. size |-> <<flash[from + ((b - 1) \div 3)], (b - 1) % 3>>]
    BY <1>1, <2>1, ChunkRead
  <2>3. ASSUME NEW b \in 1 .. size
        PROVE  flash[from + ((b - 1) \div 3)] = written[((b - 1) \div 3) + 1]
    <3>1. PICK k \in Nat : k = (b - 1) \div 3
      BY <2>1
    <3>2. k < Len(written)
      BY <1>1, <1>3, <3>1
    <3>3. PICK a \in Nat : a = from + k
      BY <1>1
    <3>4. a \in F!Addresses /\ a >= from /\ a - from = k /\ a - from < Len(written)
      BY <1>1, <3>2, <3>3, FlashSizes DEF F!Addresses
    <3>5. flash[a] = F!Expected(a)
      BY <1>3, <3>4 DEF FlashInv, Image
    <3>6. QED
      BY <3>1, <3>3, <3>4, <3>5 DEF F!Expected
  <2>4. QED
    BY <2>2, <2>3
<1>4. session \in {"idle", "written"} => TBLPAG = 0
  BY DEF FlashInv
<1>5. QED
  BY <1>2, <1>3, <1>4 DEF F!FlashImage

LEMMA FlashShare == [Next]_vars => F!FlashNext \/ UNCHANGED F!flashVars
<1> SUFFICES ASSUME [Next]_vars PROVE F!FlashNext \/ UNCHANGED F!flashVars
  OBVIOUS
<1>1. CASE UNCHANGED nvm
  BY <1>1 DEF nvm, F!flashVars, F!latches
<1>2. CASE ~UNCHANGED nvm
  BY <1>2 DEF Next, vars
<1>3. QED
  BY <1>1, <1>2

(* Whatever rows and pages a session crosses, and whatever the erratum      *)
(* spoils, a row once programmed holds what was written to it, nothing else *)
(* has changed, and flash_read_chunk reads it back (flash.c:120-254), if    *)
(* what is written is no longer than a page, beyond what one read can ask.  *)
THEOREM FlashHoldsWritten ==
  ASSUME MaxWritten <= PageSize
  PROVE  Spec => []FlashImage
<1>1. Init => FlashInv
  BY FlashInitInv
<1>2. FlashInv /\ [Next]_vars => FlashInv'
  BY FlashShare, FlashStep
<1>3. FlashInv => FlashImage
  BY ImageShown DEF FlashImage
<1>4. QED
  BY <1>1, <1>2, <1>3, PTL DEF Spec

-----------------------------------------------------------------------------
(* The motor controllers.                                                  *)
(* Arithmetic: products and quotients of bounded numbers.                   *)
LEMMA Product ==
  ASSUME NEW k \in Nat, NEW e \in Int, NEW m \in Nat, -m <= e, e <= m
  PROVE  k * m \in Nat /\ k * e \in Int /\ -(k * m) <= k * e /\ k * e <= k * m
<1>1. \A x \in Nat, y \in Nat : x * y \in Nat
  OBVIOUS
<1>2. k * (m - e) \in Nat /\ k * (m + e) \in Nat
  BY <1>1
<1>3. k * (m - e) = k * m - k * e /\ k * (m + e) = k * m + k * e
  OBVIOUS
<1>4. k * m \in Nat /\ k * e \in Int
  BY <1>1
<1>5. QED
  BY <1>2, <1>3, <1>4

LEMMA QuotientBelow ==
  ASSUME NEW a \in Nat, NEW n \in Nat \ {0}, NEW l \in Nat, a \div n <= l
  PROVE  a < (l + 1) * n
<1>1. PICK q \in Nat, r \in 0 .. n - 1 : q = a \div n /\ r = a % n /\ a = n * q + r
  BY Divided
<1>2. n * q <= n * l
  BY <1>1, Product
<1>3. (l + 1) * n = n * l + n
  OBVIOUS
<1>4. n * q \in Int /\ n * l \in Int
  BY <1>1
<1>5. QED
  BY <1>1, <1>2, <1>3, <1>4

LEMMA BelowQuotient ==
  ASSUME NEW x \in Nat, NEW k \in Nat \ {0}, NEW m \in Nat, k * x <= m
  PROVE  x <= m \div k
<1>1. PICK q \in Nat, r \in 0 .. k - 1 : q = m \div k /\ r = m % k /\ m = k * q + r
  BY Divided
<1>2. SUFFICES ASSUME x >= q + 1 PROVE FALSE
  BY <1>1
<1>3. PICK y \in Nat : x = q + 1 + y
  BY <1>2
<1>4. k * x = k * q + k + k * y /\ k * y \in Nat /\ k * q \in Nat
  BY <1>3
<1>5. QED
  BY <1>1, <1>4

LEMMA QuotientOrder ==
  ASSUME NEW a \in Nat, NEW b \in Nat, NEW n \in Nat \ {0}, a <= b
  PROVE  a \div n <= b \div n /\ a \div n \in Nat /\ b \div n \in Nat
<1>1. PICK q \in Nat, r \in 0 .. n - 1 : q = a \div n /\ r = a % n /\ a = n * q + r
  BY Divided
<1>2. n * q <= b
  <2>1. n * q \in Int
    BY <1>1
  <2>2. QED
    BY <1>1, <2>1
<1>3. QED
  BY <1>1, <1>2, BelowQuotient, Divided

LEMMA TowardZero ==
  ASSUME NEW a \in Int, NEW n \in Nat \ {0}
  PROVE  /\ a >= 0 => M!div32by16s(a, n) = a \div n /\ a \div n \in Nat
         /\ a < 0 => M!div32by16s(a, n) = 0 - ((0 - a) \div n) /\ (0 - a) \div n \in Nat
         /\ M!div32by16s(a, n) \in Int
<1>1. CASE a >= 0
  <2>1. a \div n \in Nat
    BY <1>1, Divided
  <2>2. M!Sgn(a) = 1 /\ M!Sgn(n) = 1 /\ M!Abs(a) = a /\ M!Abs(n) = n
    BY <1>1 DEF M!Sgn, M!Abs
  <2>3. M!div32by16s(a, n) = 1 * 1 * (a \div n)
    BY <2>2 DEF M!div32by16s, M!div32by16u
  <2>4. QED
    BY <1>1, <2>1, <2>3
<1>2. CASE a < 0
  <2>0. 0 - a \in Nat
    BY <1>2
  <2>1. (0 - a) \div n \in Nat
    BY <2>0, Divided
  <2>2. M!Sgn(a) = -1 /\ M!Sgn(n) = 1 /\ M!Abs(a) = 0 - a /\ M!Abs(n) = n
    BY <1>2 DEF M!Sgn, M!Abs
  <2>3. M!div32by16s(a, n) = (-1) * 1 * ((0 - a) \div n)
    BY <2>2 DEF M!div32by16s, M!div32by16u
  <2>4. QED
    BY <1>2, <2>1, <2>3
<1>3. QED
  BY <1>1, <1>2

(* What the limit l explains of an integral I, with the rest of the output  *)
(* within p: when the output is within the limit, and when it is not.       *)
LEMMA Explains ==
  ASSUME NEW l \in Nat, NEW sc \in Nat \ {0}, NEW ki \in Nat \ {0}, NEW p \in Nat,
         NEW pd \in Int, NEW i \in Int, -p <= pd, pd <= p,
         -l <= M!div32by16s(pd + i * ki, sc), M!div32by16s(pd + i * ki, sc) <= l
  PROVE  LET b == ((l + 1) * sc + p) \div ki IN b \in Nat /\ -b <= i /\ i <= b
<1>1. PICK t \in Int : t = pd + i * ki
  OBVIOUS
<1>2. PICK m \in Nat : m = (l + 1) * sc
  OBVIOUS
<1>3. -m < t /\ t < m
  <2>1. CASE t >= 0
    <3>1. t \in Nat /\ t \div sc <= l
      <4>1. M!div32by16s(t, sc) = t \div sc /\ t \div sc \in Nat
        BY <2>1, TowardZero
      <4>2. QED
        BY <1>1, <2>1, <4>1
    <3>2. t < (l + 1) * sc
      BY <3>1, QuotientBelow
    <3>3. QED
      BY <1>2, <2>1, <3>2
  <2>2. CASE t < 0
    <3>1. PICK u \in Nat : u = 0 - t
      BY <2>2
    <3>2. u \div sc <= l
      <4>1. M!div32by16s(t, sc) = 0 - (u \div sc) /\ u \div sc \in Nat
        BY <2>2, <3>1, TowardZero
      <4>2. QED
        BY <1>1, <4>1
    <3>3. u < (l + 1) * sc
      BY <3>2, QuotientBelow
    <3>4. QED
      BY <1>2, <2>2, <3>1, <3>3
  <2>3. QED
    BY <2>1, <2>2
<1>4. PICK x \in Nat : x = IF i < 0 THEN 0 - i ELSE i
  <2>1. (IF i < 0 THEN 0 - i ELSE i) \in Nat
    OBVIOUS
  <2>2. QED
    BY <2>1
<1>5. ki * x <= m + p
  <2>1. CASE i < 0
    <3>1. ki * x = 0 - (i * ki)
      BY <1>4, <2>1
    <3>2. i * ki \in Int
      OBVIOUS
    <3>3. QED
      BY <1>1, <1>2, <1>3, <3>1, <3>2
  <2>2. CASE i >= 0
    <3>1. ki * x = i * ki /\ i * ki \in Int
      BY <1>4, <2>2
    <3>2. QED
      BY <1>1, <1>2, <1>3, <3>1
  <2>3. QED
    BY <2>1, <2>2
<1>6. x <= (m + p) \div ki /\ (m + p) \div ki \in Nat
  <2>1. PICK n \in Nat : n = m + p
    OBVIOUS
  <2>2. x <= n \div ki /\ n \div ki \in Nat
    BY <1>5, <2>1, BelowQuotient, Divided
  <2>3. QED
    BY <2>1, <2>2
<1>7. QED
  BY <1>2, <1>4, <1>6

LEMMA Recomputed ==
  ASSUME NEW l \in Nat, NEW sc \in Nat \ {0}, NEW ki \in Nat \ {0}, NEW p \in Nat,
         NEW pd \in Int, NEW limited \in Int, -p <= pd, pd <= p, -l <= limited, limited <= l
  PROVE  LET b == ((l + 1) * sc + p) \div ki
             i == M!div32by16s(limited * sc - pd, ki)
         IN  b \in Nat /\ i \in Int /\ -b <= i /\ i <= b
<1>1. PICK t \in Int : t = limited * sc - pd
  OBVIOUS
<1>2. PICK m \in Nat : m = (l + 1) * sc
  OBVIOUS
<1>3. -(m + p) <= t /\ t <= m + p
  <2>1. -(sc * l) <= sc * limited /\ sc * limited <= sc * l
    BY Product
  <2>2. sc * limited = limited * sc /\ m = sc * l + sc /\ sc * l \in Nat /\ sc * limited \in Int
    BY <1>2
  <2>3. QED
    BY <1>1, <1>2, <2>1, <2>2
<1>4. (m + p) \div ki \in Nat
  BY Divided
<1>5. CASE t >= 0
  <2>1. t \div ki <= (m + p) \div ki /\ t \div ki \in Nat
    BY <1>3, <1>5, QuotientOrder
  <2>2. M!div32by16s(t, ki) = t \div ki
    BY <1>5, TowardZero
  <2>3. QED
    BY <1>1, <1>2, <1>4, <2>1, <2>2
<1>6. CASE t < 0
  <2>1. PICK u \in Nat : u = 0 - t
    BY <1>6
  <2>2. u \div ki <= (m + p) \div ki /\ u \div ki \in Nat
    BY <1>3, <2>1, QuotientOrder
  <2>3. M!div32by16s(t, ki) = 0 - (u \div ki)
    BY <1>6, <2>1, TowardZero
  <2>4. QED
    BY <1>1, <1>2, <1>4, <2>2, <2>3
<1>7. QED
  BY <1>5, <1>6

(* The controllers: the parameters they are given, the largest errors they  *)
(* see, and what the limits explain of their integrals.                     *)
Within(x, m) == x \in Int /\ -m <= x /\ x <= m
Error(g)   == g.speed_max + 2
Rest(g)    == (g.kp_s + 2 * g.kd_s) * Error(g)
Windup(g)  == ((g.current_max + 1) * g.scaler_s + Rest(g)) \div g.ki_s
ErrorI(g)  == g.current_max + 3
RestI(g)   == g.kp_i * ErrorI(g)
WindupI(g) == ((g.pwm_max + 1) * g.scaler_i + RestI(g)) \div g.ki_i
Numbers(g) ==
  /\ g.speed_max \in Nat /\ g.current_max \in Nat /\ g.nominal \in Nat /\ g.pwm_max \in Nat
  /\ g.kp_p \in Nat /\ g.kd_p \in Nat /\ g.kp_s \in Nat /\ g.kd_s \in Nat /\ g.kp_i \in Nat
  /\ g.scaler_p \in Nat \ {0} /\ g.scaler_s \in Nat \ {0} /\ g.scaler_i \in Nat \ {0}
  /\ g.ki_s \in Nat \ {0} /\ g.ki_i \in Nat \ {0}

(* Limits on both sides alike, and outputs of the speed controller that fit *)
(* an int whatever the integral is by then.                                 *)
Sized(g) ==
  /\ Numbers(g)
  /\ g.nominal <= g.current_max /\ g.pwm_max # 0
  /\ g.speed_min = -g.speed_max /\ g.current_min = -g.current_max /\ g.pwm_min = -g.pwm_max
  /\ (Rest(g) + (Windup(g) + 2 * Error(g)) * g.ki_s) \div g.scaler_s <= IntMax

LEMMA Measures ==
  /\ M!Largest(Speeds) = 2 /\ M!Largest(Currents) = 3
  /\ \A x \in Speeds : Within(x, 2)
  /\ \A x \in Currents : Within(x, 3)
<1>1. \A x : x \in Speeds <=> x = -2 \/ x = 2
  BY DEF Speeds
<1>2. \A x : x \in Currents <=> x = -3 \/ x = 3
  BY DEF Currents
<1>3. M!Largest(Speeds) = 2
  <2>1. PICK s \in Speeds : s = 2 /\ \A t \in Speeds : t <= s
    BY <1>1
  <2>2. \A u \in Speeds : (\A t \in Speeds : t <= u) => u = 2
    BY <1>1
  <2>3. QED
    BY <2>1, <2>2 DEF M!Largest
<1>4. M!Largest(Currents) = 3
  <2>1. PICK s \in Currents : s = 3 /\ \A t \in Currents : t <= s
    BY <1>2
  <2>2. \A u \in Currents : (\A t \in Currents : t <= u) => u = 3
    BY <1>2
  <2>3. QED
    BY <2>1, <2>2 DEF M!Largest
<1>5. QED
  BY <1>1, <1>2, <1>3, <1>4 DEF Within

LEMMA SizedHas ==
  ASSUME NEW g, Sized(g)
  PROVE  /\ Error(g) \in Nat /\ Rest(g) \in Nat /\ Windup(g) \in Nat
         /\ ErrorI(g) \in Nat /\ RestI(g) \in Nat /\ WindupI(g) \in Nat
<1>1. \A x \in Nat, y \in Nat : x * y \in Nat
  OBVIOUS
<1>2. Error(g) \in Nat /\ ErrorI(g) \in Nat
  BY DEF Sized, Numbers, Error, ErrorI
<1>3. Rest(g) \in Nat /\ RestI(g) \in Nat
  <2>1. g.kp_s + 2 * g.kd_s \in Nat /\ g.kp_i \in Nat
    BY DEF Sized, Numbers
  <2>2. QED
    BY <1>1, <1>2, <2>1 DEF Rest, RestI
<1>4. /\ (g.current_max + 1) * g.scaler_s + Rest(g) \in Nat
      /\ (g.pwm_max + 1) * g.scaler_i + RestI(g) \in Nat
  <2>1. /\ g.current_max + 1 \in Nat /\ g.scaler_s \in Nat
        /\ g.pwm_max + 1 \in Nat /\ g.scaler_i \in Nat
    BY DEF Sized, Numbers
  <2>2. (g.current_max + 1) * g.scaler_s \in Nat /\ (g.pwm_max + 1) * g.scaler_i \in Nat
    BY <1>1, <2>1
  <2>3. QED
    BY <1>3, <2>2
<1>5. Windup(g) \in Nat /\ WindupI(g) \in Nat
  <2>1. g.ki_s \in Nat \ {0} /\ g.ki_i \in Nat \ {0}
    BY DEF Sized, Numbers
  <2>2. QED
    BY <1>4, <2>1, Divided DEF Windup, WindupI
<1>6. QED
  BY <1>2, <1>3, <1>5

(* The integral after the speed controller.                                 *)
CspInv ==
  /\ Sized(d) /\ speed_t \in Int /\ last_error_p \in Int
  /\ Within(last_error_s, Error(d)) /\ Within(integral_s, Windup(d) + Error(d))
  /\ Within(current_t, d.current_max)
  /\ over_status \in BOOLEAN /\ sat_status \in {-1, 0, 1}
  /\ Within(integral_i, WindupI(d) + ErrorI(d))

LEMMA Clamped ==
  ASSUME NEW x \in Int, NEW m \in Nat
  PROVE  Within(M!Clamp(x, -m, m), m)
BY DEF M!Clamp, Within

LEMMA CurrentLimits ==
  ASSUME CspInv
  PROVE  /\ \A x \in Int : Within(M!Clamp(x, M!Low, M!High), d.current_max)
         /\ \E m \in Nat : M!Low = -m /\ M!High = m /\ m <= d.current_max
<1>1. PICK m \in Nat : M!Low = -m /\ M!High = m /\ m <= d.current_max /\ d.current_max \in Nat
  BY DEF CspInv, Sized, Numbers, M!Low, M!High
<1>2. \A x \in Int : Within(M!Clamp(x, -m, m), m)
  BY Clamped
<1>3. \A x \in Int : Within(M!Clamp(x, -m, m), d.current_max)
  BY <1>1, <1>2 DEF Within
<1>4. QED
  BY <1>1, <1>3

LEMMA ScaledIs ==
  ASSUME NEW t \in Int, NEW n \in Nat \ {0}, NEW low \in Int, NEW high \in Int
  PROVE  M!Scaled(t, n, low, high) \in Int
BY TowardZero DEF M!Scaled

LEMMA PositionControl ==
  ASSUME CspInv, NEW e \in Speeds, M!p_control_32(e) \/ M!p_control_16(e)
  PROVE  speed_t' \in Int /\ last_error_p' \in Int
<1>1. e \in Int /\ last_error_p \in Int
  BY Measures DEF Within, CspInv
<1>2. /\ d.kp_p \in Int /\ d.kd_p \in Int /\ d.scaler_p \in Nat \ {0} /\ d.speed_max \in Int
      /\ d.speed_min \in Int
  BY DEF CspInv, Sized, Numbers
<1>3. M!Pd(e) \in Int
  BY <1>1, <1>2 DEF M!Pd
<1>4. M!Scaled(M!Pd(e), d.scaler_p, d.speed_min, d.speed_max) \in Int
  BY <1>2, <1>3, ScaledIs
<1>5. QED
  BY <1>1, <1>2, <1>4 DEF M!p_control_32, M!p_control_16, M!Clamp

(* The proportional and the derivative part.                                *)
LEMMA RestIs ==
  ASSUME Sized(d), NEW e \in Int, NEW l \in Int, Within(e, Error(d)), Within(l, Error(d))
  PROVE  Within(d.kp_s * e + d.kd_s * (e - l), Rest(d))
<1>1. PICK m \in Nat : m = Error(d)
  BY SizedHas
<1>2. PICK kp \in Nat, kd \in Nat : kp = d.kp_s /\ kd = d.kd_s
  BY DEF Sized, Numbers
<1>3. PICK f \in Int : f = e - l
  OBVIOUS
<1>4. -m <= e /\ e <= m /\ -(2 * m) <= f /\ f <= 2 * m
  BY <1>1, <1>3 DEF Within
<1>5. kp * m \in Nat /\ kp * e \in Int /\ -(kp * m) <= kp * e /\ kp * e <= kp * m
  BY <1>4, Product
<1>6. PICK n \in Nat : n = 2 * m
  OBVIOUS
<1>7. kd * n \in Nat /\ kd * f \in Int /\ -(kd * n) <= kd * f /\ kd * f <= kd * n
  BY <1>4, <1>6, Product
<1>8. Rest(d) = kp * m + kd * n
  <2>1. (kp + 2 * kd) * m = kp * m + kd * n
    BY <1>6
  <2>2. QED
    BY <1>1, <1>2, <2>1 DEF Rest
<1>9. QED
  BY <1>2, <1>3, <1>5, <1>7, <1>8 DEF Within

LEMMA SpeedControl ==
  ASSUME CspInv, IntMax \in Nat, NEW speed_m \in Speeds, speed_t' \in Int, M!s_control(speed_m)
  PROVE  /\ Within(last_error_s', Error(d)) /\ Within(integral_s', Windup(d) + Error(d))
         /\ Within(current_t', d.current_max)
<1> DEFINE target   == M!Clamp(speed_t', d.speed_min, d.speed_max)
           e        == target - speed_m
           pd       == d.kp_s * e + d.kd_s * (e - last_error_s)
           integral == integral_s + e
           output   == M!Scaled(pd + integral * d.ki_s, d.scaler_s, d.current_min, d.current_max)
           limited  == M!Clamp(output, M!Low, M!High)
           heldBack == sat_status # 0 /\ (limited - current_t) * sat_status > 0
<1>1. /\ last_error_s' = e
      /\ IF M!do_arw(output) /\ d.ki_s # 0
         THEN /\ integral_s' = M!div32by16s(limited * d.scaler_s - pd, d.ki_s)
              /\ current_t' = limited
         ELSE /\ integral_s' = IF heldBack THEN integral_s ELSE integral
              /\ current_t' = IF heldBack THEN M!Clamp(current_t, M!Low, M!High) ELSE limited
  BY DEF M!s_control
<1>2. Within(e, Error(d))
  <2>1. d.speed_max \in Nat /\ d.speed_min = -d.speed_max
    BY DEF CspInv, Sized, Numbers
  <2>2. Within(target, d.speed_max)
    BY <2>1, Clamped
  <2>3. Within(speed_m, 2)
    BY Measures
  <2>4. QED
    BY <2>1, <2>2, <2>3 DEF Within, Error
<1>3. PICK p \in Nat, w \in Nat, er \in Nat, ki \in Nat \ {0}, sc \in Nat \ {0}, l \in Nat :
        /\ p = Rest(d) /\ w = Windup(d) /\ er = Error(d) /\ ki = d.ki_s /\ sc = d.scaler_s
        /\ l = d.current_max
  BY SizedHas DEF CspInv, Sized, Numbers
<1>4. Within(pd, p)
  BY <1>2, <1>3, RestIs DEF CspInv, Within
<1>5. Within(integral, w + 2 * er) /\ Within(integral_s, w + er)
  BY <1>2, <1>3 DEF CspInv, Within
<1>6. w = ((l + 1) * sc + p) \div ki
  BY <1>3 DEF Windup
<1> HIDE DEF e, pd, integral, target
<1>7. PICK t \in Int : t = pd + integral * ki
  BY <1>4, <1>5 DEF Within
<1>8. M!Fits(t, sc)
  <2>1. PICK y \in Nat, z \in Nat : y = w + 2 * er /\ z = p + y * ki
    <3>1. \A x \in Nat : x * ki \in Nat
      OBVIOUS
    <3>2. w + 2 * er \in Nat
      OBVIOUS
    <3>3. QED
      BY <3>1, <3>2
  <2>2. z \div sc <= IntMax
    BY <1>3, <2>1 DEF CspInv, Sized
  <2>3. -z <= t /\ t <= z
    <3>1. -(ki * y) <= ki * integral /\ ki * integral <= ki * y
      BY <1>5, <2>1, Product DEF Within
    <3>2. integral * ki = ki * integral /\ y * ki = ki * y /\ ki * integral \in Int /\ ki * y \in Int
      BY <1>5 DEF Within
    <3>3. QED
      BY <1>4, <1>7, <2>1, <3>1, <3>2 DEF Within
  <2>4. CASE t >= 0
    <3>1. t \div sc <= z \div sc /\ M!div32by16s(t, sc) = t \div sc /\ t \div sc \in Nat
      <4>1. t \in Nat /\ t <= z
        BY <2>3, <2>4
      <4>2. t \div sc <= z \div sc /\ t \div sc \in Nat
        BY <4>1, QuotientOrder
      <4>3. M!div32by16s(t, sc) = t \div sc
        BY <2>4, TowardZero
      <4>4. QED
        BY <4>2, <4>3
    <3>2. QED
      BY <2>2, <3>1, QuotientOrder DEF M!Fits, M!Abs
  <2>5. CASE t < 0
    <3>1. PICK u \in Nat : u = 0 - t
      BY <2>5
    <3>2. u \div sc <= z \div sc /\ u \div sc \in Nat /\ z \div sc \in Nat
      BY <2>3, <3>1, QuotientOrder
    <3>3. M!div32by16s(t, sc) = 0 - (u \div sc)
      BY <2>5, <3>1, TowardZero
    <3>4. QED
      BY <2>2, <3>2, <3>3 DEF M!Fits, M!Abs
  <2>6. QED
    BY <2>4, <2>5
<1>9. output = M!div32by16s(t, sc) /\ output \in Int
  <2>1. M!div32by16s(t, sc) \in Int
    BY TowardZero
  <2>2. output = M!Scaled(t, sc, d.current_min, d.current_max)
    BY <1>3, <1>7
  <2>3. QED
    BY <1>8, <2>1, <2>2 DEF M!Scaled
<1> HIDE DEF output
<1>10. Within(limited, l) /\ Within(M!Clamp(current_t, M!Low, M!High), l)
  BY <1>3, <1>9, CurrentLimits DEF CspInv, Within
<1>11. CASE M!do_arw(output)
  <2>1. integral_s' = M!div32by16s(limited * sc - pd, ki) /\ current_t' = limited
    BY <1>1, <1>3, <1>11
  <2>2. PICK lim \in Int, q \in Int : lim = limited /\ q = pd
    BY <1>4, <1>10 DEF Within
  <2>3. -p <= q /\ q <= p /\ -l <= lim /\ lim <= l
    BY <1>4, <1>10, <2>2 DEF Within
  <2>4. Within(M!div32by16s(lim * sc - q, ki), w)
    BY <1>6, <2>3, Recomputed DEF Within
  <2>5. Within(integral_s', w)
    BY <2>1, <2>2, <2>4
  <2>6. Within(integral_s', w + er)
    BY <2>5 DEF Within
  <2>7. QED
    BY <1>1, <1>2, <1>3, <1>10, <2>1, <2>6
<1>12. CASE ~M!do_arw(output)
  <2>1. -l <= output /\ output <= l
    <3>1. PICK m \in Nat : M!Low = -m /\ M!High = m /\ m <= l
      BY <1>3, CurrentLimits
    <3>2. QED
      BY <1>9, <1>12, <3>1 DEF M!do_arw
  <2>2. Within(integral, w)
    <3>1. PICK i \in Int, q \in Int : i = integral /\ q = pd
      BY <1>4, <1>5 DEF Within
    <3>2. -p <= q /\ q <= p
      BY <1>4, <3>1 DEF Within
    <3>3. -l <= M!div32by16s(q + i * ki, sc) /\ M!div32by16s(q + i * ki, sc) <= l
      BY <1>7, <1>9, <2>1, <3>1
    <3>4. -w <= i /\ i <= w
      BY <1>6, <3>2, <3>3, Explains
    <3>5. QED
      BY <3>1, <3>4 DEF Within
  <2>3. Within(integral, w + er)
    BY <2>2 DEF Within
  <2>4. Within(integral_s', w + er) /\ Within(current_t', l)
    BY <1>1, <1>5, <1>10, <1>12, <2>3
  <2>5. QED
    BY <1>1, <1>2, <1>3, <2>4
<1>13. QED
  BY <1>11, <1>12

LEMMA CurrentControlled ==
  ASSUME CspInv, Within(current_t', d.current_max), NEW current_m \in Currents,
         M!CurrentControl(current_m)
  PROVE  sat_status' \in {-1, 0, 1} /\ Within(integral_i', WindupI(d) + ErrorI(d))
<1> DEFINE e        == current_t' - current_m
           integral == integral_i + e
           rest     == d.kp_i * e
<1>1. PICK output \in M!PwmOutputs(rest + integral * d.ki_i) :
        /\ pwm_output' = M!Clamp(output, d.pwm_min, d.pwm_max)
        /\ sat_status' = (IF output >= d.pwm_max THEN 1 ELSE IF output <= d.pwm_min THEN -1 ELSE 0)
        /\ integral_i' = IF sat_status' # 0 /\ d.ki_i # 0
                         THEN M!div32by16s(pwm_output' * d.scaler_i - rest, d.ki_i)
                         ELSE integral
  BY DEF M!CurrentControl
<1>2. PICK p \in Nat, w \in Nat, er \in Nat, kp \in Nat, ki \in Nat \ {0}, sc \in Nat \ {0},
           l \in Nat \ {0} :
        /\ p = RestI(d) /\ w = WindupI(d) /\ er = ErrorI(d) /\ kp = d.kp_i /\ ki = d.ki_i
        /\ sc = d.scaler_i /\ l = d.pwm_max
  BY SizedHas DEF CspInv, Sized, Numbers
<1>3. Within(e, er)
  <2>1. Within(current_m, 3) /\ d.current_max \in Nat /\ er = d.current_max + 3
    BY <1>2, Measures DEF CspInv, Sized, Numbers, ErrorI
  <2>2. QED
    BY <2>1 DEF Within
<1> HIDE DEF e
<1>4. Within(rest, p)
  <2>1. p = kp * er
    BY <1>2 DEF RestI
  <2>2. kp * e \in Int /\ -(kp * er) <= kp * e /\ kp * e <= kp * er
    BY <1>3, Product DEF Within
  <2>3. QED
    BY <1>2, <2>1, <2>2 DEF Within
<1>5. w = ((l + 1) * sc + p) \div ki
  BY <1>2 DEF WindupI
<1> HIDE DEF rest
<1>6. integral \in Int
  BY <1>3 DEF CspInv, Within
<1> HIDE DEF integral
<1>7. PICK q \in Int, i \in Int, t \in Int : q = rest /\ i = integral /\ t = q + i * ki
  BY <1>4, <1>6 DEF Within
<1>8. -p <= q /\ q <= p
  BY <1>4, <1>7 DEF Within
<1>9. output \in Int /\ (output = M!div32by16s(t, sc) \/ output = l \/ output = -l)
  <2>1. M!div32by16s(t, sc) \in Int /\ d.pwm_min = -l
    BY <1>2, TowardZero DEF CspInv, Sized
  <2>2. output \in M!PwmOutputs(t)
    BY <1>1, <1>2, <1>7
  <2>3. QED
    BY <1>2, <2>1, <2>2 DEF M!PwmOutputs
<1>10. d.pwm_min = -l
  BY <1>2 DEF CspInv, Sized
<1>11. sat_status' \in {-1, 0, 1}
  BY <1>1
<1>12. CASE sat_status' # 0
  <2>1. Within(pwm_output', l)
    BY <1>1, <1>2, <1>9, <1>10, Clamped
  <2>2. PICK lim \in Int : lim = pwm_output' /\ -l <= lim /\ lim <= l
    BY <2>1 DEF Within
  <2>3. integral_i' = M!div32by16s(lim * sc - q, ki)
    BY <1>1, <1>2, <1>7, <1>12, <2>2
  <2>4. Within(M!div32by16s(lim * sc - q, ki), w)
    BY <1>5, <1>8, <2>2, Recomputed DEF Within
  <2>5. QED
    BY <1>2, <1>11, <2>3, <2>4 DEF Within
<1>13. CASE sat_status' = 0
  <2>1. -l <= output /\ output <= l /\ output # l /\ output # -l
    BY <1>1, <1>2, <1>9, <1>10, <1>13
  <2>2. -l <= M!div32by16s(q + i * ki, sc) /\ M!div32by16s(q + i * ki, sc) <= l
    BY <1>7, <1>9, <2>1
  <2>3. -w <= i /\ i <= w
    BY <1>5, <1>8, <2>2, Explains
  <2>4. integral_i' = i
    BY <1>1, <1>7, <1>13
  <2>5. QED
    BY <1>2, <1>11, <2>3, <2>4 DEF Within
<1>14. QED
  BY <1>11, <1>12, <1>13

LEMMA CspStep ==
  ASSUME CspInv, IntMax \in Nat, M!motor_csp_step
  PROVE  CspInv'
<1>1. d' = d /\ over_status' \in BOOLEAN /\ \E current_m \in Currents : M!CurrentControl(current_m)
  BY DEF M!motor_csp_step, M!OverCurrent
<1>2. /\ speed_t' \in Int /\ last_error_p' \in Int
      /\ Within(last_error_s', Error(d)) /\ Within(integral_s', Windup(d) + Error(d))
      /\ Within(current_t', d.current_max)
  <2>1. CASE M!Outer
    <3>1. PICK e \in Speeds, speed_m \in Speeds :
            (M!p_control_32(e) \/ M!p_control_16(e)) /\ M!s_control(speed_m)
      BY <2>1 DEF M!Outer
    <3>2. speed_t' \in Int /\ last_error_p' \in Int
      BY <3>1, PositionControl
    <3>3. QED
      BY <3>1, <3>2, SpeedControl
  <2>2. CASE UNCHANGED <<M!position, M!speed>> /\ current_t' = M!Clamp(current_t, M!Low, M!High)
    <3>1. /\ speed_t' = speed_t /\ last_error_p' = last_error_p
          /\ last_error_s' = last_error_s /\ integral_s' = integral_s
      BY <2>2 DEF M!position, M!speed
    <3>2. Within(current_t', d.current_max)
      BY <2>2, CurrentLimits DEF CspInv, Within
    <3>3. QED
      BY <3>1, <3>2 DEF CspInv
  <2>3. QED
    BY <2>1, <2>2 DEF M!motor_csp_step
<1>3. sat_status' \in {-1, 0, 1} /\ Within(integral_i', WindupI(d) + ErrorI(d))
  BY <1>1, <1>2, CurrentControlled
<1>4. QED
  BY <1>1, <1>2, <1>3 DEF CspInv, Within, Sized, Numbers, Windup, WindupI, Error, ErrorI, Rest, RestI

(* The single controller, whose gain comes before the integral.             *)
RestS(g)   == (g.kp + 2 * g.kd) * 2
WindupS(g) == ((g.limit + 1) * g.shift + RestS(g)) \div 1
Plain(g) ==
  /\ g.kp \in Nat /\ g.ki \in Nat /\ g.kd \in Nat /\ g.limit \in Nat /\ g.shift \in Nat \ {0}
SimpleInv ==
  /\ Plain(d) /\ Within(last_error, 2) /\ Within(last_integral_term, WindupS(d) + 2)
  /\ d.ki = 0 => last_integral_term = 0

LEMMA PlainHas ==
  ASSUME NEW g, Plain(g)
  PROVE  /\ RestS(g) \in Nat /\ WindupS(g) \in Nat
         /\ WindupS(g) = (g.limit + 1) * g.shift + RestS(g)
<1>1. \A x \in Nat, y \in Nat : x * y \in Nat
  OBVIOUS
<1>2. RestS(g) \in Nat
  BY DEF Plain, RestS
<1>3. PICK m \in Nat : m = (g.limit + 1) * g.shift
  <2>1. g.limit + 1 \in Nat /\ g.shift \in Nat
    BY DEF Plain
  <2>2. QED
    BY <1>1, <2>1
<1>4. PICK n \in Nat : n = m + RestS(g)
  BY <1>2
<1>5. n \div 1 = n
  OBVIOUS
<1>6. QED
  BY <1>2, <1>3, <1>4, <1>5 DEF WindupS

LEMMA SimpleStep ==
  ASSUME SimpleInv, M!motor_step
  PROVE  SimpleInv'
<1>1. PICK e \in Speeds, forget \in BOOLEAN :
        LET pd       == d.kp * e + d.kd * (e - last_error)
            integral == d.ki * e + last_integral_term
            output   == (pd + integral) \div d.shift
            limited  == M!Clamp(output, -d.limit, d.limit)
            stored   == IF output # limited /\ d.ki # 0 THEN limited * d.shift - pd ELSE integral
        IN  /\ last_error' = e
            /\ last_integral_term' =
                 IF forget /\ stored # 0 THEN stored - M!Sgn(stored) ELSE stored
  BY DEF M!motor_step
<1>2. d' = d
  BY DEF M!motor_step
<1> DEFINE pd       == d.kp * e + d.kd * (e - last_error)
           integral == d.ki * e + last_integral_term
           output   == (pd + integral) \div d.shift
           limited  == M!Clamp(output, -d.limit, d.limit)
           stored   == IF output # limited /\ d.ki # 0 THEN limited * d.shift - pd ELSE integral
<1>3. /\ last_error' = e
      /\ last_integral_term' = IF forget /\ stored # 0 THEN stored - M!Sgn(stored) ELSE stored
  BY <1>1
<1>4. PICK kp \in Nat, kd \in Nat, ki \in Nat, sc \in Nat \ {0}, l \in Nat, p \in Nat, w \in Nat :
        /\ kp = d.kp /\ kd = d.kd /\ ki = d.ki /\ sc = d.shift /\ l = d.limit
        /\ p = RestS(d) /\ w = WindupS(d)
  BY PlainHas DEF SimpleInv, Plain
<1>5. Within(e, 2) /\ Within(last_error, 2)
  BY Measures DEF SimpleInv
<1>6. Within(pd, p)
  <2>1. PICK f \in Int : f = e - last_error /\ -4 <= f /\ f <= 4
    BY <1>5 DEF Within
  <2>2. kp * e \in Int /\ kd * f \in Int
    BY <1>5 DEF Within
  <2>3. -(kp * 2) <= kp * e /\ kp * e <= kp * 2
    BY <1>5, Product DEF Within
  <2>4. -(kd * 4) <= kd * f /\ kd * f <= kd * 4
    BY <2>1, Product
  <2>5. p = kp * 2 + kd * 4
    BY <1>4 DEF RestS
  <2>6. QED
    BY <1>4, <2>1, <2>2, <2>3, <2>4, <2>5 DEF Within
<1>7. integral \in Int /\ (ki = 0 => integral = 0)
  <2>1. ki * e \in Int /\ (ki = 0 => ki * e = 0)
    BY <1>5 DEF Within
  <2>2. QED
    BY <1>4, <2>1 DEF SimpleInv, Within
<1> HIDE DEF pd, integral
<1>8. PICK q \in Int, i \in Int, t \in Int : q = pd /\ i = integral /\ t = q + i
  BY <1>6, <1>7 DEF Within
<1>9. -p <= q /\ q <= p
  BY <1>6, <1>8 DEF Within
<1>10. PICK o \in Int, r \in 0 .. sc - 1 : o = output /\ t = sc * o + r
  <2>1. t \div sc \in Int /\ t % sc \in 0 .. sc - 1 /\ t = sc * (t \div sc) + (t % sc)
    OBVIOUS
  <2>2. output = t \div sc
    BY <1>4, <1>8
  <2>3. QED
    BY <2>1, <2>2
<1> HIDE DEF output
<1>11. Within(limited, l) /\ (Within(o, l) => limited = o) /\ limited \in Int
  BY <1>4, <1>10 DEF M!Clamp, Within
<1> HIDE DEF limited
<1>12. w = (l + 1) * sc + p /\ (l + 1) * sc = sc * l + sc /\ sc * l \in Nat
  BY <1>4, PlainHas DEF SimpleInv
<1>13. stored \in Int /\ Within(stored, w) /\ (ki = 0 => stored = 0)
  <2>1. CASE o # limited /\ ki # 0
    <3>1. stored = limited * sc - q
      BY <1>4, <1>8, <1>10, <2>1
    <3>2. -(sc * l) <= sc * limited /\ sc * limited <= sc * l /\ sc * limited \in Int
      BY <1>11, Product DEF Within
    <3>3. limited * sc = sc * limited
      BY <1>11
    <3>4. QED
      BY <1>9, <1>12, <2>1, <3>1, <3>2, <3>3 DEF Within
  <2>2. CASE o = limited
    <3>1. stored = i
      BY <1>8, <1>10, <2>2
    <3>2. -(sc * l) <= sc * o /\ sc * o <= sc * l /\ sc * o \in Int
      BY <1>11, <2>2, Product DEF Within
    <3>3. QED
      BY <1>7, <1>8, <1>9, <1>10, <1>12, <3>1, <3>2 DEF Within
  <2>3. CASE ki = 0
    BY <1>4, <1>7, <1>12, <2>3 DEF Within
  <2>4. QED
    BY <2>1, <2>2, <2>3
<1> HIDE DEF stored
<1>14. Within(last_integral_term', w) /\ (ki = 0 => last_integral_term' = 0)
  BY <1>3, <1>13 DEF Within, M!Sgn
<1>15. Within(last_integral_term', w + 2)
  BY <1>14 DEF Within
<1>16. QED
  BY <1>2, <1>3, <1>4, <1>5, <1>14, <1>15 DEF SimpleInv, Within, Plain, WindupS, RestS

MotorInv ==
  /\ controller \in {"csp", "simple"}
  /\ controller = "csp" => CspInv
  /\ controller = "simple" => SimpleInv

(* The gains of the program are such.                                       *)
LEMMA GainsSized ==
  ASSUME IntMax >= 20
  PROVE  (\A g \in Gains : Sized(g)) /\ (\A g \in Simple : Plain(g))
<1>1. \A g \in Gains : Sized(g)
  <2>1. ASSUME NEW g, NEW ki \in 1 .. 2, NEW kd \in Nat, NEW kp \in {1, 6}, NEW b,
               g = Gain(b, kd, ki, kp), (kd = 0 /\ ki = 2) \/ (kd = 1 /\ ki = 1)
        PROVE  Sized(g)
    <3>1. /\ g.speed_max = 2 /\ g.current_max = 3 /\ g.nominal = 2 /\ g.pwm_max = 3
          /\ g.kp_p = 1 /\ g.kd_p = 1 /\ g.kp_s = 1 /\ g.kd_s = kd /\ g.kp_i = kp
          /\ g.scaler_p = 1 /\ g.scaler_s = 2 /\ g.scaler_i = 2 /\ g.ki_s = ki /\ g.ki_i = 1
          /\ g.speed_min = -2 /\ g.current_min = -3 /\ g.pwm_min = -3
      BY <2>1 DEF Gain
    <3>2. Numbers(g)
      BY <3>1 DEF Numbers
    <3>3. Error(g) = 4
      BY <3>1 DEF Error
    <3>4. (Rest(g) + (Windup(g) + 2 * Error(g)) * g.ki_s) \div g.scaler_s <= IntMax
      <4>1. CASE kd = 0 /\ ki = 2
        <5>1. Rest(g) = 4
          BY <3>1, <3>3, <4>1 DEF Rest
        <5>2. Windup(g) = 6
          BY <3>1, <4>1, <5>1 DEF Windup
        <5>3. QED
          BY <3>1, <3>3, <4>1, <5>1, <5>2, DriversAssumption
      <4>2. CASE kd = 1 /\ ki = 1
        <5>1. Rest(g) = 12
          BY <3>1, <3>3, <4>2 DEF Rest
        <5>2. Windup(g) = 20
          BY <3>1, <4>2, <5>1 DEF Windup
        <5>3. QED
          BY <3>1, <3>3, <4>2, <5>1, <5>2, DriversAssumption
      <4>3. QED
        BY <2>1, <4>1, <4>2
    <3>5. QED
      BY <3>1, <3>2, <3>4 DEF Sized
  <2>2. ASSUME NEW g, NEW b, g = Gain(b, 0, 2, 6) PROVE Sized(g)
    BY <2>1, <2>2
  <2>3. ASSUME NEW g, NEW b, g = Gain(b, 1, 1, 1) PROVE Sized(g)
    BY <2>1, <2>3
  <2>4. \A g \in Gains : (\E b : g = Gain(b, 0, 2, 6)) \/ (\E b : g = Gain(b, 1, 1, 1))
    BY DEF Gains
  <2>5. QED
    BY <2>2, <2>3, <2>4
<1>2. \A g \in Simple : Plain(g)
  BY DEF Simple, Plain
<1>3. QED
  BY <1>1, <1>2

LEMMA MotorInitInv ==
  ASSUME IntMax >= 20, Init
  PROVE  MotorInv
<1>1. /\ \/ controller = "csp" /\ d \in Gains
         \/ controller = "simple" /\ d \in Simple
      /\ last_error_s = 0 /\ integral_s = 0 /\ current_t = 0
      /\ integral_i = 0
      /\ last_error = 0 /\ last_integral_term = 0
  BY DEF Init, M!MotorInit
<1>2. CASE controller = "csp" /\ d \in Gains
  <2>1. Sized(d)
    BY <1>2, GainsSized
  <2>2. /\ Within(0, Error(d)) /\ Within(0, Windup(d) + Error(d)) /\ Within(0, d.current_max)
        /\ Within(0, WindupI(d) + ErrorI(d))
    BY <2>1, SizedHas DEF Within, Sized, Numbers
  <2>3. /\ over_status \in BOOLEAN /\ sat_status \in {-1, 0, 1}
        /\ speed_t \in Int /\ last_error_p \in Int
    <3>1. over_status \in BOOLEAN
      <4>1. over_status = FALSE
        BY DEF Init, M!MotorInit
      <4>2. QED
        BY <4>1
    <3>2. sat_status = 0 /\ speed_t = 0 /\ last_error_p = 0
      BY DEF Init, M!MotorInit
    <3>3. QED
      BY <3>1, <3>2
  <2>4. CspInv
    BY <1>1, <2>1, <2>2, <2>3 DEF CspInv
  <2>5. QED
    BY <1>2, <2>4 DEF MotorInv
<1>3. CASE controller = "simple" /\ d \in Simple
  <2>1. Plain(d)
    BY <1>3, GainsSized
  <2>2. Within(0, 2) /\ Within(0, WindupS(d) + 2)
    BY <2>1, PlainHas DEF Within
  <2>3. SimpleInv
    BY <1>1, <2>1, <2>2 DEF SimpleInv
  <2>4. QED
    BY <1>3, <2>3 DEF MotorInv
<1>4. QED
  BY <1>1, <1>2, <1>3

LEMMA MotorStep ==
  ASSUME MotorInv, [Next]_vars
  PROVE  MotorInv'
<1>1. M!MotorNext \/ UNCHANGED motor
  BY DEF Next, vars
<1>2. CASE M!motor_csp_step
  <2>1. controller = "csp" /\ controller' = controller
    BY <1>2 DEF M!motor_csp_step
  <2>2. CspInv'
    BY <1>2, <2>1, CspStep, DriversAssumption DEF MotorInv
  <2>3. QED
    BY <2>1, <2>2 DEF MotorInv
<1>3. CASE M!motor_step
  <2>1. controller = "simple" /\ controller' = controller
    BY <1>3 DEF M!motor_step
  <2>2. SimpleInv'
    BY <1>3, <2>1, SimpleStep DEF MotorInv
  <2>3. QED
    BY <2>1, <2>2 DEF MotorInv
<1>4. CASE UNCHANGED motor
  BY <1>4 DEF motor, MotorInv, CspInv, SimpleInv, Sized, Numbers, Plain, Windup, WindupI, WindupS,
              Error, ErrorI, Rest, RestI, RestS, Within
<1>5. QED
  BY <1>1, <1>2, <1>3, <1>4 DEF M!MotorNext

(* However long an output is saturated, on whatever side and by whichever   *)
(* limit, the integrals stay what the limits explain (motor-csp.c:91-128,   *)
(* 296-319, motor.c:135-153), for ints wide enough that the speed           *)
(* controller's sum fits one.                                               *)
THEOREM IntegralsExplained ==
  ASSUME IntMax >= 20
  PROVE  Spec => []NoWindup
<1>1. MotorInv => NoWindup
  <2> SUFFICES ASSUME MotorInv PROVE M!NoWindup
    BY DEF NoWindup
  <2>1. ASSUME NEW x, NEW m \in Nat, Within(x, m) PROVE M!Abs(x) <= m
    BY <2>1 DEF Within, M!Abs
  <2>2. CASE controller = "csp"
    <3>1. Within(integral_s, Windup(d) + Error(d)) /\ Within(integral_i, WindupI(d) + ErrorI(d))
      BY <2>2 DEF MotorInv, CspInv
    <3>2. Sized(d)
      BY <2>2 DEF MotorInv, CspInv
    <3>3. M!Abs(integral_s) <= Windup(d) + Error(d) /\ M!Abs(integral_i) <= WindupI(d) + ErrorI(d)
      <4>1. Windup(d) + Error(d) \in Nat /\ WindupI(d) + ErrorI(d) \in Nat
        BY <3>2, SizedHas
      <4>2. QED
        BY <2>1, <3>1, <4>1
    <3>4. /\ M!Explained(d.current_max, d.scaler_s, d.kp_s, d.kd_s, d.ki_s,
                         d.speed_max + M!Largest(Speeds)) = Windup(d) + Error(d)
          /\ M!Explained(d.pwm_max, d.scaler_i, d.kp_i, 0, d.ki_i,
                         d.current_max + M!Largest(Currents)) = WindupI(d) + ErrorI(d)
      <4>1. d.kp_i + 2 * 0 = d.kp_i
        BY <3>2 DEF Sized, Numbers
      <4>2. QED
        BY <4>1, Measures DEF M!Explained, Windup, Error, Rest, WindupI, ErrorI, RestI
    <3>5. QED
      BY <2>2, <3>3, <3>4 DEF M!NoWindup
  <2>3. CASE controller = "simple"
    <3>1. Within(last_integral_term, WindupS(d) + 2)
      BY <2>3 DEF MotorInv, SimpleInv
    <3>2. M!Abs(last_integral_term) <= WindupS(d) + 2
      <4>1. WindupS(d) + 2 \in Nat
        BY <2>3, PlainHas DEF MotorInv, SimpleInv
      <4>2. QED
        BY <2>1, <3>1, <4>1
    <3>3. M!Explained(d.limit, d.shift, d.kp, d.kd, 1, M!Largest(Speeds)) = WindupS(d) + 2
      BY Measures DEF M!Explained, WindupS, RestS
    <3>4. QED
      BY <2>3, <3>2, <3>3 DEF M!NoWindup
  <2>4. QED
    BY <2>2, <2>3 DEF MotorInv
<1>2. Init => MotorInv
  BY MotorInitInv
<1>3. MotorInv /\ [Next]_vars => MotorInv'
  BY MotorStep
<1>4. QED
  BY <1>1, <1>2, <1>3, PTL DEF Spec

-----------------------------------------------------------------------------
(* Numbers as text.  The digits of a word, and what the first i come to. *)
DigitsOf(value, base, places) ==
  [i \in 1 .. places |-> (value \div base ^ (places - i)) % base]
ComeTo(digs, base, places, value, b) ==
  /\ b[0] = 0 /\ b[places] = value
  /\ \A i \in 0 .. places : b[i] \in 0 .. value
  /\ \A i \in 0 .. places - 1 :
       digs[i + 1] \in 0 .. base - 1 /\ b[i + 1] = b[i] * base + digs[i + 1]

(* A digit is what cutting at its place leaves over of cutting at the next. *)
CutAt(v, b, m, n) ==
  /\ v \div m \in 0 .. v /\ (v \div m) % b \in 0 .. b - 1
  /\ v \div m = (v \div n) * b + ((v \div m) % b)

LEMMA OnePlace ==
  ASSUME NEW v \in Nat, NEW b \in Nat \ {0}, NEW m \in Nat \ {0}
  PROVE  CutAt(v, b, m, b * m)
<1>1. PICK q \in Nat, r \in 0 .. m - 1 : q = v \div m /\ v = m * q + r
  BY Divided, SMTT(20)
<1>2. PICK p \in Nat, z \in 0 .. b - 1 : p = q \div b /\ z = q % b /\ q = b * p + z
  BY Divided, SMTT(20)
<1>3. q <= v
  <2>1. m * q >= q
    <3>1. PICK k \in Nat : m = 1 + k
      <4>1. m - 1 \in Nat /\ m = 1 + (m - 1)
        BY SMT
      <4>2. QED
        BY <4>1, SMT
    <3>2. (1 + k) * q = q + k * q /\ k * q \in Nat
      BY <1>1, SMT
    <3>3. QED
      BY <3>1, <3>2, SMT
  <2>2. m * q \in Nat
    BY <1>1, SMT
  <2>3. QED
    BY <1>1, <2>1, <2>2, SMT
<1>4. v = (b * m) * p + (m * z + r)
  <2>1. m * (b * p + z) = (b * m) * p + m * z
    BY <1>1, <1>2, SMT
  <2>2. PICK x \in Nat : x = (b * m) * p
    BY <1>2, SMT
  <2>3. PICK y \in Nat : y = m * z
    BY <1>2, SMT
  <2>4. v = (x + y) + r
    BY <1>1, <1>2, <2>1, <2>2, <2>3, Zenon
  <2>5. v = x + (y + r)
    BY <2>4, SMT
  <2>6. QED
    BY <2>2, <2>3, <2>5, Zenon
<1>5. b * m \in Nat \ {0} /\ m * z + r \in 0 .. b * m - 1
  <2>1. PICK e \in Nat : b = z + (1 + e)
    <3>1. b - z - 1 \in Nat /\ b = z + (1 + (b - z - 1))
      BY <1>2, SMT
    <3>2. QED
      BY <3>1, SMT
  <2>2. (z + (1 + e)) * m = m * z + (1 + e) * m
    BY <1>2, <2>1, SMT
  <2>3. (1 + e) * m = m + e * m
    BY <2>1, SMT
  <2>4. PICK x \in Nat : x = e * m
    BY <2>1, SMT
  <2>5. PICK y \in Nat : y = m * z
    BY <1>2, SMT
  <2>6. b * m = y + (m + x)
    BY <2>1, <2>2, <2>3, <2>4, <2>5, Zenon
  <2>7. PICK w \in Nat : w = b * m
    BY SMT
  <2>8. w \in Nat \ {0} /\ y + r \in 0 .. w - 1
    BY <2>6, <2>7, SMT
  <2>9. QED
    BY <2>5, <2>7, <2>8, Zenon
<1>6. v \div (b * m) = p
  BY <1>4, <1>5, Divides, SMTT(20)
<1>7. q \in 0 .. v /\ b * p = p * b
  BY <1>2, <1>3, SMT
<1>8. v \div m \in 0 .. v
  BY <1>1, <1>7, Zenon
<1>9. (v \div m) % b \in 0 .. b - 1
  BY <1>1, <1>2, Zenon
<1>10. v \div m = (v \div (b * m)) * b + ((v \div m) % b)
  BY <1>1, <1>2, <1>6, <1>7, Zenon
<1>11. QED
  BY <1>8, <1>9, <1>10, Zenon DEF CutAt

LEMMA DecimalDigits ==
  ASSUME NEW value \in Nat, value < 10 ^ (5 - 0)
  PROVE  \E b : ComeTo(DigitsOf(value, 10, 5), 10, 5, value, b)
<1> DEFINE digs == DigitsOf(value, 10, 5)
           f    == [i \in 0 .. 5 |-> value \div 10 ^ (5 - i)]
<1>1. /\ digs[1] = (value \div 10 ^ (5 - 1)) % 10
      /\ digs[2] = (value \div 10 ^ (5 - 2)) % 10
      /\ digs[3] = (value \div 10 ^ (5 - 3)) % 10
      /\ digs[4] = (value \div 10 ^ (5 - 4)) % 10
      /\ digs[5] = (value \div 10 ^ (5 - 5)) % 10
  BY SMT DEF DigitsOf
<1>2. /\ f[0] = value \div 10 ^ (5 - 0)
      /\ f[1] = value \div 10 ^ (5 - 1)
      /\ f[2] = value \div 10 ^ (5 - 2)
      /\ f[3] = value \div 10 ^ (5 - 3)
      /\ f[4] = value \div 10 ^ (5 - 4)
      /\ f[5] = value \div 10 ^ (5 - 5)
  BY SMT
<1> HIDE DEF digs, f
<1>3. f[1] = f[0] * 10 + digs[1] /\ digs[1] \in 0 .. 10 - 1 /\ f[1] \in 0 .. value
  <2>1. 10 ^ (5 - 1) \in Nat \ {0} /\ 10 ^ (5 - 0) = 10 * 10 ^ (5 - 1) /\ 10 \in Nat \ {0}
    BY SMT
  <2>2. CutAt(value, 10, 10 ^ (5 - 1), 10 * 10 ^ (5 - 1))
    BY <2>1, OnePlace, Zenon
  <2>3. CutAt(value, 10, 10 ^ (5 - 1), 10 ^ (5 - 0))
    BY <2>1, <2>2, Zenon
  <2>4. QED
    BY <1>1, <1>2, <2>3, Zenon DEF CutAt
<1>4. f[2] = f[1] * 10 + digs[2] /\ digs[2] \in 0 .. 10 - 1 /\ f[2] \in 0 .. value
  <2>1. 10 ^ (5 - 2) \in Nat \ {0} /\ 10 ^ (5 - 1) = 10 * 10 ^ (5 - 2) /\ 10 \in Nat \ {0}
    BY SMT
  <2>2. CutAt(value, 10, 10 ^ (5 - 2), 10 * 10 ^ (5 - 2))
    BY <2>1, OnePlace, Zenon
  <2>3. CutAt(value, 10, 10 ^ (5 - 2), 10 ^ (5 - 1))
    BY <2>1, <2>2, Zenon
  <2>4. QED
    BY <1>1, <1>2, <2>3, Zenon DEF CutAt
<1>5. f[3] = f[2] * 10 + digs[3] /\ digs[3] \in 0 .. 10 - 1 /\ f[3] \in 0 .. value
  <2>1. 10 ^ (5 - 3) \in Nat \ {0} /\ 10 ^ (5 - 2) = 10 * 10 ^ (5 - 3) /\ 10 \in Nat \ {0}
    BY SMT
  <2>2. CutAt(value, 10, 10 ^ (5 - 3), 10 * 10 ^ (5 - 3))
    BY <2>1, OnePlace, Zenon
  <2>3. CutAt(value, 10, 10 ^ (5 - 3), 10 ^ (5 - 2))
    BY <2>1, <2>2, Zenon
  <2>4. QED
    BY <1>1, <1>2, <2>3, Zenon DEF CutAt
<1>6. f[4] = f[3] * 10 + digs[4] /\ digs[4] \in 0 .. 10 - 1 /\ f[4] \in 0 .. value
  <2>1. 10 ^ (5 - 4) \in Nat \ {0} /\ 10 ^ (5 - 3) = 10 * 10 ^ (5 - 4) /\ 10 \in Nat \ {0}
    BY SMT
  <2>2. CutAt(value, 10, 10 ^ (5 - 4), 10 * 10 ^ (5 - 4))
    BY <2>1, OnePlace, Zenon
  <2>3. CutAt(value, 10, 10 ^ (5 - 4), 10 ^ (5 - 3))
    BY <2>1, <2>2, Zenon
  <2>4. QED
    BY <1>1, <1>2, <2>3, Zenon DEF CutAt
<1>7. f[5] = f[4] * 10 + digs[5] /\ digs[5] \in 0 .. 10 - 1 /\ f[5] \in 0 .. value
  <2>1. 10 ^ (5 - 5) \in Nat \ {0} /\ 10 ^ (5 - 4) = 10 * 10 ^ (5 - 5) /\ 10 \in Nat \ {0}
    BY SMT
  <2>2. CutAt(value, 10, 10 ^ (5 - 5), 10 * 10 ^ (5 - 5))
    BY <2>1, OnePlace, Zenon
  <2>3. CutAt(value, 10, 10 ^ (5 - 5), 10 ^ (5 - 4))
    BY <2>1, <2>2, Zenon
  <2>4. QED
    BY <1>1, <1>2, <2>3, Zenon DEF CutAt
<1>8. f[0] = 0 /\ f[5] = value
  <2>1. PICK m \in Nat \ {0} : m = 10 ^ (5 - 0)
    BY SMT
  <2>2. value = m * 0 + value /\ value \in 0 .. m - 1
    BY <2>1, SMT
  <2>3. value \div m = 0
    BY <2>2, Divides, SMT
  <2>4. value \div 10 ^ (5 - 5) = value
    BY SMT
  <2>5. QED
    BY <1>2, <2>1, <2>3, <2>4, Zenon
<1>9. \A i \in 0 .. 5 : f[i] \in 0 .. value
  <2>1. \A i \in 0 .. 5 : i = 0 \/ i = 1 \/ i = 2 \/ i = 3 \/ i = 4 \/ i = 5
    BY SMT
  <2>2. 0 \in 0 .. value
    BY SMT
  <2>3. /\ f[0] \in 0 .. value /\ f[1] \in 0 .. value /\ f[2] \in 0 .. value
        /\ f[3] \in 0 .. value /\ f[4] \in 0 .. value /\ f[5] \in 0 .. value
    BY <1>3, <1>4, <1>5, <1>6, <1>7, <1>8, <2>2, Zenon
  <2>4. QED
    BY <2>1, <2>3, Zenon
<1>10. \A i \in 0 .. 5 - 1 :
         digs[i + 1] \in 0 .. 10 - 1 /\ f[i + 1] = f[i] * 10 + digs[i + 1]
  <2>1. \A i \in 0 .. 5 - 1 : i = 0 \/ i = 1 \/ i = 2 \/ i = 3 \/ i = 4
    BY SMT
  <2>2. 0 + 1 = 1 /\ 1 + 1 = 2 /\ 2 + 1 = 3 /\ 3 + 1 = 4 /\ 4 + 1 = 5
    BY SMT
  <2>3. QED
    BY <1>3, <1>4, <1>5, <1>6, <1>7, <2>1, <2>2, Zenon
<1>11. ComeTo(digs, 10, 5, value, f)
  BY <1>8, <1>9, <1>10, Zenon DEF ComeTo
<1>12. QED
  BY <1>11, Zenon DEF digs

LEMMA HexDigits ==
  ASSUME NEW value \in Nat, value < 16 ^ (4 - 0)
  PROVE  \E b : ComeTo(DigitsOf(value, 16, 4), 16, 4, value, b)
<1> DEFINE digs == DigitsOf(value, 16, 4)
           f    == [i \in 0 .. 4 |-> value \div 16 ^ (4 - i)]
<1>1. /\ digs[1] = (value \div 16 ^ (4 - 1)) % 16
      /\ digs[2] = (value \div 16 ^ (4 - 2)) % 16
      /\ digs[3] = (value \div 16 ^ (4 - 3)) % 16
      /\ digs[4] = (value \div 16 ^ (4 - 4)) % 16
  BY SMT DEF DigitsOf
<1>2. /\ f[0] = value \div 16 ^ (4 - 0)
      /\ f[1] = value \div 16 ^ (4 - 1)
      /\ f[2] = value \div 16 ^ (4 - 2)
      /\ f[3] = value \div 16 ^ (4 - 3)
      /\ f[4] = value \div 16 ^ (4 - 4)
  BY SMT
<1> HIDE DEF digs, f
<1>3. f[1] = f[0] * 16 + digs[1] /\ digs[1] \in 0 .. 16 - 1 /\ f[1] \in 0 .. value
  <2>1. 16 ^ (4 - 1) \in Nat \ {0} /\ 16 ^ (4 - 0) = 16 * 16 ^ (4 - 1) /\ 16 \in Nat \ {0}
    BY SMT
  <2>2. CutAt(value, 16, 16 ^ (4 - 1), 16 * 16 ^ (4 - 1))
    BY <2>1, OnePlace, Zenon
  <2>3. CutAt(value, 16, 16 ^ (4 - 1), 16 ^ (4 - 0))
    BY <2>1, <2>2, Zenon
  <2>4. QED
    BY <1>1, <1>2, <2>3, Zenon DEF CutAt
<1>4. f[2] = f[1] * 16 + digs[2] /\ digs[2] \in 0 .. 16 - 1 /\ f[2] \in 0 .. value
  <2>1. 16 ^ (4 - 2) \in Nat \ {0} /\ 16 ^ (4 - 1) = 16 * 16 ^ (4 - 2) /\ 16 \in Nat \ {0}
    BY SMT
  <2>2. CutAt(value, 16, 16 ^ (4 - 2), 16 * 16 ^ (4 - 2))
    BY <2>1, OnePlace, Zenon
  <2>3. CutAt(value, 16, 16 ^ (4 - 2), 16 ^ (4 - 1))
    BY <2>1, <2>2, Zenon
  <2>4. QED
    BY <1>1, <1>2, <2>3, Zenon DEF CutAt
<1>5. f[3] = f[2] * 16 + digs[3] /\ digs[3] \in 0 .. 16 - 1 /\ f[3] \in 0 .. value
  <2>1. 16 ^ (4 - 3) \in Nat \ {0} /\ 16 ^ (4 - 2) = 16 * 16 ^ (4 - 3) /\ 16 \in Nat \ {0}
    BY SMT
  <2>2. CutAt(value, 16, 16 ^ (4 - 3), 16 * 16 ^ (4 - 3))
    BY <2>1, OnePlace, Zenon
  <2>3. CutAt(value, 16, 16 ^ (4 - 3), 16 ^ (4 - 2))
    BY <2>1, <2>2, Zenon
  <2>4. QED
    BY <1>1, <1>2, <2>3, Zenon DEF CutAt
<1>6. f[4] = f[3] * 16 + digs[4] /\ digs[4] \in 0 .. 16 - 1 /\ f[4] \in 0 .. value
  <2>1. 16 ^ (4 - 4) \in Nat \ {0} /\ 16 ^ (4 - 3) = 16 * 16 ^ (4 - 4) /\ 16 \in Nat \ {0}
    BY SMT
  <2>2. CutAt(value, 16, 16 ^ (4 - 4), 16 * 16 ^ (4 - 4))
    BY <2>1, OnePlace, Zenon
  <2>3. CutAt(value, 16, 16 ^ (4 - 4), 16 ^ (4 - 3))
    BY <2>1, <2>2, Zenon
  <2>4. QED
    BY <1>1, <1>2, <2>3, Zenon DEF CutAt
<1>7. f[0] = 0 /\ f[4] = value
  <2>1. PICK m \in Nat \ {0} : m = 16 ^ (4 - 0)
    BY SMT
  <2>2. value = m * 0 + value /\ value \in 0 .. m - 1
    BY <2>1, SMT
  <2>3. value \div m = 0
    BY <2>2, Divides, SMT
  <2>4. value \div 16 ^ (4 - 4) = value
    BY SMT
  <2>5. QED
    BY <1>2, <2>1, <2>3, <2>4, Zenon
<1>8. \A i \in 0 .. 4 : f[i] \in 0 .. value
  <2>1. \A i \in 0 .. 4 : i = 0 \/ i = 1 \/ i = 2 \/ i = 3 \/ i = 4
    BY SMT
  <2>2. 0 \in 0 .. value
    BY SMT
  <2>3. QED
    BY <1>3, <1>4, <1>5, <1>6, <1>7, <2>1, <2>2, Zenon
<1>9. \A i \in 0 .. 4 - 1 :
         digs[i + 1] \in 0 .. 16 - 1 /\ f[i + 1] = f[i] * 16 + digs[i + 1]
  <2>1. \A i \in 0 .. 4 - 1 : i = 0 \/ i = 1 \/ i = 2 \/ i = 3
    BY SMT
  <2>2. 0 + 1 = 1 /\ 1 + 1 = 2 /\ 2 + 1 = 3 /\ 3 + 1 = 4
    BY SMT
  <2>3. QED
    BY <1>3, <1>4, <1>5, <1>6, <2>1, <2>2, Zenon
<1>10. ComeTo(digs, 16, 4, value, f)
  BY <1>7, <1>8, <1>9, Zenon DEF ComeTo
<1>11. QED
  BY <1>10, Zenon DEF digs

-----------------------------------------------------------------------------
(* The word is smaller than what the places given to it can hold. *)
LEMMA WordFits ==
  /\ N!WordSize \in Nat \ {0} /\ N!WordSize \div 2 \in Nat \ {0}
  /\ N!WordSize <= 10 ^ (5 - 0) /\ N!WordSize <= 16 ^ (4 - 0)
<1>1. N!WordSize \in Nat \ {0}
  BY SMT DEF N!WordSize
<1>2. N!WordSize \div 2 \in Nat \ {0}
  BY SMT DEF N!WordSize
<1>3. N!WordSize <= 10 ^ (5 - 0)
  BY SMT DEF N!WordSize
<1>4. N!WordSize <= 16 ^ (4 - 0)
  BY SMT DEF N!WordSize
<1>5. QED
  BY <1>1, <1>2, <1>3, <1>4, Zenon

LEMMA AnyDigits ==
  ASSUME NEW value \in 0 .. N!WordSize - 1, NEW base, NEW places,
         (base = 10 /\ places = 5) \/ (base = 16 /\ places = 4)
  PROVE  \E b : ComeTo(DigitsOf(value, base, places), base, places, value, b)
<1>1. value \in Nat /\ value < 10 ^ (5 - 0) /\ value < 16 ^ (4 - 0)
  <2>1. PICK w \in Nat : w = N!WordSize
    BY WordFits, Zenon
  <2>2. PICK x \in Nat, y \in Nat : x = 10 ^ (5 - 0) /\ y = 16 ^ (4 - 0)
    BY SMT
  <2>3. value \in 0 .. w - 1 /\ w <= x /\ w <= y
    BY <2>1, <2>2, WordFits, Zenon
  <2>4. value \in Nat /\ value < x /\ value < y
    BY <2>3, SMT
  <2>5. QED
    BY <2>2, <2>4, Zenon
<1>2. CASE base = 10 /\ places = 5
  BY <1>1, <1>2, DecimalDigits, Zenon
<1>3. CASE base = 16 /\ places = 4
  BY <1>1, <1>3, HexDigits, Zenon
<1>4. QED
  BY <1>2, <1>3, Zenon

-----------------------------------------------------------------------------
(* Text whose first k characters are blanks and whose next m - k are the    *)
(* digits of a value, a what they come to one after the other.              *)
ReadableAt(s, base, value, k, m, a) ==
  /\ s \in Seq(Int) /\ k \in Nat /\ m \in Nat /\ k < m /\ m < Len(s)
  /\ \A i \in 0 .. k - 1 : s[i + 1] = N!Space
  /\ \A i \in k .. m - 1 : s[i + 1] \in 0 .. base - 1 /\ a[i + 1] = a[i] * base + s[i + 1]
  /\ s[m + 1] \notin 0 .. base - 1
  /\ a[k] = 0 /\ a[m] = value
  /\ \A i \in k .. m : a[i] \in 0 .. value
Readable(s, base, value) == \E k, m, a : ReadableAt(s, base, value, k, m, a)

LEMMA DigitsRead ==
  ASSUME NEW base \in Nat, NEW s, NEW value, NEW m, NEW a,
         ReadableAt(s, base, value, 0, m, a)
  PROVE  N!Digits(s, base) = m
<1> DEFINE Ends(n) == /\ \A i \in 1 .. n : s[i] \in 0 .. base - 1
                      /\ n = Len(s) \/ s[n + 1] \notin 0 .. base - 1
<1>1. /\ m \in Nat /\ m < Len(s) /\ Len(s) \in Nat
      /\ \A i \in 1 .. m : s[i] \in 0 .. base - 1
      /\ s[m + 1] \notin 0 .. base - 1
  <2>1. s \in Seq(Int) => Len(s) \in Nat
    BY SMT
  <2>2. /\ s \in Seq(Int) /\ m \in Nat /\ m < Len(s) /\ s[m + 1] \notin 0 .. base - 1
        /\ \A i \in 0 .. m - 1 : s[i + 1] \in 0 .. base - 1
    BY Zenon DEF ReadableAt
  <2>3. ASSUME NEW i \in 1 .. m PROVE s[i] \in 0 .. base - 1
    <3>1. i - 1 \in 0 .. m - 1 /\ i - 1 + 1 = i
      BY <2>2, SMT
    <3>2. s[i - 1 + 1] \in 0 .. base - 1
      BY <2>2, <3>1, Zenon
    <3>3. QED
      BY <3>1, <3>2, Zenon
  <2>4. QED
    BY <2>1, <2>2, <2>3, Zenon
<1>2. m \in 0 .. Len(s) /\ Ends(m)
  BY <1>1, SMT
<1>3. ASSUME NEW n \in 0 .. Len(s), Ends(n) PROVE n = m
  <2>1. CASE n < m
    <3>1. n + 1 \in 1 .. m /\ n # Len(s)
      BY <1>1, <2>1, SMT
    <3>2. QED
      BY <1>1, <1>3, <3>1, SMT
  <2>2. CASE n > m
    <3>1. m + 1 \in 1 .. n
      BY <1>1, <2>2, SMT
    <3>2. QED
      BY <1>1, <1>3, <3>1, SMT
  <2>3. QED
    BY <1>1, <2>1, <2>2, SMT
<1>4. N!Digits(s, base) = CHOOSE n \in 0 .. Len(s) : Ends(n)
  BY Zenon DEF N!Digits
<1> HIDE DEF Ends
<1>5. QED
  BY <1>2, <1>3, <1>4, SMT

(* What a reader makes of the first i characters. *)
ValueIs(s, base, n, g) ==
  g = [i \in 0 .. n |-> IF i = 0 THEN 0 ELSE (g[i - 1] * base + s[i]) % N!WordSize]

LEMMA ValueOneMore ==
  ASSUME NEW s, NEW base, NEW n \in Nat, NEW g, ValueIs(s, base, n, g)
  PROVE  \E h : ValueIs(s, base, n + 1, h)
<1> DEFINE Next1(h, i) == IF i = 0 THEN 0 ELSE (h[i - 1] * base + s[i]) % N!WordSize
           h == [i \in 0 .. n + 1 |-> IF i = n + 1 THEN Next1(g, i) ELSE g[i]]
<1>1. \A i \in 0 .. n : g[i] = Next1(g, i)
  <2>1. g = [i \in 0 .. n |-> Next1(g, i)]
    BY Zenon DEF ValueIs
  <2>2. QED
    BY <2>1, Zenon
<1> DEFINE e == h
<1>2. /\ \A i \in 0 .. n + 1 : e[i] = IF i = n + 1 THEN Next1(g, i) ELSE g[i]
      /\ e = [i \in 0 .. n + 1 |-> e[i]]
  BY Zenon
<1> HIDE DEF e
<1>3. ASSUME NEW i \in 0 .. n + 1 PROVE e[i] = Next1(e, i)
  <2>1. i # 0 => i - 1 \in 0 .. n /\ i - 1 \in 0 .. n + 1 /\ i - 1 # n + 1
    BY SMT
  <2>2. i # 0 => e[i - 1] = g[i - 1]
    BY <1>2, <2>1, Zenon
  <2>3. Next1(e, i) = Next1(g, i)
    <3>1. CASE i = 0
      BY <3>1, Zenon
    <3>2. CASE i # 0
      BY <2>2, <3>2, Zenon
    <3>3. QED
      BY <3>1, <3>2, Zenon
  <2>4. CASE i = n + 1
    BY <1>2, <2>3, <2>4, Zenon
  <2>5. CASE i # n + 1
    <3>1. i \in 0 .. n
      BY <2>5, SMT
    <3>2. e[i] = g[i]
      BY <1>2, <2>5, Zenon
    <3>3. QED
      BY <1>1, <2>3, <3>1, <3>2, Zenon
  <2>6. QED
    BY <2>4, <2>5, Zenon
<1>4. e = [i \in 0 .. n + 1 |-> Next1(e, i)]
  BY <1>2, <1>3, Zenon
<1>5. ValueIs(s, base, n + 1, e)
  BY <1>4, Zenon DEF ValueIs
<1>6. QED
  BY <1>5, Zenon

LEMMA ValueExists ==
  ASSUME NEW s, NEW base, NEW n \in Nat
  PROVE  \E g : ValueIs(s, base, n, g)
<1> DEFINE Z == {k \in Nat : \E g : ValueIs(s, base, k, g)}
<1>1. 0 \in Z
  <2> DEFINE g == [i \in 0 .. 0 |-> 0]
  <2>1. \A i \in 0 .. 0 : i = 0
    BY SMT
  <2>2. g = [i \in 0 .. 0 |-> IF i = 0 THEN 0 ELSE (g[i - 1] * base + s[i]) % N!WordSize]
    BY <2>1, Zenon
  <2>3. ValueIs(s, base, 0, g)
    BY <2>2, Zenon DEF ValueIs
  <2>4. 0 \in Nat
    BY SMT
  <2>5. QED
    BY <2>3, <2>4, Zenon
<1>2. ASSUME NEW k \in Nat, k \in Z PROVE k + 1 \in Z
  <2>1. k + 1 \in Nat
    BY SMT
  <2>2. QED
    BY <1>2, <2>1, ValueOneMore, Zenon
<1> HIDE DEF Z
<1>3. Nat \subseteq Z
  BY <1>1, <1>2, AllNaturals, SMT
<1>4. QED
  BY <1>3, Zenon DEF Z

LEMMA ValueRead ==
  ASSUME NEW base \in Nat, NEW s, NEW value \in 0 .. N!WordSize - 1, NEW m, NEW a,
         ReadableAt(s, base, value, 0, m, a)
  PROVE  N!Value(s, base) = value
<1> DEFINE g == CHOOSE h : ValueIs(s, base, Len(s), h)
<1>1. N!Value(s, base) = g[N!Digits(s, base)]
  BY Zenon DEF N!Value, ValueIs
<1>2. N!Digits(s, base) = m
  BY DigitsRead, Zenon
<1>3. s \in Seq(Int) /\ m \in Nat /\ Len(s) \in Nat /\ m < Len(s)
  <2>1. s \in Seq(Int) => Len(s) \in Nat
    BY SMT
  <2>2. QED
    BY <2>1, Zenon DEF ReadableAt
<1>4. ValueIs(s, base, Len(s), g)
  BY <1>3, ValueExists, Zenon
<1> HIDE DEF g
<1> DEFINE Next1(h, i) == IF i = 0 THEN 0 ELSE (h[i - 1] * base + s[i]) % N!WordSize
<1>5. \A i \in 0 .. Len(s) : g[i] = Next1(g, i)
  <2>1. g = [i \in 0 .. Len(s) |-> Next1(g, i)]
    BY <1>4, Zenon DEF ValueIs
  <2>2. QED
    BY <2>1, Zenon
<1>6. /\ a[0] = 0 /\ a[m] = value
      /\ \A i \in 0 .. m : a[i] \in 0 .. value
      /\ \A i \in 0 .. m - 1 : a[i + 1] = a[i] * base + s[i + 1]
  BY Zenon DEF ReadableAt
<1>7. ASSUME NEW x \in 0 .. value PROVE x % N!WordSize = x
  <2>1. PICK w \in Nat \ {0} : w = N!WordSize
    BY WordFits, Zenon
  <2>2. value \in 0 .. w - 1
    BY <2>1, Zenon
  <2>3. x = w * 0 + x /\ x \in 0 .. w - 1
    BY <2>2, SMT
  <2>4. x % w = x
    BY <2>3, Divides, SMT
  <2>5. QED
    BY <2>1, <2>4, Zenon
<1> DEFINE Z == {k \in Nat : k <= m => g[k] = a[k]}
<1>8. 0 \in Z
  <2>1. 0 \in Nat /\ 0 \in 0 .. Len(s)
    BY <1>3, SMT
  <2>2. g[0] = 0
    BY <1>5, <2>1, Zenon
  <2>3. QED
    BY <1>6, <2>1, <2>2, Zenon
<1>9. ASSUME NEW k \in Nat, k \in Z PROVE k + 1 \in Z
  <2>1. CASE k + 1 <= m
    <3>1. /\ k \in 0 .. m - 1 /\ k + 1 \in 0 .. m /\ k + 1 \in 0 .. Len(s) /\ k + 1 # 0
          /\ (k + 1) - 1 = k /\ k <= m /\ k + 1 \in Nat
      BY <1>3, <2>1, SMT
    <3>2. g[k + 1] = (g[k] * base + s[k + 1]) % N!WordSize
      <4>1. g[k + 1] = Next1(g, k + 1)
        BY <1>5, <3>1, Zenon
      <4>2. g[(k + 1) - 1] = g[k]
        BY <3>1, Zenon
      <4>3. k + 1 # 0
        BY SMT
      <4>4. g[k + 1] = (g[(k + 1) - 1] * base + s[k + 1]) % N!WordSize
        BY <4>1, <4>3, Zenon
      <4>5. QED
        BY <4>2, <4>4, Zenon
    <3>3. a[k + 1] = a[k] * base + s[k + 1] /\ a[k + 1] \in 0 .. value
      BY <1>6, <3>1, Zenon
    <3>4. g[k] = a[k]
      BY <1>9, <3>1, Zenon
    <3>5. g[k + 1] = a[k + 1]
      BY <1>7, <3>2, <3>3, <3>4, Zenon
    <3>6. QED
      BY <3>1, <3>5, Zenon
  <2>2. CASE ~(k + 1 <= m)
    <3>1. k + 1 \in Nat
      BY SMT
    <3>2. QED
      BY <2>2, <3>1, Zenon
  <2>3. QED
    BY <2>1, <2>2, Zenon
<1> HIDE DEF Z
<1>10. Nat \subseteq Z
  BY <1>8, <1>9, AllNaturals, SMT
<1>11. m <= m
  BY <1>3, SMT
<1>12. g[m] = a[m]
  BY <1>3, <1>10, <1>11, Zenon DEF Z
<1>13. QED
  BY <1>1, <1>2, <1>6, <1>12, Zenon

(* A blank in front that is passed over leaves the number readable. *)
LEMMA BlankPassed ==
  ASSUME NEW s, NEW base \in Nat, NEW value, Readable(s, base, value), Head(s) = N!Space
  PROVE  Readable(Tail(s), base, value)
<1>1. PICK k, m, a : ReadableAt(s, base, value, k, m, a)
  BY Zenon DEF Readable
<1>2. s \in Seq(Int) /\ k \in Nat /\ m \in Nat /\ k < m /\ m < Len(s)
  BY <1>1, Zenon DEF ReadableAt
<1>0. PICK n \in Nat : n = Len(s) /\ m < n
  BY <1>2, SMT
<1>3. /\ \A i \in 0 .. k - 1 : s[i + 1] = N!Space
      /\ \A i \in k .. m - 1 : s[i + 1] \in 0 .. base - 1 /\ a[i + 1] = a[i] * base + s[i + 1]
      /\ s[m + 1] \notin 0 .. base - 1
      /\ a[k] = 0 /\ a[m] = value
      /\ \A i \in k .. m : a[i] \in 0 .. value
  BY <1>1, Zenon DEF ReadableAt
<1>4. k # 0
  <2>1. SUFFICES ASSUME k = 0 PROVE FALSE
    BY Zenon
  <2>2. k \in k .. m - 1 /\ k + 1 = 1 /\ Head(s) = s[1]
    BY <1>2, <2>1, SMT
  <2>3. s[1] \in 0 .. base - 1
    <3>1. s[k + 1] \in 0 .. base - 1
      BY <1>3, <2>2, Zenon
    <3>2. QED
      BY <2>2, <3>1, Zenon
  <2>4. QED
    BY <2>2, <2>3, SMT DEF N!Space
<1> DEFINE t == Tail(s)
           c == [i \in 0 .. m |-> a[i + 1]]
<1>5. /\ t \in Seq(Int) /\ Len(t) = Len(s) - 1 /\ Len(s) \in Nat
      /\ \A i \in 1 .. Len(s) - 1 : t[i] = s[i + 1]
  BY <1>2, SMT
<1>6. \A i \in 0 .. m : c[i] = a[i + 1]
  BY Zenon
<1> HIDE DEF t, c
<1>7. /\ k - 1 \in Nat /\ m - 1 \in Nat /\ k - 1 < m - 1 /\ m - 1 < Len(t)
      /\ k - 1 + 1 = k /\ m - 1 + 1 = m
      /\ k - 1 \in 0 .. m /\ m - 1 \in 0 .. m /\ m \in 1 .. Len(s) - 1
  BY <1>2, <1>4, <1>5, SMT
<1>8. ASSUME NEW i \in 0 .. k - 1 - 1 PROVE t[i + 1] = N!Space
  <2>1. i + 1 \in 0 .. k - 1 /\ i + 1 \in 1 .. Len(s) - 1
    BY <1>0, <1>2, SMT
  <2>2. t[i + 1] = s[(i + 1) + 1]
    BY <1>5, <2>1, Zenon
  <2>3. s[(i + 1) + 1] = N!Space
    BY <1>3, <2>1, Zenon
  <2>4. QED
    BY <2>2, <2>3, Zenon
<1>9. ASSUME NEW i \in k - 1 .. m - 1 - 1
      PROVE  t[i + 1] \in 0 .. base - 1 /\ c[i + 1] = c[i] * base + t[i + 1]
  <2>1. i + 1 \in k .. m - 1 /\ i + 1 \in 1 .. Len(s) - 1 /\ i \in 0 .. m /\ i + 1 \in 0 .. m
    BY <1>0, <1>2, <1>4, SMT
  <2>2. t[i + 1] = s[i + 1 + 1] /\ c[i + 1] = a[i + 1 + 1] /\ c[i] = a[i + 1]
    BY <1>5, <1>6, <2>1, Zenon
  <2>3. /\ s[i + 1 + 1] \in 0 .. base - 1
        /\ a[i + 1 + 1] = a[i + 1] * base + s[i + 1 + 1]
    BY <1>3, <2>1, Zenon
  <2>4. QED
    BY <2>2, <2>3, Zenon
<1>10. t[m - 1 + 1] \notin 0 .. base - 1
  <2>1. t[m] = s[m + 1]
    BY <1>5, <1>7, Zenon
  <2>2. QED
    BY <1>3, <1>7, <2>1, Zenon
<1>11. c[k - 1] = 0 /\ c[m - 1] = value
  <2>1. c[k - 1] = a[k - 1 + 1] /\ c[m - 1] = a[m - 1 + 1]
    BY <1>6, <1>7, Zenon
  <2>2. QED
    BY <1>3, <1>7, <2>1, Zenon
<1>12. ASSUME NEW i \in k - 1 .. m - 1 PROVE c[i] \in 0 .. value
  <2>1. i + 1 \in k .. m /\ i \in 0 .. m
    BY <1>2, <1>4, SMT
  <2>2. QED
    BY <1>3, <1>6, <2>1, Zenon
<1>13. ReadableAt(t, base, value, k - 1, m - 1, c)
  BY <1>5, <1>7, <1>8, <1>9, <1>10, <1>11, <1>12, Zenon DEF ReadableAt
<1>14. QED
  BY <1>13, Zenon DEF Readable, t


LEMMA ReadNow ==
  ASSUME NEW s, NEW base \in Nat, NEW value \in 0 .. N!WordSize - 1,
         Readable(s, base, value), Head(s) # N!Space
  PROVE  N!Value(s, base) = value /\ Head(s) \in 0 .. base - 1
<1>1. PICK k, m, a : ReadableAt(s, base, value, k, m, a)
  BY Zenon DEF Readable
<1>2. s \in Seq(Int) /\ k \in Nat /\ m \in Nat /\ k < m /\ m < Len(s)
  BY <1>1, Zenon DEF ReadableAt
<1>3. Head(s) = s[1] /\ 0 + 1 = 1
  BY <1>2, SMT
<1>4. k = 0
  <2>1. SUFFICES ASSUME k # 0 PROVE FALSE
    BY Zenon
  <2>2. 0 \in 0 .. k - 1
    BY <1>2, <2>1, SMT
  <2>3. s[0 + 1] = N!Space
    BY <1>1, <2>2, Zenon DEF ReadableAt
  <2>4. QED
    BY <1>3, <2>3, Zenon
<1>5. 0 \in k .. m - 1
  BY <1>2, <1>4, SMT
<1>6. s[0 + 1] \in 0 .. base - 1
  BY <1>1, <1>5, Zenon DEF ReadableAt
<1>7. ReadableAt(s, base, value, 0, m, a)
  BY <1>1, <1>4, Zenon
<1>8. QED
  BY <1>3, <1>6, <1>7, ValueRead, Zenon

-----------------------------------------------------------------------------
(* The place of the first digit that is sent, and the characters around it. *)
FirstDigit(digs, places, i) ==
  (i = places \/ digs[i] # 0) /\ \A j \in 1 .. i - 1 : digs[j] = 0
Laid(digs, g, places, al) ==
  (CASE al = "RIGHT" -> N!Pad(N!Space, g - 1)
     [] al = "FILL" -> N!Pad(0, g - 1)
     [] OTHER -> << >>)
  \o SubSeq(digs, g, places)
  \o N!Pad(N!Space, IF al = "LEFT" THEN g - 1 ELSE 0)

LEMMA NumberIs ==
  ASSUME NEW value, NEW base, NEW places, NEW al
  PROVE  N!Number(value, base, places, al) =
           Laid(DigitsOf(value, base, places),
                CHOOSE i \in 1 .. places : FirstDigit(DigitsOf(value, base, places), places, i),
                places, al)
BY Zenon DEF N!Number, Laid, DigitsOf, FirstDigit

LEMMA FirstExists ==
  ASSUME NEW digs, NEW places \in Nat \ {0}
  PROVE  \E i \in 1 .. places : FirstDigit(digs, places, i)
<1>1. SUFFICES ASSUME \A i \in 1 .. places : ~FirstDigit(digs, places, i) PROVE FALSE
  BY Zenon
<1> DEFINE Z == {k \in Nat : k < places => \A j \in 1 .. k : digs[j] = 0}
<1>2. 0 \in Z
  BY SMT
<1>3. ASSUME NEW k \in Nat, k \in Z PROVE k + 1 \in Z
  <2>1. SUFFICES ASSUME k + 1 < places PROVE \A j \in 1 .. k + 1 : digs[j] = 0
    BY SMT
  <2>2. k < places /\ k + 1 \in 1 .. places /\ (k + 1) - 1 = k
    BY <2>1, SMT
  <2>3. \A j \in 1 .. k : digs[j] = 0
    BY <1>3, <2>2, Zenon
  <2>4. digs[k + 1] = 0
    <3>1. \A j \in 1 .. (k + 1) - 1 : digs[j] = 0
      BY <2>2, <2>3, SMT
    <3>2. QED
      BY <1>1, <2>2, <3>1, Zenon DEF FirstDigit
  <2>5. QED
    BY <2>3, <2>4, SMT
<1> HIDE DEF Z
<1>4. Nat \subseteq Z
  BY <1>2, <1>3, AllNaturals, SMT
<1>5. places - 1 \in Nat /\ places - 1 < places /\ places \in 1 .. places
  BY SMT
<1>6. \A j \in 1 .. places - 1 : digs[j] = 0
  BY <1>4, <1>5, Zenon DEF Z
<1>7. QED
  BY <1>1, <1>5, <1>6, Zenon DEF FirstDigit

Leads(digs, base, places, value, b, g) ==
  /\ base \in Nat /\ places \in Nat /\ g \in 1 .. places
  /\ ComeTo(digs, base, places, value, b) /\ FirstDigit(digs, places, g)

LEMMA LeadingZeros ==
  ASSUME NEW digs, NEW base, NEW places, NEW value, NEW b, NEW g,
         Leads(digs, base, places, value, b, g)
  PROVE  \A j \in 0 .. g - 1 : b[j] = 0
<1>0. /\ base \in Nat /\ places \in Nat /\ g \in 1 .. places
      /\ ComeTo(digs, base, places, value, b) /\ FirstDigit(digs, places, g)
  BY Zenon DEF Leads
<1> DEFINE Z == {k \in Nat : k < g => b[k] = 0}
<1>1. 0 \in Z
  <2>1. b[0] = 0 /\ 0 \in Nat
    BY <1>0, SMT DEF ComeTo
  <2>2. QED
    BY <2>1, Zenon
<1>2. ASSUME NEW k \in Nat, k \in Z PROVE k + 1 \in Z
  <2>1. k + 1 \in Nat
    BY SMT
  <2>2. CASE k + 1 < g
    <3>1. k < g /\ k \in 0 .. places - 1 /\ k + 1 \in 1 .. g - 1
      BY <1>0, <2>2, SMT
    <3>2. b[k] = 0 /\ digs[k + 1] = 0
      BY <1>0, <1>2, <3>1, Zenon DEF FirstDigit
    <3>3. b[k + 1] = b[k] * base + digs[k + 1]
      BY <1>0, <3>1, Zenon DEF ComeTo
    <3>4. b[k + 1] = 0 * base + 0
      BY <3>2, <3>3, Zenon
    <3>5. 0 * base + 0 = 0
      BY <1>0, SMT
    <3>6. QED
      BY <2>1, <3>4, <3>5, Zenon
  <2>3. CASE ~(k + 1 < g)
    BY <2>1, <2>3, Zenon
  <2>4. QED
    BY <2>2, <2>3, Zenon
<1> HIDE DEF Z
<1>3. Nat \subseteq Z
  BY <1>1, <1>2, AllNaturals, SMT
<1>4. ASSUME NEW j \in 0 .. g - 1 PROVE b[j] = 0
  <2>1. j \in Nat /\ j < g
    BY <1>0, SMT
  <2>2. QED
    BY <1>3, <2>1, Zenon DEF Z
<1>5. QED
  BY <1>4, Zenon

(* A number with h zeros in front of its e digits: n characters before them *)
(* and l behind.                                                            *)
Shape(s, digs, h, e, n, l, al) ==
  /\ s \in Seq(Int) /\ Len(s) = n + e + l
  /\ n = (IF al \in {"RIGHT", "FILL"} THEN h ELSE 0)
  /\ l = (IF al = "LEFT" THEN h ELSE 0)
  /\ \A i \in 1 .. n : s[i] = IF al = "RIGHT" THEN N!Space ELSE 0
  /\ \A i \in 1 .. e : s[n + i] = digs[h + i]
  /\ \A i \in 1 .. l : s[n + e + i] = N!Space

LEMMA Padded ==
  ASSUME NEW c \in Int, NEW n \in Nat
  PROVE  /\ N!Pad(c, n) \in Seq(Int) /\ Len(N!Pad(c, n)) = n
         /\ \A i \in 1 .. n : N!Pad(c, n)[i] = c
BY SMT DEF N!Pad

LEMMA LaidShape ==
  ASSUME NEW base \in Nat, NEW h \in Nat, NEW e \in Nat \ {0},
         NEW digs \in [1 .. h + e -> 0 .. base - 1], NEW al \in N!Alignments
  PROVE  \E n, l \in Nat : Shape(Laid(digs, h + 1, h + e, al), digs, h, e, n, l, al)
<1> DEFINE n == IF al \in {"RIGHT", "FILL"} THEN h ELSE 0
           l == IF al = "LEFT" THEN h ELSE 0
           p == CASE al = "RIGHT" -> N!Pad(N!Space, (h + 1) - 1)
                  [] al = "FILL" -> N!Pad(0, (h + 1) - 1)
                  [] OTHER -> << >>
           q == SubSeq(digs, h + 1, h + e)
           r == N!Pad(N!Space, IF al = "LEFT" THEN (h + 1) - 1 ELSE 0)
           u == p \o q
           s == u \o r
<1>1. /\ (h + 1) - 1 = h /\ n \in Nat /\ l \in Nat /\ 0 \in Int /\ N!Space \in Int /\ 0 \in Nat
      /\ "RIGHT" # "FILL"
  BY SMT DEF N!Space
<1>2. s = Laid(digs, h + 1, h + e, al)
  BY Zenon DEF Laid
<1>3. /\ n = (IF al \in {"RIGHT", "FILL"} THEN h ELSE 0)
      /\ l = (IF al = "LEFT" THEN h ELSE 0)
  BY Zenon
<1>4. al = "RIGHT" => p = N!Pad(N!Space, h) /\ n = h
  BY <1>1, Zenon
<1>5. al = "FILL" => p = N!Pad(0, h) /\ n = h
  BY <1>1, Zenon
<1>6. al \notin {"RIGHT", "FILL"} => p = << >> /\ n = 0
  BY Zenon
<1>7. r = N!Pad(N!Space, l)
  BY <1>1, Zenon
<1> HIDE DEF n, l, p, q, r, u, s
<1>8. p \in Seq(Int) /\ Len(p) = n /\ \A i \in 1 .. n : p[i] = IF al = "RIGHT" THEN N!Space ELSE 0
  <2>1. CASE al = "RIGHT"
    BY <1>1, <1>4, <2>1, Padded, Zenon
  <2>2. CASE al = "FILL"
    <3>1. al # "RIGHT"
      BY <1>1, <2>2, Zenon
    <3>2. /\ N!Pad(0, h) \in Seq(Int) /\ Len(N!Pad(0, h)) = h
          /\ \A i \in 1 .. h : N!Pad(0, h)[i] = 0
      BY <1>1, Padded, Zenon
    <3>3. QED
      BY <1>5, <2>2, <3>1, <3>2, Zenon
  <2>3. CASE al \notin {"RIGHT", "FILL"}
    <3>1. p \in Seq(Int) /\ Len(p) = 0 /\ n = 0
      BY <1>6, <2>3, SMT
    <3>2. QED
      BY <3>1, SMT
  <2>4. QED
    BY <2>1, <2>2, <2>3, Zenon
<1>9. q \in Seq(Int) /\ Len(q) = e /\ \A i \in 1 .. e : q[i] = digs[h + i]
  <2>1. digs \in Seq(Int) /\ Len(digs) = h + e
    BY SMT
  <2>2. h + 1 \in 1 .. Len(digs) + 1 /\ h + e \in h .. Len(digs)
    BY <2>1, SMT
  <2>3. QED
    BY <2>1, <2>2, SMTT(20) DEF q
<1>10. r \in Seq(Int) /\ Len(r) = l /\ \A i \in 1 .. l : r[i] = N!Space
  BY <1>1, <1>7, Padded, Zenon
<1>11. /\ s \in Seq(Int) /\ Len(s) = n + e + l
       /\ \A i \in 1 .. n : s[i] = p[i]
       /\ \A i \in 1 .. e : s[n + i] = q[i]
       /\ \A i \in 1 .. l : s[n + e + i] = r[i]
  <2>1. /\ u \in Seq(Int) /\ Len(u) = n + e
        /\ \A i \in 1 .. n + e : u[i] = IF i <= n THEN p[i] ELSE q[i - n]
    <3>1. /\ p \o q \in Seq(Int) /\ Len(p \o q) = Len(p) + Len(q)
          /\ \A i \in 1 .. Len(p) + Len(q) :
               (p \o q)[i] = IF i <= Len(p) THEN p[i] ELSE q[i - Len(p)]
      <4>1. p \in Seq(Int) /\ q \in Seq(Int)
        BY <1>8, <1>9, Zenon
      <4>2. QED
        BY ONLY <4>1, ConcatProperties, Zenon
    <3>2. Len(p) = n /\ Len(q) = e
      BY <1>8, <1>9, Zenon
    <3>3. QED
      BY <3>1, <3>2, Zenon DEF u
  <2>2. /\ s \in Seq(Int) /\ Len(s) = n + e + l
        /\ \A i \in 1 .. n + e + l : s[i] = IF i <= n + e THEN u[i] ELSE r[i - (n + e)]
    <3>1. /\ u \o r \in Seq(Int) /\ Len(u \o r) = Len(u) + Len(r)
          /\ \A i \in 1 .. Len(u) + Len(r) :
               (u \o r)[i] = IF i <= Len(u) THEN u[i] ELSE r[i - Len(u)]
      <4>1. u \in Seq(Int) /\ r \in Seq(Int)
        BY <1>10, <2>1, Zenon
      <4>2. QED
        BY ONLY <4>1, ConcatProperties, Zenon
    <3>2. Len(u) = n + e /\ Len(r) = l
      BY <1>10, <2>1, Zenon
    <3>3. QED
      BY <3>1, <3>2, Zenon DEF s
  <2>3. ASSUME NEW i \in 1 .. n PROVE s[i] = p[i]
    <3>1. i \in 1 .. n + e /\ i \in 1 .. n + e + l /\ i <= n + e /\ i <= n
      BY <1>1, SMT
    <3>2. QED
      BY <2>1, <2>2, <3>1, Zenon
  <2>4. ASSUME NEW i \in 1 .. e PROVE s[n + i] = q[i]
    <3>1. /\ n + i \in 1 .. n + e /\ n + i \in 1 .. n + e + l /\ n + i <= n + e /\ ~(n + i <= n)
          /\ (n + i) - n = i
      BY <1>1, SMT
    <3>2. s[n + i] = u[n + i] /\ u[n + i] = q[(n + i) - n]
      BY <2>1, <2>2, <3>1, Zenon
    <3>3. QED
      BY <3>1, <3>2, Zenon
  <2>5. ASSUME NEW i \in 1 .. l PROVE s[n + e + i] = r[i]
    <3>1. /\ n + e + i \in 1 .. n + e + l /\ ~(n + e + i <= n + e)
          /\ (n + e + i) - (n + e) = i
      BY <1>1, SMT
    <3>2. s[n + e + i] = r[(n + e + i) - (n + e)]
      BY <2>2, <3>1, Zenon
    <3>3. QED
      BY <3>1, <3>2, Zenon
  <2>6. QED
    BY <2>2, <2>3, <2>4, <2>5, Zenon
<1>12. Shape(s, digs, h, e, n, l, al)
  BY <1>3, <1>8, <1>9, <1>10, <1>11, Zenon DEF Shape
<1>13. QED
  BY <1>1, <1>2, <1>12, Zenon

(* A number as it is written, and what ends it, is readable. *)
LEMMA LaidReads ==
  ASSUME NEW base \in Nat \ {0}, NEW h \in Nat, NEW e \in Nat \ {0}, NEW value \in Nat,
         NEW digs \in [1 .. h + e -> 0 .. base - 1], NEW al \in N!Alignments, NEW b,
         ComeTo(digs, base, h + e, value, b), \A j \in 0 .. h : b[j] = 0,
         NEW s, NEW n \in Nat, NEW l \in Nat, Shape(s, digs, h, e, n, l, al)
  PROVE  \E a : ReadableAt(Append(s, N!End), base, value, IF al = "RIGHT" THEN n ELSE 0,
                           n + e, a)
<1> DEFINE t == Append(s, N!End)
           m == n + e
           a == [i \in 0 .. m |-> IF i < n THEN 0 ELSE b[(i - n) + h]]
<1>1. s \in Seq(Int) /\ Len(s) = n + e + l
  BY Zenon DEF Shape
<1>2. /\ \A i \in 1 .. n : s[i] = IF al = "RIGHT" THEN N!Space ELSE 0
      /\ \A i \in 1 .. e : s[n + i] = digs[h + i]
      /\ \A i \in 1 .. l : s[n + e + i] = N!Space
      /\ n = (IF al \in {"RIGHT", "FILL"} THEN h ELSE 0)
  BY Zenon DEF Shape
<1>3. /\ t \in Seq(Int) /\ Len(t) = n + e + l + 1 /\ t[n + e + l + 1] = N!End
      /\ \A i \in 1 .. n + e + l : t[i] = s[i]
  <2>1. N!End \in Int
    BY SMT DEF N!End
  <2>2. QED
    <3>1. /\ t \in Seq(Int) /\ Len(t) = Len(s) + 1 /\ t[Len(s) + 1] = N!End
          /\ \A i \in 1 .. Len(s) : t[i] = s[i]
      <4>1. s \in Seq(Int)
        BY <1>1, Zenon
      <4>2. QED
        BY ONLY <2>1, <4>1, AppendProperties, SMT
    <3>2. QED
      BY <1>1, <3>1, Zenon
<1>4. m \in Nat /\ n < m /\ m < n + e + l + 1 /\ m = n + e /\ 0 < m
  BY SMT
<1>5. /\ a = [i \in 0 .. m |-> a[i]]
      /\ \A i \in 0 .. m : a[i] = IF i < n THEN 0 ELSE b[(i - n) + h]
  BY Zenon
<1> HIDE DEF t, m, a
<1>6. \A i \in 0 .. n - 1 : t[i + 1] = IF al = "RIGHT" THEN N!Space ELSE 0
  <2> SUFFICES ASSUME NEW i \in 0 .. n - 1
               PROVE  t[i + 1] = IF al = "RIGHT" THEN N!Space ELSE 0
    BY Zenon
  <2>1. i + 1 \in 1 .. n /\ i + 1 \in 1 .. n + e + l
    BY SMT
  <2>2. QED
    BY <1>2, <1>3, <2>1, Zenon
<1>7. \A i \in n .. m - 1 : t[i + 1] = digs[((i - n) + h) + 1]
  <2> SUFFICES ASSUME NEW i \in n .. m - 1 PROVE t[i + 1] = digs[((i - n) + h) + 1]
    BY Zenon
  <2>1. PICK j \in 1 .. e : i + 1 = n + j /\ h + j = ((i - n) + h) + 1
    <3>1. (i - n) + 1 \in 1 .. e
      BY <1>4, SMT
    <3>2. i + 1 = n + ((i - n) + 1) /\ h + ((i - n) + 1) = ((i - n) + h) + 1
      BY SMT
    <3>3. QED
      BY <3>1, <3>2, Zenon
  <2>2. n + j \in 1 .. n + e + l
    BY SMT
  <2>3. t[n + j] = digs[h + j]
    BY <1>2, <1>3, <2>2, Zenon
  <2>4. QED
    BY <2>1, <2>3, Zenon
<1>8. t[m + 1] \in {N!Space, N!End}
  <2>1. CASE l = 0
    <3>1. m + 1 = n + e + l + 1
      BY <1>4, <2>1, SMT
    <3>2. QED
      BY <1>3, <3>1, Zenon
  <2>2. CASE l # 0
    <3>1. 1 \in 1 .. l /\ n + e + 1 \in 1 .. n + e + l /\ m + 1 = n + e + 1
      BY <1>4, <2>2, SMT
    <3>2. QED
      BY <1>2, <1>3, <3>1, Zenon
  <2>3. QED
    BY <2>1, <2>2, Zenon
<1>9. t[m + 1] \notin 0 .. base - 1
  BY <1>8, SMT DEF N!Space, N!End
<1>10. /\ b[h + e] = value
       /\ \A i \in 0 .. h + e : b[i] \in 0 .. value
       /\ \A i \in 0 .. (h + e) - 1 :
            digs[i + 1] \in 0 .. base - 1 /\ b[i + 1] = b[i] * base + digs[i + 1]
  BY Zenon DEF ComeTo
<1>11. ASSUME NEW i \in 0 .. n PROVE a[i] = 0
  <2>1. i \in 0 .. m
    BY <1>4, SMT
  <2>2. CASE i < n
    BY <1>5, <2>1, <2>2, Zenon
  <2>3. CASE ~(i < n)
    <3>1. (i - n) + h = h /\ h \in 0 .. h
      BY <2>3, SMT
    <3>2. a[i] = b[(i - n) + h]
      BY <1>5, <2>1, <2>3, Zenon
    <3>3. QED
      BY <3>1, <3>2, Zenon
  <2>4. QED
    BY <2>2, <2>3, Zenon
<1>12. a[m] = value
  <2>1. m \in 0 .. m /\ ~(m < n) /\ (m - n) + h = h + e
    BY <1>4, SMT
  <2>2. a[m] = b[(m - n) + h]
    BY <1>5, <2>1, Zenon
  <2>3. QED
    BY <1>10, <2>1, <2>2, Zenon
<1>13. ASSUME NEW i \in 0 .. m PROVE a[i] \in 0 .. value
  <2>1. CASE i < n
    <3>1. a[i] = 0 /\ 0 \in 0 .. value
      <4>1. 0 \in 0 .. value
        BY SMT
      <4>2. QED
        BY <1>5, <2>1, <4>1, Zenon
    <3>2. QED
      BY <3>1, Zenon
  <2>2. CASE ~(i < n)
    <3>1. (i - n) + h \in 0 .. h + e
      BY <1>4, <2>2, SMT
    <3>2. QED
      BY <1>5, <1>10, <2>2, <3>1, Zenon
  <2>3. QED
    BY <2>1, <2>2, Zenon
<1>14. ASSUME NEW i \in n .. m - 1
       PROVE  t[i + 1] \in 0 .. base - 1 /\ a[i + 1] = a[i] * base + t[i + 1]
  <2>1. PICK j \in 0 .. (h + e) - 1 : j = (i - n) + h /\ j + 1 = ((i + 1) - n) + h
    <3>1. (i - n) + h \in 0 .. (h + e) - 1 /\ ((i - n) + h) + 1 = ((i + 1) - n) + h
      BY <1>4, SMT
    <3>2. QED
      BY <3>1, Zenon
  <2>2. i \in 0 .. m /\ i + 1 \in 0 .. m /\ ~(i < n) /\ ~(i + 1 < n)
    BY <1>4, SMT
  <2>3. a[i] = b[j]
    BY <1>5, <2>1, <2>2, Zenon
  <2>4. a[i + 1] = b[j + 1]
    <3>1. a[i + 1] = b[((i + 1) - n) + h]
      BY <1>5, <2>2, Zenon
    <3>2. QED
      BY <2>1, <3>1, Zenon
  <2>5. t[i + 1] = digs[j + 1]
    <3>1. t[i + 1] = digs[((i - n) + h) + 1]
      BY <1>7, Zenon
    <3>2. QED
      BY <2>1, <3>1, Zenon
  <2>6. digs[j + 1] \in 0 .. base - 1 /\ b[j + 1] = b[j] * base + digs[j + 1]
    BY <1>10, Zenon
  <2>7. QED
    BY <2>3, <2>4, <2>5, <2>6, Zenon
<1>15. CASE al = "RIGHT"
  <2>1. \A i \in 0 .. n - 1 : t[i + 1] = N!Space
    BY <1>6, <1>15, Zenon
  <2>2. ASSUME NEW i \in n .. m PROVE a[i] \in 0 .. value
    <3>1. i \in 0 .. m
      BY SMT
    <3>2. QED
      BY <1>13, <3>1, Zenon
  <2>3. n \in 0 .. n
    BY SMT
  <2>4. a[n] = 0
    BY <1>11, <2>3, Zenon
  <2>5. m < Len(t)
    BY <1>3, <1>4, Zenon
  <2>6. ReadableAt(t, base, value, n, m, a)
    BY <1>3, <1>4, <1>9, <1>12, <1>14, <2>1, <2>2, <2>4, <2>5, Zenon DEF ReadableAt
  <2>7. QED
    BY <1>15, <2>6, Zenon DEF t, m
<1>16. CASE al # "RIGHT"
  <2>1. ASSUME NEW i \in 0 .. 0 - 1 PROVE t[i + 1] = N!Space
    BY SMT
  <2>2. ASSUME NEW i \in 0 .. m - 1
        PROVE  t[i + 1] \in 0 .. base - 1 /\ a[i + 1] = a[i] * base + t[i + 1]
    <3>1. CASE i < n
      <4>1. i \in 0 .. n - 1 /\ i \in 0 .. n /\ i + 1 \in 0 .. n
        BY <3>1, SMT
      <4>2. t[i + 1] = 0 /\ a[i] = 0 /\ a[i + 1] = 0
        BY <1>6, <1>11, <1>16, <4>1, Zenon
      <4>3. 0 \in 0 .. base - 1 /\ 0 * base + 0 = 0
        BY SMT
      <4>4. QED
        BY <4>2, <4>3, Zenon
    <3>2. CASE ~(i < n)
      <4>1. i \in n .. m - 1
        BY <3>2, SMT
      <4>2. QED
        BY <1>14, <4>1, Zenon
    <3>3. QED
      BY <3>1, <3>2, Zenon
  <2>3. 0 \in 0 .. n /\ 0 \in Nat
    BY SMT
  <2>4. a[0] = 0
    BY <1>11, <2>3, Zenon
  <2>5. m < Len(t)
    BY <1>3, <1>4, Zenon
  <2>6. ReadableAt(t, base, value, 0, m, a)
    BY <1>3, <1>4, <1>9, <1>12, <1>13, <2>1, <2>2, <2>3, <2>4, <2>5, Zenon DEF ReadableAt
  <2>7. QED
    BY <1>16, <2>6, Zenon DEF t, m
<1>17. QED
  BY <1>15, <1>16, Zenon

(* What the writers put on the stream for a value, without the sign. *)
Writes(s, base, places, value, al) ==
  /\ s \in Seq(Int) /\ (al # "COMPACT" => Len(s) = places)
  /\ Readable(Append(s, N!End), base, value)
  /\ al # "RIGHT" => \E m, a : ReadableAt(Append(s, N!End), base, value, 0, m, a)

LEMMA NumberWrites ==
  ASSUME NEW value \in 0 .. N!WordSize - 1, NEW base, NEW places,
         (base = 10 /\ places = 5) \/ (base = 16 /\ places = 4), NEW al \in N!Alignments
  PROVE  Writes(N!Number(value, base, places, al), base, places, value, al)
<1> DEFINE digs == DigitsOf(value, base, places)
           g    == CHOOSE i \in 1 .. places : FirstDigit(digs, places, i)
<1>1. PICK b : ComeTo(digs, base, places, value, b)
  BY AnyDigits, Zenon
<1>2. base \in Nat \ {0} /\ places \in Nat \ {0}
  BY SMT
<1>3. value \in Nat
  <2>1. PICK w \in Nat : w = N!WordSize
    BY WordFits, Zenon
  <2>2. value \in 0 .. w - 1
    BY <2>1, Zenon
  <2>3. QED
    BY <2>2, SMT
<1>4. g \in 1 .. places /\ FirstDigit(digs, places, g)
  <2>1. \E i \in 1 .. places : FirstDigit(digs, places, i)
    BY <1>2, FirstExists, Zenon
  <2>2. QED
    BY <2>1, Zenon
<1>5. N!Number(value, base, places, al) = Laid(digs, g, places, al)
  BY NumberIs, Zenon
<1>6. digs = [i \in 1 .. places |-> digs[i]]
  BY Zenon DEF DigitsOf
<1> HIDE DEF digs, g
<1>7. PICK h \in Nat, e \in Nat \ {0} : g = h + 1 /\ places = h + e /\ g - 1 = h
  <2>1. /\ g - 1 \in Nat /\ places - (g - 1) \in Nat \ {0} /\ g = (g - 1) + 1
        /\ places = (g - 1) + (places - (g - 1))
    BY <1>2, <1>4, SMT
  <2>2. QED
    BY <2>1, Zenon
<1>8. digs \in [1 .. h + e -> 0 .. base - 1]
  <2>1. ASSUME NEW i \in 1 .. places PROVE digs[i] \in 0 .. base - 1
    <3>1. i - 1 \in 0 .. places - 1 /\ (i - 1) + 1 = i
      BY <1>2, SMT
    <3>2. digs[(i - 1) + 1] \in 0 .. base - 1
      BY <1>1, <3>1, Zenon DEF ComeTo
    <3>3. QED
      BY <3>1, <3>2, Zenon
  <2>2. digs \in [1 .. places -> 0 .. base - 1]
    BY <1>6, <2>1, Zenon
  <2>3. QED
    BY <1>7, <2>2, Zenon
<1>9. \A j \in 0 .. h : b[j] = 0
  <2>1. \A j \in 0 .. g - 1 : b[j] = 0
    <3>1. base \in Nat /\ places \in Nat
      BY <1>2, Zenon
    <3>2. Leads(digs, base, places, value, b, g)
      BY <1>1, <1>4, <3>1, Zenon DEF Leads
    <3>3. QED
      BY ONLY <3>2, LeadingZeros, Zenon
  <2>2. QED
    BY <1>7, <2>1, Zenon
<1> DEFINE s == Laid(digs, h + 1, h + e, al)
<1>10. PICK n \in Nat, l \in Nat : Shape(s, digs, h, e, n, l, al)
  BY <1>2, <1>8, LaidShape, Zenon
<1>11. s = N!Number(value, base, places, al)
  BY <1>5, <1>7, Zenon
<1> HIDE DEF s
<1>12. PICK a : ReadableAt(Append(s, N!End), base, value, IF al = "RIGHT" THEN n ELSE 0, n + e, a)
  <2>1. ComeTo(digs, base, h + e, value, b)
    BY <1>1, <1>7, Zenon
  <2>2. QED
    BY <1>2, <1>3, <1>8, <1>9, <1>10, <2>1, LaidReads, Zenon
<1>13. Readable(Append(s, N!End), base, value)
  BY <1>12, Zenon DEF Readable
<1>14. al # "RIGHT" => \E m, c : ReadableAt(Append(s, N!End), base, value, 0, m, c)
  BY <1>12, Zenon
<1>15. s \in Seq(Int)
  BY <1>10, Zenon DEF Shape
<1>16. al # "COMPACT" => Len(s) = places
  <2>1. /\ Len(s) = n + e + l /\ n = (IF al \in {"RIGHT", "FILL"} THEN h ELSE 0)
        /\ l = (IF al = "LEFT" THEN h ELSE 0)
    BY <1>10, Zenon DEF Shape
  <2>2. al # "COMPACT" => al = "RIGHT" \/ al = "FILL" \/ al = "LEFT"
    BY Zenon DEF N!Alignments
  <2>3. QED
    BY <1>7, <2>1, <2>2, SMT
<1>17. Writes(s, base, places, value, al)
  BY <1>13, <1>14, <1>15, <1>16, Zenon DEF Writes
<1>18. QED
  BY <1>11, <1>17, Zenon

LEMMA WrittenBehind ==
  ASSUME NEW s \in Seq(Int), NEW p \in Seq(Int), NEW base \in Nat, NEW value,
         \A i \in 1 .. Len(p) : p[i] = N!Space, Readable(Append(s, N!End), base, value)
  PROVE  Readable(Append(p \o s, N!End), base, value)
<1> DEFINE t == Append(s, N!End)
           u == Append(p \o s, N!End)
<1>1. PICK k, m, a : ReadableAt(t, base, value, k, m, a)
  BY Zenon DEF Readable
<1>2. t \in Seq(Int) /\ k \in Nat /\ m \in Nat /\ k < m /\ m < Len(t)
  BY <1>1, Zenon DEF ReadableAt
<1>3. /\ \A i \in 0 .. k - 1 : t[i + 1] = N!Space
      /\ \A i \in k .. m - 1 : t[i + 1] \in 0 .. base - 1 /\ a[i + 1] = a[i] * base + t[i + 1]
      /\ t[m + 1] \notin 0 .. base - 1
      /\ a[k] = 0 /\ a[m] = value
      /\ \A i \in k .. m : a[i] \in 0 .. value
  BY <1>1, Zenon DEF ReadableAt
<1>4. PICK n \in Nat, o \in Nat : n = Len(p) /\ o = Len(s)
  BY SMT
<1>5. N!End \in Int
  BY SMT DEF N!End
<1>6. /\ t \in Seq(Int) /\ Len(t) = o + 1
      /\ \A i \in 1 .. o + 1 : t[i] = IF i <= o THEN s[i] ELSE N!End
  BY <1>4, <1>5, SMT
<1>7. /\ u \in Seq(Int) /\ Len(u) = n + o + 1
      /\ \A i \in 1 .. n + o + 1 :
           u[i] = IF i <= n THEN p[i] ELSE IF i <= n + o THEN s[i - n] ELSE N!End
  <2>1. /\ p \o s \in Seq(Int) /\ Len(p \o s) = Len(p) + Len(s)
        /\ \A i \in 1 .. Len(p) + Len(s) :
             (p \o s)[i] = IF i <= Len(p) THEN p[i] ELSE s[i - Len(p)]
    BY ConcatProperties, Zenon
  <2> DEFINE v == p \o s
  <2>2. /\ v \in Seq(Int) /\ Len(v) = n + o
        /\ \A i \in 1 .. n + o : v[i] = IF i <= n THEN p[i] ELSE s[i - n]
    BY <1>4, <2>1, Zenon
  <2> HIDE DEF v
  <2>3. u = Append(v, N!End)
    BY Zenon DEF v
  <2>4. /\ u \in Seq(Int) /\ Len(u) = n + o + 1
        /\ \A i \in 1 .. n + o + 1 : u[i] = IF i <= n + o THEN v[i] ELSE N!End
    BY <1>4, <1>5, <2>2, <2>3, SMT
  <2>5. ASSUME NEW i \in 1 .. n + o + 1
        PROVE  u[i] = IF i <= n THEN p[i] ELSE IF i <= n + o THEN s[i - n] ELSE N!End
    <3>1. CASE i <= n
      <4>1. i \in 1 .. n + o /\ i <= n + o
        BY <3>1, SMT
      <4>2. QED
        BY <2>2, <2>4, <3>1, <4>1, Zenon
    <3>2. CASE ~(i <= n) /\ i <= n + o
      <4>1. i \in 1 .. n + o
        BY <3>2, SMT
      <4>2. QED
        BY <2>2, <2>4, <3>2, <4>1, Zenon
    <3>3. CASE ~(i <= n) /\ ~(i <= n + o)
      BY <2>4, <3>3, Zenon
    <3>4. QED
      BY <3>1, <3>2, <3>3, Zenon
  <2>6. QED
    BY <2>4, <2>5, Zenon
<1> DEFINE c == [i \in 0 .. n + m |-> IF i < n THEN 0 ELSE a[i - n]]
<1>8. \A i \in 0 .. n + m : c[i] = IF i < n THEN 0 ELSE a[i - n]
  BY Zenon
<1> HIDE DEF t, u, c
<1>9. m <= o /\ k + n \in Nat /\ m + n \in Nat /\ k + n < m + n /\ m + n < Len(u)
  <2>1. k \in Nat /\ m \in Nat /\ k < m /\ m < o + 1
    BY <1>2, <1>6, Zenon
  <2>2. m <= o /\ k + n \in Nat /\ m + n \in Nat /\ k + n < m + n /\ m + n < n + o + 1
    BY <2>1, SMT
  <2>3. QED
    BY <1>7, <2>2, Zenon
<1>10. ASSUME NEW i \in 0 .. m PROVE u[(n + i) + 1] = t[i + 1]
  <2>1. /\ (n + i) + 1 \in 1 .. n + o + 1 /\ i + 1 \in 1 .. o + 1 /\ ~((n + i) + 1 <= n)
        /\ (i + 1 <= o <=> (n + i) + 1 <= n + o) /\ ((n + i) + 1) - n = i + 1
    <3>1. m \in Nat /\ m <= o
      BY <1>2, <1>9, Zenon
    <3>2. QED
      BY <3>1, SMT
  <2>2. u[(n + i) + 1] = IF (n + i) + 1 <= n + o THEN s[((n + i) + 1) - n] ELSE N!End
    BY <1>7, <2>1, Zenon
  <2>3. t[i + 1] = IF i + 1 <= o THEN s[i + 1] ELSE N!End
    BY <1>6, <2>1, Zenon
  <2>4. CASE i + 1 <= o
    <3>1. u[(n + i) + 1] = s[((n + i) + 1) - n] /\ t[i + 1] = s[i + 1]
      BY <2>1, <2>2, <2>3, <2>4, Zenon
    <3>2. QED
      BY <2>1, <3>1, Zenon
  <2>5. CASE ~(i + 1 <= o)
    BY <2>1, <2>2, <2>3, <2>5, Zenon
  <2>6. QED
    BY <2>4, <2>5, Zenon
<1>11. ASSUME NEW i \in 0 .. m PROVE c[n + i] = a[i]
  <2>1. n + i \in 0 .. n + m /\ ~(n + i < n) /\ (n + i) - n = i
    BY <1>2, <1>4, SMT
  <2>2. c[n + i] = a[(n + i) - n]
    BY <1>8, <2>1, Zenon
  <2>3. QED
    BY <2>1, <2>2, Zenon
<1>12. ASSUME NEW i \in 0 .. (k + n) - 1 PROVE u[i + 1] = N!Space
  <2>1. CASE i < n
    <3>1. i + 1 \in 1 .. n + o + 1 /\ i + 1 <= n /\ i + 1 \in 1 .. n
      BY <1>4, <2>1, SMT
    <3>2. QED
      BY <1>4, <1>7, <3>1, Zenon
  <2>2. CASE ~(i < n)
    <3>1. PICK j \in 0 .. k - 1 : i = n + j /\ j \in 0 .. m
      <4>1. i - n \in 0 .. k - 1 /\ i = n + (i - n) /\ i - n \in 0 .. m
        BY <1>2, <1>4, <2>2, SMT
      <4>2. QED
        BY <4>1, Zenon
    <3>2. QED
      BY <1>3, <1>10, <3>1, Zenon
  <2>3. QED
    BY <2>1, <2>2, Zenon
<1>13. ASSUME NEW i \in k + n .. (m + n) - 1
       PROVE  u[i + 1] \in 0 .. base - 1 /\ c[i + 1] = c[i] * base + u[i + 1]
  <2>1. PICK j \in k .. m - 1 : i = n + j /\ j \in 0 .. m /\ j + 1 \in 0 .. m
    <3>1. i - n \in k .. m - 1 /\ i = n + (i - n) /\ i - n \in 0 .. m /\ (i - n) + 1 \in 0 .. m
      BY <1>2, <1>4, SMT
    <3>2. QED
      BY <3>1, Zenon
  <2>2. i + 1 = n + (j + 1)
    BY <1>2, <1>4, <2>1, SMT
  <2>3. u[i + 1] = t[j + 1] /\ c[i] = a[j]
    BY <1>10, <1>11, <2>1, Zenon
  <2>4. c[i + 1] = a[j + 1]
    BY <1>11, <2>1, <2>2, Zenon
  <2>5. t[j + 1] \in 0 .. base - 1 /\ a[j + 1] = a[j] * base + t[j + 1]
    BY <1>3, Zenon
  <2>6. QED
    BY <2>3, <2>4, <2>5, Zenon
<1>14. m \in 0 .. m /\ k \in 0 .. m /\ m + n = n + m /\ k + n = n + k
  BY <1>2, <1>4, SMT
<1>15. u[(m + n) + 1] \notin 0 .. base - 1 /\ c[k + n] = 0 /\ c[m + n] = value
  BY <1>3, <1>10, <1>11, <1>14, Zenon
<1>16. ASSUME NEW i \in k + n .. m + n PROVE c[i] \in 0 .. value
  <2>1. PICK j \in k .. m : i = n + j /\ j \in 0 .. m
    <3>1. i - n \in k .. m /\ i = n + (i - n) /\ i - n \in 0 .. m
      BY <1>2, <1>4, SMT
    <3>2. QED
      BY <3>1, Zenon
  <2>2. QED
    BY <1>3, <1>11, <2>1, Zenon
<1>17. ReadableAt(u, base, value, k + n, m + n, c)
  BY <1>7, <1>9, <1>12, <1>13, <1>15, <1>16, Zenon DEF ReadableAt
<1>18. QED
  BY <1>17, Zenon DEF Readable, u

-----------------------------------------------------------------------------
(* A number below zero, of which the sign and the magnitude are sent. *)
Negative(k, v) == k = "int" /\ N!Signed(v) < 0

LEMMA Magnitude ==
  ASSUME NEW v \in 0 .. N!WordSize - 1, N!Signed(v) < 0
  PROVE  /\ (-N!Signed(v)) % N!WordSize = N!WordSize - v
         /\ N!WordSize - v \in 0 .. N!WordSize - 1
         /\ (-(N!WordSize - v)) % N!WordSize = v
<1>1. PICK w \in Nat \ {0}, f \in Nat \ {0} : w = N!WordSize /\ f = N!WordSize \div 2
  BY WordFits, Zenon
<1>2. v \in 0 .. w - 1
  BY <1>1, Zenon
<1>3. N!Signed(v) = IF v >= f THEN v - w ELSE v
  BY <1>1, Zenon DEF N!Signed
<1>4. v >= f
  BY <1>2, <1>3, SMT
<1>5. N!Signed(v) = v - w
  BY <1>3, <1>4, Zenon
<1>6. /\ -(v - w) = w * 0 + (w - v) /\ w - v \in 0 .. w - 1
      /\ -(w - v) = w * (-1) + v /\ -(v - w) \in Int /\ -(w - v) \in Int /\ -1 \in Int /\ 0 \in Int
  BY <1>2, <1>4, SMT
<1>7. (-(v - w)) % w = w - v
  BY ONLY <1>1, <1>6, Divides, SMT
<1>8. (-(w - v)) % w = v
  BY ONLY <1>1, <1>2, <1>6, Divides, SMT
<1>9. QED
  BY <1>1, <1>5, <1>6, <1>7, <1>8, Zenon

(* Text that gives a number back to the reader of its kind. *)
Text(s, k, v) ==
  IF Negative(k, v)
  THEN /\ s # << >> /\ Head(s) = N!Minus
       /\ \E m, a : ReadableAt(Tail(s), 10, N!WordSize - v, 0, m, a)
  ELSE Readable(s, IF k = "hex" THEN 16 ELSE 10, v)

(* The invariant of the numbers: what was sent has its width, what is on    *)
(* its way reads as what was sent, and so does what was read, but for the   *)
(* blanks behind a sign.                                                    *)
Garbled(x) == Negative(x.kind, x.value) /\ x.alignment = "RIGHT"
WidthKept(x) ==
  \/ x.alignment = "COMPACT"
  \/ x.width = (CASE x.kind = "hex" -> 4 [] x.kind = "unsigned" -> 5 [] x.kind = "int" -> 6)
Sent(x) == x.kind \in N!Kinds /\ x.value \in Values
FormatInv ==
  /\ sent # None => WidthKept(sent)
  /\ got # None => Sent(sent) /\ (got = sent.value \/ Garbled(sent))
  /\ text # << >> =>
       Sent(sent) /\ (Garbled(sent) \/ got # None \/ Text(text, sent.kind, sent.value))

LEMMA NumberSent ==
  ASSUME NEW k \in N!Kinds, NEW v \in Values, NEW al \in N!Alignments, NEW c,
         N!Send(k, v, al, c),
         al = "COMPACT" \/ Len(c) = (CASE k = "hex" -> 4 [] k = "unsigned" -> 5 [] k = "int" -> 6),
         (Negative(k, v) /\ al = "RIGHT") \/ Text(Append(c, N!End), k, v)
  PROVE  FormatInv'
<1> DEFINE x == [kind |-> k, value |-> v, alignment |-> al, width |-> Len(c)]
<1>1. text' = Append(c, N!End) /\ sent' = x /\ got' = None
  BY Zenon DEF N!Send
<1>2. x.kind = k /\ x.value = v /\ x.alignment = al /\ x.width = Len(c)
  BY SMT
<1> HIDE DEF x
<1>3. WidthKept(x)
  BY <1>2, Zenon DEF WidthKept
<1>4. Sent(x)
  BY <1>2, Zenon DEF Sent
<1>5. Garbled(x) \/ Text(Append(c, N!End), x.kind, x.value)
  BY <1>2, Zenon DEF Garbled
<1>6. QED
  BY <1>1, <1>3, <1>4, <1>5, Zenon DEF FormatInv

LEMMA UnsignedSent ==
  ASSUME NEW v \in Values, NEW al \in N!Alignments, NEW k, NEW base, NEW places,
         \/ k = "unsigned" /\ base = 10 /\ places = 5
         \/ k = "hex" /\ base = 16 /\ places = 4,
         N!Send(k, v, al, N!Number(v, base, places, al))
  PROVE  FormatInv'
<1> DEFINE c == N!Number(v, base, places, al)
<1>1. v \in 0 .. N!WordSize - 1
  BY WordsAssumption, Zenon
<1>2. Writes(c, base, places, v, al)
  BY <1>1, NumberWrites, Zenon
<1>3. N!Send(k, v, al, c)
  BY Zenon
<1> HIDE DEF c
<1>4. /\ k # "int" /\ k \in N!Kinds /\ base = (IF k = "hex" THEN 16 ELSE 10)
      /\ places = (CASE k = "hex" -> 4 [] k = "unsigned" -> 5 [] k = "int" -> 6)
  BY SMT DEF N!Kinds
<1>5. Text(Append(c, N!End), k, v)
  BY <1>2, <1>4, Zenon DEF Writes, Text, Negative
<1>6. al = "COMPACT" \/ Len(c) = (CASE k = "hex" -> 4 [] k = "unsigned" -> 5 [] k = "int" -> 6)
  BY <1>2, <1>4, Zenon DEF Writes
<1>7. QED
  BY <1>3, <1>4, <1>5, <1>6, NumberSent, Zenon

LEMMA AppendLast ==
  ASSUME NEW a \in Seq(Int), NEW s \in Seq(Int), NEW e \in Int
  PROVE  Append(a \o s, e) = a \o Append(s, e)
<1> DEFINE l == Append(a \o s, e)
           r == a \o Append(s, e)
<1>1. PICK m \in Nat, n \in Nat : Len(a) = m /\ Len(s) = n
  BY SMT
<1>2. l \in Seq(Int) /\ Len(l) = m + n + 1
  BY <1>1, SMT
<1>3. r \in Seq(Int) /\ Len(r) = m + n + 1
  BY <1>1, SMT
<1>4. ASSUME NEW i \in 1 .. m + n + 1
      PROVE  l[i] = r[i]
  <2>1. CASE i <= m
    BY <1>1, <2>1, SMT
  <2>2. CASE m < i /\ i <= m + n
    BY <1>1, <2>2, SMT
  <2>3. CASE i = m + n + 1
    <3>1. a \o s \in Seq(Int) /\ Len(a \o s) = m + n /\ Len(Append(s, e)) = n + 1
      <4>1. a \o s \in Seq(Int)
        OBVIOUS
      <4>2. Len(a \o s) = m + n
        BY <1>1, SMT
      <4>3. Len(Append(s, e)) = n + 1
        BY <1>1, SMT
      <4>4. QED
        BY <4>1, <4>2, <4>3, Zenon
    <3>2. l[i] = e
      BY <2>3, <3>1, SMT
    <3>3. r[i] = Append(s, e)[n + 1]
      BY <1>1, <2>3, <3>1, SMT
    <3>4. Append(s, e)[n + 1] = e
      BY <1>1, SMT
    <3>5. QED
      BY <3>2, <3>3, <3>4, Zenon
  <2>4. i <= m \/ (m < i /\ i <= m + n) \/ i = m + n + 1
    BY ONLY <1>1, i \in 1 .. m + n + 1, SMT
  <2>5. QED
    BY <2>1, <2>2, <2>3, <2>4, Zenon
<1> HIDE DEF l, r
<1>5. l = r
  BY <1>2, <1>3, <1>4, SeqEqual
<1>6. QED
  BY <1>5, Zenon DEF l, r

LEMMA IntSent ==
  ASSUME NEW v \in Values, NEW al \in N!Alignments,
         N!Send("int", v, al,
                IF N!Signed(v) < 0
                THEN <<N!Minus>> \o N!Number((-N!Signed(v)) % N!WordSize, 10, 5, al)
                ELSE N!Pad(N!Space, IF al = "COMPACT" THEN 0 ELSE 1) \o N!Number(v, 10, 5, al))
  PROVE  FormatInv'
<1>1. v \in 0 .. N!WordSize - 1
  BY WordsAssumption, Zenon
<1>2. /\ "int" \in N!Kinds
      /\ (CASE "int" = "hex" -> 4 [] "int" = "unsigned" -> 5 [] "int" = "int" -> 6) = 6
  BY SMT DEF N!Kinds
<1>3. CASE N!Signed(v) < 0
  <2> DEFINE z == (-N!Signed(v)) % N!WordSize
             s == N!Number(z, 10, 5, al)
             c == <<N!Minus>> \o s
  <2>1. z = N!WordSize - v /\ z \in 0 .. N!WordSize - 1
    BY <1>1, <1>3, Magnitude, Zenon
  <2>2. N!Send("int", v, al, c)
    BY <1>3, Zenon
  <2> HIDE DEF z
  <2>3. Writes(s, 10, 5, z, al)
    BY <2>1, NumberWrites, Zenon
  <2> HIDE DEF s
  <2>4. s \in Seq(Int) /\ (al # "COMPACT" => Len(s) = 5)
    BY <2>3, Zenon DEF Writes
  <2>5. N!Minus \in Int /\ N!End \in Int
    BY SMT DEF N!Minus, N!End
  <2>6. al = "COMPACT" \/ Len(c) = 6
    <3>1. Len(c) = 1 + Len(s)
      BY <2>4, <2>5, SMT
    <3>2. 1 + 5 = 6
      BY SMT
    <3>3. QED
      BY <2>4, <3>1, <3>2, Zenon
  <2>7. Append(c, N!End) = <<N!Minus>> \o Append(s, N!End)
    <3>1. <<N!Minus>> \in Seq(Int)
      BY <2>5, SMT
    <3>2. QED
      BY <2>4, <2>5, <3>1, AppendLast, Zenon
  <2>8. /\ Append(c, N!End) # << >> /\ Head(Append(c, N!End)) = N!Minus
        /\ Tail(Append(c, N!End)) = Append(s, N!End)
    <3>1. Append(s, N!End) \in Seq(Int)
      BY <2>4, <2>5, SMT
    <3>2. QED
      BY <2>5, <2>7, <3>1, ConsHead, Zenon
  <2> HIDE DEF c
  <2>9. al = "RIGHT" \/ Text(Append(c, N!End), "int", v)
    <3>1. al # "RIGHT" => \E m, a : ReadableAt(Append(s, N!End), 10, z, 0, m, a)
      BY <2>3, Zenon DEF Writes
    <3>2. QED
      BY <1>3, <2>1, <2>8, <3>1, Zenon DEF Text, Negative
  <2>10. (Negative("int", v) /\ al = "RIGHT") \/ Text(Append(c, N!End), "int", v)
    BY <1>3, <2>9, Zenon DEF Negative
  <2>11. QED
    BY <1>2, <2>2, <2>6, <2>10, NumberSent, Zenon
<1>4. CASE ~(N!Signed(v) < 0)
  <2> DEFINE s == N!Number(v, 10, 5, al)
             n == IF al = "COMPACT" THEN 0 ELSE 1
             p == N!Pad(N!Space, n)
             c == p \o s
  <2>1. N!Send("int", v, al, c)
    BY <1>4, Zenon
  <2>2. Writes(s, 10, 5, v, al)
    BY <1>1, NumberWrites, Zenon
  <2>3. n \in Nat /\ N!Space \in Int /\ (al # "COMPACT" => n = 1) /\ 1 + 5 = 6 /\ 10 \in Nat
    BY SMT DEF N!Space
  <2> HIDE DEF s, n
  <2>4. s \in Seq(Int) /\ (al # "COMPACT" => Len(s) = 5) /\ Readable(Append(s, N!End), 10, v)
    BY <2>2, Zenon DEF Writes
  <2>5. p \in Seq(Int) /\ Len(p) = n /\ \A i \in 1 .. n : p[i] = N!Space
    BY <2>3, Padded, Zenon
  <2> HIDE DEF p
  <2>6. al = "COMPACT" \/ Len(c) = 6
    <3>1. Len(c) = Len(p) + Len(s)
      BY <2>4, <2>5, ConcatProperties, Zenon
    <3>2. QED
      BY <2>3, <2>4, <2>5, <3>1, Zenon
  <2>7. Readable(Append(c, N!End), 10, v)
    BY <2>3, <2>4, <2>5, WrittenBehind, Zenon
  <2> HIDE DEF c
  <2>8. Text(Append(c, N!End), "int", v)
    <3>1. "int" # "hex"
      BY SMT
    <3>2. QED
      BY <1>4, <2>7, <3>1, Zenon DEF Text, Negative
  <2>9. QED
    BY <1>2, <2>1, <2>6, <2>8, NumberSent, Zenon
<1>5. QED
  BY <1>3, <1>4, Zenon

(* What a reader takes for the number is what was sent. *)
LEMMA NumberRead ==
  ASSUME FormatInv, NEW k, N!Reading(k), UNCHANGED sent,
         Garbled(sent) \/ got' = sent.value
  PROVE  FormatInv'
<1>1. text # << >> /\ got = None
  BY Zenon DEF N!Reading
<1>2. Sent(sent) /\ (sent # None => WidthKept(sent))
  BY <1>1, Zenon DEF FormatInv
<1>3. Garbled(sent) \/ (got' = sent.value /\ got' # None)
  BY <1>2, NothingAssumption, Zenon DEF Sent
<1>4. Sent(sent)' /\ (sent' # None => WidthKept(sent)') /\ sent' = sent
  BY <1>2, Zenon
<1>5. got' # None => Sent(sent') /\ (got' = sent'.value \/ Garbled(sent'))
  BY <1>3, <1>4, Zenon
<1>6. text' # << >> =>
        Sent(sent') /\ (Garbled(sent') \/ got' # None \/ Text(text', sent'.kind, sent'.value))
  BY <1>3, <1>4, Zenon
<1>7. QED
  BY <1>4, <1>5, <1>6, Zenon DEF FormatInv

LEMMA AtTheNumber ==
  ASSUME FormatInv, NEW k, N!Reading(k), ~Garbled(sent)
  PROVE  /\ sent.kind = k /\ sent.value \in 0 .. N!WordSize - 1
         /\ Text(text, k, sent.value) /\ Head(text) # N!Space
<1>1. text # << >> /\ got = None /\ Head(text) # N!Space /\ sent.kind = k
  BY Zenon DEF N!Reading
<1>2. Sent(sent) /\ Text(text, sent.kind, sent.value)
  BY <1>1, Zenon DEF FormatInv
<1>3. sent.value \in 0 .. N!WordSize - 1
  BY <1>2, WordsAssumption, Zenon DEF Sent
<1>4. QED
  BY <1>1, <1>2, <1>3, Zenon

LEMMA UnsignedRead ==
  ASSUME FormatInv, NEW k, NEW base, (k = "unsigned" /\ base = 10) \/ (k = "hex" /\ base = 16),
         N!Reading(k), got' = N!Value(text, base), UNCHANGED sent
  PROVE  FormatInv'
<1>1. CASE Garbled(sent)
  BY <1>1, NumberRead, Zenon
<1>2. CASE ~Garbled(sent)
  <2>1. /\ sent.kind = k /\ sent.value \in 0 .. N!WordSize - 1
        /\ Text(text, k, sent.value) /\ Head(text) # N!Space
    BY <1>2, AtTheNumber, Zenon
  <2>2. k # "int" /\ base = (IF k = "hex" THEN 16 ELSE 10) /\ base \in Nat
    BY SMT
  <2>3. Readable(text, base, sent.value)
    BY <2>1, <2>2, Zenon DEF Text, Negative
  <2>4. N!Value(text, base) = sent.value
    BY <2>1, <2>2, <2>3, ReadNow, Zenon
  <2>5. QED
    BY <2>4, NumberRead, Zenon
<1>3. QED
  BY <1>1, <1>2, Zenon

LEMMA IntRead ==
  ASSUME FormatInv, N!serial_io_get_int
  PROVE  FormatInv'
<1>1. /\ N!Reading("int") /\ UNCHANGED sent
      /\ got' = IF Head(text) = N!Minus
                THEN (-N!Value(Tail(text), 10)) % N!WordSize
                ELSE N!Value(text, 10)
  BY Zenon DEF N!serial_io_get_int, N!Take
<1>2. CASE Garbled(sent)
  BY <1>1, <1>2, NumberRead, Zenon
<1>3. CASE ~Garbled(sent)
  <2>1. /\ sent.kind = "int" /\ sent.value \in 0 .. N!WordSize - 1
        /\ Text(text, "int", sent.value) /\ Head(text) # N!Space
    BY <1>1, <1>3, AtTheNumber, Zenon
  <2>2. 10 \in Nat /\ "int" # "hex" /\ N!Minus \notin 0 .. 10 - 1
    BY SMT DEF N!Minus
  <2>3. CASE Negative("int", sent.value)
    <3>1. PICK m, a : ReadableAt(Tail(text), 10, N!WordSize - sent.value, 0, m, a)
      BY <2>1, <2>3, Zenon DEF Text
    <3>2. /\ N!WordSize - sent.value \in 0 .. N!WordSize - 1
          /\ (-(N!WordSize - sent.value)) % N!WordSize = sent.value
      BY <2>1, <2>3, Magnitude, Zenon DEF Negative
    <3>3. N!Value(Tail(text), 10) = N!WordSize - sent.value
      BY <2>2, <3>1, <3>2, ValueRead, Zenon
    <3>4. Head(text) = N!Minus
      BY <2>1, <2>3, Zenon DEF Text
    <3>5. got' = sent.value
      BY <1>1, <3>2, <3>3, <3>4, Zenon
    <3>6. QED
      BY <1>1, <3>5, NumberRead, Zenon
  <2>4. CASE ~Negative("int", sent.value)
    <3>1. Readable(text, 10, sent.value)
      BY <2>1, <2>2, <2>4, Zenon DEF Text
    <3>2. N!Value(text, 10) = sent.value /\ Head(text) \in 0 .. 10 - 1
      BY <2>1, <2>2, <3>1, ReadNow, Zenon
    <3>3. got' = sent.value
      BY <1>1, <2>2, <3>2, Zenon
    <3>4. QED
      BY <1>1, <3>3, NumberRead, Zenon
  <2>5. QED
    BY <2>3, <2>4, Zenon
<1>4. QED
  BY <1>2, <1>3, Zenon

LEMMA Skipped ==
  ASSUME FormatInv, N!Skip
  PROVE  FormatInv'
<1>1. /\ text # << >> /\ (got # None \/ Head(text) = N!Space)
      /\ text' = Tail(text) /\ sent' = sent /\ got' = got
  BY Zenon DEF N!Skip
<1>2. Sent(sent)
  BY <1>1, Zenon DEF FormatInv
<1>3. Garbled(sent) \/ got # None \/ Text(Tail(text), sent.kind, sent.value)
  <2>1. SUFFICES ASSUME ~Garbled(sent), got = None
                 PROVE  Text(Tail(text), sent.kind, sent.value)
    BY Zenon
  <2>2. Head(text) = N!Space /\ Text(text, sent.kind, sent.value)
    BY <1>1, <2>1, Zenon DEF FormatInv
  <2>3. ~Negative(sent.kind, sent.value)
    <3>1. N!Space # N!Minus
      BY SMT DEF N!Space, N!Minus
    <3>2. QED
      BY <2>2, <3>1, Zenon DEF Text
  <2> DEFINE base == IF sent.kind = "hex" THEN 16 ELSE 10
  <2>4. base \in Nat
    BY SMT
  <2> HIDE DEF base
  <2>5. Readable(text, base, sent.value)
    BY <2>2, <2>3, Zenon DEF Text, base
  <2>6. Readable(Tail(text), base, sent.value)
    BY <2>2, <2>4, <2>5, BlankPassed, Zenon
  <2>7. QED
    BY <2>3, <2>6, Zenon DEF Text, base
<1>4. QED
  BY <1>1, <1>2, <1>3, Zenon DEF FormatInv

LEMMA FormatStep ==
  ASSUME FormatInv, N!FormatNext \/ UNCHANGED format
  PROVE  FormatInv'
<1>1. CASE N!serial_io_send_unsigned
  BY <1>1, UnsignedSent, Zenon DEF N!serial_io_send_unsigned
<1>2. CASE N!serial_io_send_hex
  BY <1>2, UnsignedSent, Zenon DEF N!serial_io_send_hex
<1>3. CASE N!serial_io_send_int
  BY <1>3, IntSent, Zenon DEF N!serial_io_send_int
<1>4. CASE N!serial_io_get_unsigned
  BY <1>4, UnsignedRead, Zenon DEF N!serial_io_get_unsigned, N!Take
<1>5. CASE N!serial_io_get_hex
  BY <1>5, UnsignedRead, Zenon DEF N!serial_io_get_hex, N!Take
<1>6. CASE N!serial_io_get_int
  BY <1>6, IntRead, Zenon
<1>7. CASE N!Skip
  BY <1>7, Skipped, Zenon
<1>8. CASE UNCHANGED format
  <2>1. text' = text /\ sent' = sent /\ got' = got
    BY <1>8, Zenon DEF format
  <2>2. QED
    BY <2>1, Zenon DEF FormatInv
<1>9. QED
  BY <1>1, <1>2, <1>3, <1>4, <1>5, <1>6, <1>7, <1>8, Zenon DEF N!FormatNext

LEMMA FormatShare == [Next]_vars => N!FormatNext \/ UNCHANGED format
BY DEF Next, vars

(* A number of any value comes back as it went, whatever its alignment, but *)
(* for the blanks behind the sign of a negative int aligned right, and has  *)
(* its constant width (serial-io.c:194-267, 372-477), a part of             *)
(* SettingsRight.                                                           *)
THEOREM NumbersComeBack == Spec => []N!FormatTrue
<1>1. Init => FormatInv
  <2>1. Init => text = << >> /\ sent = None /\ got = None
    BY DEF Init, N!FormatInit
  <2>2. QED
    BY <2>1, Zenon DEF FormatInv
<1>2. FormatInv /\ [Next]_vars => FormatInv'
  BY FormatShare, FormatStep, Zenon
<1>3. FormatInv => N!FormatTrue
  BY Zenon DEF FormatInv, N!FormatTrue, WidthKept, Garbled, Negative
<1>4. QED
  BY <1>1, <1>2, <1>3, PTL DEF Spec

-----------------------------------------------------------------------------
(* The rates.  The clocks of MCDrivers: frequencies, and for the internal   *)
(* oscillator that of the VCO.                                              *)
Clocked(c) ==
  /\ c.fcy \in {29940625, 39920833, 40000000, 30000000}
  /\ c.rc => c.vco \in {119762500, 159683333}

(* The settings the drivers can honour with these clocks: not 78 kHz, which *)
(* falls between two primary prescalers of the SPI; bauds of at most 1/320  *)
(* of the clock, and 115200; rates the two dividers of the DAC can reach.   *)
RatesPossible ==
  /\ SpiSpeeds \subseteq Nat \ {78}
  /\ \A baud \in BaudRates : baud \in Nat \ {0} /\ (320 * baud <= 29940625 \/ baud = 115200)
  /\ \A hz \in DacRates : hz \in Nat /\ 19 <= hz /\ hz <= 935644

(* What is asked of the clock divided by q is at most what comes out when   *)
(* the divider is a little more than q.                                     *)
LEMMA DividerAbove ==
  ASSUME NEW f \in Nat, NEW k \in Nat \ {0}, k < f, NEW D \in Nat,
         f \div k < D, D < 2 * (f \div k) \/ D = 2
  PROVE  f <= D * k /\ D * k < 2 * f
<1>1. PICK q \in Nat, r \in 0 .. k - 1 : q = f \div k /\ f = k * q + r
  BY Divided, SMT
<1>2. q >= 1
  <2>1. q = 0 => f = r
    BY <1>1, SMT
  <2>2. QED
    BY <1>1, <2>1, SMT
<1>3. PICK s \in Nat : D = q + (1 + s)
  <2>1. D - q - 1 \in Nat /\ D = q + (1 + (D - q - 1))
    BY <1>1, SMT
  <2>2. QED
    BY <2>1, SMT
<1>4. /\ (q + (1 + s)) * k = (k * q + k) + s * k
      /\ s * k \in Nat /\ k * q \in Nat
  BY <1>1, SMT
<1>5. f <= D * k
  <2>1. PICK x \in Nat, y \in Nat : x = k * q /\ y = s * k
    BY <1>4, SMT
  <2>2. D * k = (x + k) + y /\ f = x + r
    BY <1>1, <1>3, <1>4, <2>1, Zenon
  <2>3. QED
    BY <1>1, <2>1, <2>2, SMT
<1>6. CASE D < 2 * q
  <2>1. PICK t \in Nat : 2 * q = D + (1 + t)
    <3>1. 2 * q - D - 1 \in Nat /\ 2 * q = D + (1 + (2 * q - D - 1))
      BY <1>1, <1>6, SMT
    <3>2. QED
      BY <3>1, Zenon
  <2>2. (D + (1 + t)) * k = (D * k + k) + t * k /\ t * k \in Nat /\ D * k \in Nat
    BY SMT
  <2>3. (2 * q) * k = 2 * (k * q)
    BY <1>1, SMT
  <2>4. PICK x \in Nat, y \in Nat, z \in Nat : x = k * q /\ y = t * k /\ z = D * k
    BY <1>4, <2>2, SMT
  <2>5. 2 * x = (z + k) + y
    BY <2>1, <2>2, <2>3, <2>4, Zenon
  <2>6. f = x + r
    BY <1>1, <2>4, Zenon
  <2>7. z < 2 * f
    BY <1>1, <2>4, <2>5, <2>6, SMT
  <2>8. QED
    BY <1>5, <2>4, <2>7, Zenon
<1>7. CASE D = 2
  <2>1. q = 1
    BY <1>1, <1>2, <1>7, SMT
  <2>2. QED
    BY <1>5, <1>7, SMT
<1>8. QED
  BY <1>1, <1>6, <1>7, Zenon

(* A loop over the trials stops at one, and at none before it.              *)
LEMMA FirstTrial ==
  ASSUME NEW n \in Nat \ {0}, NEW Q, Q \subseteq 1 .. n
  PROVE  \E k \in 1 .. n : (k = n \/ k \in Q) /\ \A j \in 1 .. k - 1 : j \notin Q
<1> DEFINE Stop == {k \in 1 .. n : k = n \/ k \in Q}
<1>1. n \in Stop /\ Stop \subseteq Nat
  BY SMT
<1>2. PICK k \in Stop : \A j \in Stop : k <= j
  BY <1>1, LeastNatural, Zenon
<1>3. ASSUME NEW j \in 1 .. k - 1 PROVE j \notin Q
  <2>1. j \in 1 .. n /\ ~(k <= j)
    BY SMT
  <2>2. QED
    BY <1>2, <2>1, Zenon
<1>4. QED
  BY <1>3, Zenon

(* The divider of the SPI is the quotient, rounded up to what its two       *)
(* prescalers give: the trials of the loop.                                 *)
Ratio(khz) == clock.fcy \div (khz * 1000)
Stopped(q, k) == q \div R!Primary[k] < 8
Tried(q, k) == (k = 5 \/ Stopped(q, k)) /\ \A j \in 1 .. k - 1 : ~Stopped(q, j)
Divided8(q, k) == [PPRE |-> 4 - k, SPRE |-> 8 - (q \div R!Primary[k] + 1)]

LEMMA PrimaryIs ==
  R!Primary[1] = 1 /\ R!Primary[2] = 4 /\ R!Primary[3] = 16 /\ R!Primary[4] = 64
BY SMT DEF R!Primary

LEMMA SpiTrials ==
  ASSUME NEW khz, Ratio(khz) \in Nat, Stopped(Ratio(khz), 4)
  PROVE  \E k \in 1 .. 4 :
           /\ Stopped(Ratio(khz), k) /\ \A j \in 1 .. k - 1 : ~Stopped(Ratio(khz), j)
           /\ R!SpiDividers(khz) = Divided8(Ratio(khz), k)
<1> DEFINE q == Ratio(khz)
           k == CHOOSE i \in 1 .. 5 : Tried(q, i)
           second == q \div R!Primary[k] + 1
<1>1. R!SpiDividers(khz) = [PPRE |-> (4 - k) % 4, SPRE |-> IF second > 8 THEN 0 ELSE 8 - second]
  BY SMT DEF R!SpiDividers, R!First, R!Secondary, Tried, Stopped, Ratio
<1>2. \E i \in 1 .. 5 : Tried(q, i)
  <2> DEFINE Q == {j \in 1 .. 5 : Stopped(q, j)}
  <2>1. PICK i \in 1 .. 5 : (i = 5 \/ i \in Q) /\ \A j \in 1 .. i - 1 : j \notin Q
    <3>1. 5 \in Nat \ {0}
      BY SMT
    <3>2. Q \subseteq 1 .. 5
      BY Zenon
    <3> HIDE DEF Q
    <3>3. QED
      BY <3>1, <3>2, FirstTrial, Zenon
  <2>2. \A j \in 1 .. i - 1 : j \in 1 .. 5
    BY SMT
  <2>3. QED
    BY <2>1, <2>2, Zenon DEF Tried
<1>3. k \in 1 .. 5 /\ Tried(q, k)
  BY <1>2, Zenon
<1> HIDE DEF k
<1>4. k # 5
  <2>1. 4 \in 1 .. 5 - 1
    BY SMT
  <2>2. QED
    BY <1>3, <2>1, Zenon DEF Tried
<1>5. k \in 1 .. 4 /\ (4 - k) % 4 = 4 - k
  <2>1. k = 1 \/ k = 2 \/ k = 3 \/ k = 4
    BY <1>3, <1>4, SMT
  <2>2. QED
    BY <2>1, SMT
<1>6. Stopped(q, k) /\ \A j \in 1 .. k - 1 : ~Stopped(q, j)
  BY <1>3, <1>4, Zenon DEF Tried
<1>7. ~(second > 8)
  <2>1. R!Primary[k] \in Nat \ {0}
    BY <1>5, PrimaryIs, SMT
  <2>2. PICK n \in Nat : n = q \div R!Primary[k]
    BY <2>1, SMT
  <2>3. n < 8
    BY <1>6, <2>2, Zenon DEF Stopped
  <2>4. QED
    BY <2>2, <2>3, SMT
<1>8. R!SpiDividers(khz) = Divided8(q, k)
  BY <1>1, <1>5, <1>7, Zenon DEF Divided8
<1>9. QED
  BY ONLY <1>5, <1>6, <1>8, Zenon

LEMMA SpiDivided ==
  ASSUME NEW khz, Ratio(khz) \in Nat \ {0}, Stopped(Ratio(khz), 4),
         dividers = R!SpiDividers(khz)
  PROVE  /\ R!SpiDivider \in Nat /\ Ratio(khz) < R!SpiDivider
         /\ R!SpiDivider < 2 * Ratio(khz) \/ R!SpiDivider = 2
<1> DEFINE q == Ratio(khz)
<1>0. q \in Nat
  BY SMT
<1>1. PICK k \in 1 .. 4 : /\ Stopped(q, k) /\ \A j \in 1 .. k - 1 : ~Stopped(q, j)
                          /\ dividers = Divided8(q, k)
  BY <1>0, SpiTrials, Zenon
<1> HIDE DEF q
<1>2. PICK n \in Nat : n = q \div R!Primary[k] /\ n < 8
  <2>1. R!Primary[k] \in Nat \ {0}
    BY PrimaryIs, SMT
  <2>2. PICK n \in Nat : n = q \div R!Primary[k]
    BY <1>0, <2>1, SMT
  <2>3. QED
    BY <1>1, <2>2, Zenon DEF Stopped
<1>3. R!SpiDivider = 4 ^ (3 - (4 - k)) * (n + 1)
  <2>1. dividers.PPRE = 4 - k /\ dividers.SPRE = 8 - (n + 1)
    <3>1. dividers = [PPRE |-> 4 - k, SPRE |-> 8 - (n + 1)]
      BY <1>1, <1>2, Zenon DEF Divided8
    <3>2. QED
      BY <3>1, SMT
  <2>2. 8 - (8 - (n + 1)) = n + 1
    BY SMT
  <2>3. QED
    BY <2>1, <2>2, Zenon DEF R!SpiDivider
<1>4. CASE k = 1
  <2>1. 4 ^ (3 - (4 - 1)) = 1 /\ n = q
    BY <1>0, <1>2, <1>4, PrimaryIs, SMT
  <2>2. R!SpiDivider = 1 * (n + 1)
    BY <1>3, <1>4, <2>1, Zenon
  <2>3. QED
    BY <1>0, <2>1, <2>2, SMT DEF q
<1>5. CASE k = 2
  <2>1. 4 ^ (3 - (4 - 2)) = 4 /\ n = q \div 4 /\ 1 \in 1 .. 2 - 1
    BY <1>2, <1>5, PrimaryIs, SMT
  <2>2. R!SpiDivider = 4 * (n + 1)
    BY <1>3, <1>5, <2>1, Zenon
  <2>3. ~(q \div 1 < 8)
    BY <1>1, <1>5, <2>1, PrimaryIs, Zenon DEF Stopped
  <2>4. QED
    BY <1>0, <2>1, <2>2, <2>3, SMT DEF q
<1>6. CASE k = 3
  <2>1. 4 ^ (3 - (4 - 3)) = 16 /\ n = q \div 16 /\ 2 \in 1 .. 3 - 1
    BY <1>2, <1>6, PrimaryIs, SMT
  <2>2. R!SpiDivider = 16 * (n + 1)
    BY <1>3, <1>6, <2>1, Zenon
  <2>3. ~(q \div 4 < 8)
    BY <1>1, <1>6, <2>1, PrimaryIs, Zenon DEF Stopped
  <2>4. QED
    BY <1>0, <2>1, <2>2, <2>3, SMT DEF q
<1>7. CASE k = 4
  <2>1. 4 ^ (3 - (4 - 4)) = 64 /\ n = q \div 64 /\ 3 \in 1 .. 4 - 1
    BY <1>2, <1>7, PrimaryIs, SMT
  <2>2. R!SpiDivider = 64 * (n + 1)
    BY <1>3, <1>7, <2>1, Zenon
  <2>3. ~(q \div 16 < 8)
    BY <1>1, <1>7, <2>1, PrimaryIs, Zenon DEF Stopped
  <2>4. QED
    BY <1>0, <2>1, <2>2, <2>3, SMT DEF q
<1>8. QED
  BY <1>4, <1>5, <1>6, <1>7, SMT DEF q

LEMMA Quotient ==
  ASSUME NEW a \in Nat, NEW n \in Nat \ {0}
  PROVE  \E q \in Nat, r \in Nat : q = a \div n /\ r < n /\ a = n * q + r
<1>1. a \div n \in Nat /\ a % n \in Nat /\ a % n < n /\ a = n * (a \div n) + (a % n)
  BY Divided, SMT
<1>2. QED
  BY <1>1, Zenon

(* With the clocks of MCDrivers the quotient is never 512.                  *)
LEMMA SpiRatio ==
  ASSUME NEW f \in Nat, f = 29940625 \/ f = 39920833 \/ f = 40000000 \/ f = 30000000,
         NEW khz \in Nat \ {0}, khz <= 15000, khz # 78,
         NEW k \in Nat \ {0}, k = khz * 1000, f \div k <= 512
  PROVE  f \div k \in Nat \ {0} /\ f \div k < 512 /\ k < f
<1>1. k < f
  BY SMT
<1>2. PICK q \in Nat, r \in 0 .. k - 1 : q = f \div k /\ f = k * q + r
  BY ONLY f \in Nat, k \in Nat \ {0}, Divided, SMT
<1>3. q # 0
  <2>1. q = 0 => f = r
    BY <1>2, SMT
  <2>2. QED
    BY <1>1, <1>2, <2>1, SMT
<1>4. q # 512
  <2>1. q = 512 => f = 512 * k + r
    BY <1>2, SMT
  <2>2. QED
    BY <1>2, <2>1, SMT
<1>5. QED
  BY <1>1, <1>2, <1>3, <1>4, SMT

LEMMA SpiRight ==
  ASSUME RatesPossible, Clocked(clock), NEW khz \in SpiSpeeds, khz \in Nat \ {0}, khz <= 15000,
         Ratio(khz) <= 512, rate_asked = <<"spi", khz>>, dividers = R!SpiDividers(khz)
  PROVE  R!SpiNotFaster
<1>1. khz # 78
  BY SMT DEF RatesPossible
<1>2. PICK f \in Nat : /\ f = clock.fcy
                       /\ f = 29940625 \/ f = 39920833 \/ f = 40000000 \/ f = 30000000
  BY SMT DEF Clocked
<1>3. PICK k \in Nat \ {0} : k = khz * 1000
  BY SMT
<1>4. PICK q \in Nat \ {0} : q = Ratio(khz) /\ q = f \div k /\ q < 512 /\ k < f
  <2>1. Ratio(khz) = f \div k
    BY <1>2, <1>3, SMT DEF Ratio
  <2>2. f \div k \in Nat \ {0} /\ f \div k < 512 /\ k < f
    BY <1>1, <1>2, <1>3, <2>1, SpiRatio, SMT
  <2>3. QED
    BY <2>1, <2>2, SMT
<1>5. Stopped(q, 4)
  <2>1. q \div 64 < 8
    BY <1>4, SMT
  <2>2. QED
    BY <2>1, PrimaryIs, SMT DEF Stopped
<1>6. R!SpiDivider \in Nat /\ q < R!SpiDivider /\ (R!SpiDivider < 2 * q \/ R!SpiDivider = 2)
  <2>1. q = Ratio(khz)
    BY <1>4, SMT
  <2>2. QED
    BY ONLY <1>5, <2>1, q \in Nat \ {0}, dividers = R!SpiDividers(khz), SpiDivided, Zenon
<1>7. PICK D \in Nat : D = R!SpiDivider
  BY <1>6, SMT
<1>8. f <= D * k /\ D * k < 2 * f
  BY ONLY <1>4, <1>6, <1>7, f \in Nat, k \in Nat \ {0}, DividerAbove, SMT
<1>9. (D * khz) * 1000 = D * k
  BY <1>3, SMT
<1>10. rate_asked[2] = khz
  BY SMT
<1>11. QED
  BY <1>2, <1>7, <1>8, <1>9, <1>10, SMT DEF R!SpiNotFaster

LEMMA UartRight ==
  ASSUME RatesPossible, Clocked(clock), NEW baud \in BaudRates,
         rate_asked = <<"uart", baud>>,
         dividers = [BRG |-> (clock.fcy \div baud) \div 16 - 1]
  PROVE  R!UartInTime
<1>1. baud \in Nat \ {0} /\ (320 * baud <= 29940625 \/ baud = 115200)
  BY SMT DEF RatesPossible
<1>2. PICK f \in Nat : f = clock.fcy /\ f \in {29940625, 39920833, 40000000, 30000000}
  BY SMT DEF Clocked
<1>3. PICK q \in Nat, r \in Nat : q = f \div baud /\ r < baud /\ f = baud * q + r
  <2>1. baud \in Nat \ {0}
    BY <1>1, SMT
  <2>2. QED
    BY ONLY <2>1, f \in Nat, Quotient, Zenon
<1>4. PICK a \in Nat, b \in Nat : a = q \div 16 /\ b < 16 /\ q = 16 * a + b
  <2>1. 16 \in Nat \ {0}
    BY SMT
  <2>2. QED
    BY ONLY <2>1, q \in Nat, Quotient, Zenon
<1>5. dividers.BRG + 1 = a /\ rate_asked[2] = baud
  <2>1. dividers.BRG = a - 1
    BY <1>2, <1>3, <1>4, SMT
  <2>2. QED
    BY <1>4, <2>1, SMT
<1>6. PICK x \in Nat, y \in Nat : x = 16 * a * baud /\ y = b * baud
  BY <1>1, <1>4, SMT
<1>7. y <= 15 * baud /\ f = x + y + r
  <2>1. b = 0 \/ b = 1 \/ b = 2 \/ b = 3 \/ b = 4 \/ b = 5 \/ b = 6 \/ b = 7 \/ b = 8 \/ b = 9
        \/ b = 10 \/ b = 11 \/ b = 12 \/ b = 13 \/ b = 14 \/ b = 15
    BY <1>4, SMT
  <2>2. y <= 15 * baud
    BY <1>1, <1>6, <2>1, SMT
  <2>3. baud * (16 * a + b) = 16 * a * baud + b * baud
    BY <1>1, <1>4, SMT
  <2>4. f = x + y + r
    BY <1>3, <1>4, <1>6, <2>3, SMT
  <2>5. QED
    BY <2>2, <2>4, SMT
<1>8. x <= f /\ 20 * (f - x) <= f
  <2>1. CASE 320 * baud <= 29940625
    BY <1>1, <1>2, <1>3, <1>6, <1>7, <2>1, SMT
  <2>2. CASE baud = 115200
    <3>1. x = 16 * a * 115200
      BY <1>6, <2>2, SMT
    <3>2. f = 115200 * q + r /\ r < 115200 /\ q = 16 * a + b /\ b < 16
      BY <1>3, <1>4, <2>2, SMT
    <3>3. QED
      BY <1>2, <2>2, <3>1, <3>2, SMT
  <2>3. QED
    BY <1>1, <2>1, <2>2, SMT
<1>9. QED
  BY <1>2, <1>5, <1>6, <1>8, SMT DEF R!UartInTime

(* The nearest divider of the DAC, and when it is more than 128 or none.    *)
Rounded(v, h) == (2 * v + 256 * h) \div (512 * h)

LEMMA RoundedIs ==
  ASSUME NEW v \in Nat, NEW h \in Nat \ {0}
  PROVE  \E e \in Nat : /\ e = Rounded(v, h)
                        /\ 256 * (h * e) <= v + 128 * h /\ v < 256 * (h * e) + 128 * h
                        /\ e > 128 => v >= 32896 * h
                        /\ e = 0 => v < 128 * h
<1>1. 2 * v + 256 * h \in Nat /\ 512 * h \in Nat \ {0}
  BY SMT
<1>2. PICK e \in Nat, r \in Nat : /\ e = Rounded(v, h) /\ r < 512 * h
                                  /\ 2 * v + 256 * h = 512 * h * e + r
  BY ONLY <1>1, Quotient, SMT DEF Rounded
<1>3. PICK p \in Nat : p = h * e /\ 512 * h * e = 512 * p
  BY SMT
<1>4. 256 * p <= v + 128 * h /\ v < 256 * p + 128 * h
  BY <1>2, <1>3, SMT
<1>5. e > 128 => p >= 129 * h
  <2>1. SUFFICES ASSUME e > 128 PROVE p >= 129 * h
    BY SMT
  <2>2. PICK s \in Nat : e = 129 + s
    <3>1. e - 129 \in Nat /\ e = 129 + (e - 129)
      BY <2>1, SMT
    <3>2. QED
      BY <3>1, SMT
  <2>3. h * (129 + s) = 129 * h + h * s /\ h * s \in Nat
    BY SMT
  <2>4. QED
    BY <1>3, <2>2, <2>3, SMT
<1>6. e = 0 => p = 0
  BY <1>3, SMT
<1>7. QED
  BY <1>2, <1>3, <1>4, <1>5, <1>6, SMT

LEMMA AuxiliaryIs ==
  /\ R!Auxiliary[1] = 1 /\ R!Auxiliary[2] = 2 /\ R!Auxiliary[3] = 4 /\ R!Auxiliary[4] = 8
  /\ R!Auxiliary[5] = 16 /\ R!Auxiliary[6] = 32 /\ R!Auxiliary[7] = 64 /\ R!Auxiliary[8] = 256
BY SMT DEF R!Auxiliary

LEMMA NearestIs ==
  ASSUME NEW hz \in Nat \ {0}, NEW i \in Nat \ {0}, NEW h \in Nat \ {0}, h = hz * i
  PROVE  R!Nearest(hz, i) = IF Rounded(clock.vco, h) = 0 THEN 1 ELSE Rounded(clock.vco, h)
<1>1. 256 * hz * i = 256 * h /\ 512 * hz * i = 512 * h
  BY SMT
<1>2. QED
  BY ONLY <1>1, SMT DEF R!Nearest, Rounded

(* The trial the first loop stops at: its divider is the nearest and one of *)
(* 1 to 128.                                                                *)
Halted(hz, k) == R!Nearest(hz, R!Auxiliary[k]) <= 128
LEMMA DacTrials ==
  ASSUME NEW hz
  PROVE  \E k \in 1 .. 8 : /\ k = 8 \/ Halted(hz, k)
                           /\ \A j \in 1 .. k - 1 : ~Halted(hz, j)
                           /\ R!DacDividers(hz).APSTSCLR = 8 - k
                           /\ R!DacDividers(hz).DACFDIV
                                = (R!Nearest(hz, R!Auxiliary[k]) - 1) % 128
<1> DEFINE Tries(k) == (k = 8 \/ Halted(hz, k)) /\ \A j \in 1 .. k - 1 : ~Halted(hz, j)
           k == CHOOSE i \in 1 .. 8 : Tries(i)
           i == R!Auxiliary[k]
<1>1. R!DacDividers(hz) =
        [APSTSCLR |-> 8 - k, DACFDIV |-> (R!Nearest(hz, i) - 1) % 128,
         fsamp |-> ((clock.vco \div R!Nearest(hz, i)) \div i) \div 256]
  BY SMT DEF R!DacDividers, R!First, Halted
<1>2. \E j \in 1 .. 8 : Tries(j)
  <2> DEFINE Q == {j \in 1 .. 8 : Halted(hz, j)}
  <2>1. PICK m \in 1 .. 8 : (m = 8 \/ m \in Q) /\ \A j \in 1 .. m - 1 : j \notin Q
    <3>1. 8 \in Nat \ {0}
      BY SMT
    <3>2. Q \subseteq 1 .. 8
      BY Zenon
    <3> HIDE DEF Q
    <3>3. QED
      BY <3>1, <3>2, FirstTrial, Zenon
  <2>2. \A j \in 1 .. m - 1 : j \in 1 .. 8
    BY SMT
  <2>3. QED
    BY <2>1, <2>2, Zenon
<1>3. k \in 1 .. 8 /\ Tries(k)
  BY <1>2, Zenon
<1> HIDE DEF k
<1>4. /\ R!DacDividers(hz).APSTSCLR = 8 - k
      /\ R!DacDividers(hz).DACFDIV = (R!Nearest(hz, R!Auxiliary[k]) - 1) % 128
  BY <1>1, SMT
<1>5. QED
  BY ONLY <1>3, <1>4, Zenon

LEMMA DacRight ==
  ASSUME RatesPossible, Clocked(clock), clock.rc, NEW hz \in DacRates,
         rate_asked = <<"dac", hz>>, dividers = R!DacDividers(hz)
  PROVE  R!DacNearest
<1>1. hz \in Nat \ {0} /\ 19 <= hz /\ hz <= 935644
  BY SMT DEF RatesPossible
<1>2. PICK v \in Nat : v = clock.vco /\ (v = 119762500 \/ v = 159683333)
  BY SMT DEF Clocked
<1>3. PICK k \in 1 .. 8 : /\ k = 8 \/ Halted(hz, k)
                          /\ \A j \in 1 .. k - 1 : ~Halted(hz, j)
                          /\ dividers.APSTSCLR = 8 - k
                          /\ dividers.DACFDIV = (R!Nearest(hz, R!Auxiliary[k]) - 1) % 128
  BY DacTrials, SMT
<1>4. PICK i \in Nat \ {0} : i = R!Auxiliary[k]
  BY AuxiliaryIs, SMT
<1>5. PICK h \in Nat \ {0} : h = hz * i
  BY <1>1, SMT
<1>6. PICK e \in Nat : /\ e = Rounded(v, h)
                       /\ 256 * (h * e) <= v + 128 * h /\ v < 256 * (h * e) + 128 * h
                       /\ e > 128 => v >= 32896 * h
                       /\ e = 0 => v < 128 * h
  BY RoundedIs, SMT
<1>7. R!Nearest(hz, i) = IF e = 0 THEN 1 ELSE e
  <2>1. hz \in Nat \ {0}
    BY <1>1, SMT
  <2>2. R!Nearest(hz, i) = IF Rounded(clock.vco, h) = 0 THEN 1 ELSE Rounded(clock.vco, h)
    BY ONLY <1>5, <2>1, i \in Nat \ {0}, h \in Nat \ {0}, NearestIs, Zenon
  <2>3. e = Rounded(clock.vco, h)
    BY <1>2, <1>6, SMT
  <2>4. QED
    BY ONLY <2>2, <2>3, Zenon
<1>8. e # 0
  <2>1. CASE k = 1
    <3>1. i = 1 /\ h = hz
      BY <1>1, <1>4, <1>5, <2>1, AuxiliaryIs, SMT
    <3>2. e = 0 => v < 128 * hz
      BY <1>6, <3>1, SMT
    <3>3. QED
      BY <1>1, <1>2, <3>2, SMT
  <2>2. CASE k # 1
    <3>1. k - 1 \in 1 .. k - 1 /\ k - 1 \in 1 .. 7
      BY <2>2, SMT
    <3>2. PICK j \in Nat \ {0} : j = R!Auxiliary[k - 1] /\ i <= 4 * j
      BY <1>4, <3>1, AuxiliaryIs, SMT
    <3>3. PICK g \in Nat \ {0} : g = hz * j
      BY <1>1, SMT
    <3>4. h <= 4 * g
      <4>1. PICK n \in Nat : 4 * j = i + n
        <5>1. 4 * j - i \in Nat /\ 4 * j = i + (4 * j - i)
          BY <3>2, SMT
        <5>2. QED
          BY <5>1, SMT
      <4>2. hz * (i + n) = hz * i + hz * n /\ hz * n \in Nat /\ hz * (4 * j) = 4 * (hz * j)
        BY <1>1, SMT
      <4>3. 4 * g = h + hz * n
        BY <1>5, <3>3, <4>1, <4>2, SMT
      <4>4. QED
        BY <4>2, <4>3, SMT
    <3>5. PICK n \in Nat : n = Rounded(v, g) /\ (n > 128 => v >= 32896 * g)
      BY RoundedIs, SMT
    <3>6. R!Nearest(hz, j) = IF n = 0 THEN 1 ELSE n
      <4>1. hz \in Nat \ {0}
        BY <1>1, SMT
      <4>2. R!Nearest(hz, j) = IF Rounded(clock.vco, g) = 0 THEN 1 ELSE Rounded(clock.vco, g)
        BY ONLY <3>3, <4>1, j \in Nat \ {0}, g \in Nat \ {0}, NearestIs, Zenon
      <4>3. n = Rounded(clock.vco, g)
        BY <1>2, <3>5, SMT
      <4>4. QED
        BY ONLY <4>2, <4>3, Zenon
    <3>7. ~(R!Nearest(hz, j) <= 128)
      BY <1>3, <3>1, <3>2, SMT DEF Halted
    <3>8. n > 128
      BY <3>5, <3>6, <3>7, SMT
    <3>9. QED
      BY <1>6, <3>4, <3>5, <3>8, SMT
  <2>3. QED
    BY <2>1, <2>2, SMT
<1>9. e <= 128
  <2>1. CASE k = 8
    <3>1. i = 256 /\ h = hz * 256
      BY <1>4, <1>5, <2>1, AuxiliaryIs, SMT
    <3>2. QED
      BY <1>1, <1>2, <1>6, <3>1, SMT
  <2>2. CASE k # 8
    <3>1. R!Nearest(hz, i) <= 128
      BY <1>3, <1>4, <2>2, SMT DEF Halted
    <3>2. QED
      BY <1>7, <1>8, <3>1, SMT
  <2>3. QED
    BY <2>1, <2>2, SMT
<1>10. dividers.DACFDIV + 1 = e
  <2>1. dividers.DACFDIV = (e - 1) % 128
    BY <1>3, <1>4, <1>7, <1>8, SMT
  <2>2. QED
    BY <1>6, <1>8, <1>9, <2>1, SMT
<1>11. R!Auxiliary[8 - dividers.APSTSCLR] = i
  <2>1. 8 - (8 - k) = k
    BY SMT
  <2>2. QED
    BY <1>3, <1>4, <2>1, SMT
<1>12. e * i * 256 * hz = 256 * (h * e) /\ 128 * i * hz = 128 * h
  BY <1>1, <1>5, <1>6, SMT
<1>13. rate_asked[2] = hz
  BY SMT
<1>14. PICK p \in Nat : p = h * e
  BY SMT
<1>15. v - 256 * p \in -(128 * h) .. 128 * h
  BY <1>6, <1>14, SMT
<1>16. clock.vco - (dividers.DACFDIV + 1) * R!Auxiliary[8 - dividers.APSTSCLR] * 256 * rate_asked[2]
         \in -(128 * R!Auxiliary[8 - dividers.APSTSCLR] * rate_asked[2])
              .. 128 * R!Auxiliary[8 - dividers.APSTSCLR] * rate_asked[2]
  BY <1>2, <1>10, <1>11, <1>12, <1>13, <1>14, <1>15, SMT
<1>17. QED
  BY <1>16, SMT DEF R!DacNearest

(* The timer: the prescaler the loop stops at, and the period that fits it. *)
LEMMA PrescalerIs ==
  R!Prescaler[1] = 1 /\ R!Prescaler[2] = 8 /\ R!Prescaler[3] = 64 /\ R!Prescaler[4] = 256
BY SMT DEF R!Prescaler

Expressible(time, unit, j) ==
  R!Nanoseconds(time, unit) <= R!CycleDuration * 65535 * R!Prescaler[j]
LEMMA TimerTrials ==
  ASSUME NEW time, NEW unit, ~(unit < 0)
  PROVE  \E k \in 1 .. 4 : /\ k = 4 \/ Expressible(time, unit, k)
                           /\ \A j \in 1 .. k - 1 : ~Expressible(time, unit, j)
                           /\ R!TimerDividers(time, unit).prescaler = k
                           /\ R!TimerDividers(time, unit).period
                                = R!Nanoseconds(time, unit) \div (R!CycleDuration * R!Prescaler[k])
<1> DEFINE Tries(k) == /\ k = 4 \/ Expressible(time, unit, k)
                       /\ \A j \in 1 .. k - 1 : ~Expressible(time, unit, j)
           k == CHOOSE i \in 1 .. 4 : Tries(i)
<1>1. R!TimerDividers(time, unit) =
        [prescaler |-> k,
         period |-> R!Nanoseconds(time, unit) \div (R!CycleDuration * R!Prescaler[k])]
  BY SMT DEF R!TimerDividers, R!First, Expressible
<1>2. \E j \in 1 .. 4 : Tries(j)
  <2> DEFINE Q == {j \in 1 .. 4 : Expressible(time, unit, j)}
  <2>1. PICK m \in 1 .. 4 : (m = 4 \/ m \in Q) /\ \A j \in 1 .. m - 1 : j \notin Q
    <3>1. 4 \in Nat \ {0}
      BY SMT
    <3>2. Q \subseteq 1 .. 4
      BY Zenon
    <3> HIDE DEF Q
    <3>3. QED
      BY <3>1, <3>2, FirstTrial, Zenon
  <2>2. \A j \in 1 .. m - 1 : j \in 1 .. 4
    BY SMT
  <2>3. QED
    BY <2>1, <2>2, Zenon
<1>3. k \in 1 .. 4 /\ Tries(k)
  BY <1>2, Zenon
<1> HIDE DEF k
<1>4. /\ R!TimerDividers(time, unit).prescaler = k
      /\ R!TimerDividers(time, unit).period
           = R!Nanoseconds(time, unit) \div (R!CycleDuration * R!Prescaler[k])
  BY <1>1, SMT
<1>5. QED
  BY ONLY <1>3, <1>4, Zenon

(* What the timer driver asserts of a time (timer.c:280-296).               *)
Timely(s) == R!Nanoseconds(s[1], s[2]) \in R!CycleDuration .. R!CycleDuration * 65535 * 256

LEMMA TimerRight ==
  ASSUME Clocked(clock), NEW s, s[2] \in Int, s[2] < 0 \/ Timely(s),
         rate_asked = <<"timer", s>>, dividers = R!TimerDividers(s[1], s[2])
  PROVE  R!TimerToTheTick
<1> SUFFICES ASSUME s[2] >= 0, ~(s[2] < 0)
             PROVE  R!TimerToTheTick
  BY SMT DEF R!TimerToTheTick
<1>1. PICK c \in Nat \ {0} : c = R!CycleDuration
  <2>1. PICK f \in Nat : /\ f = clock.fcy
                         /\ f = 29940625 \/ f = 39920833 \/ f = 40000000 \/ f = 30000000
    BY SMT DEF Clocked
  <2>2. R!CycleDuration = 1000000000 \div f
    BY <2>1, SMT DEF R!CycleDuration
  <2>3. QED
    BY <2>1, <2>2, SMT
<1>2. PICK n \in Nat : n = R!Nanoseconds(s[1], s[2]) /\ c <= n /\ n <= c * 65535 * 256
  BY <1>1, SMT DEF Timely
<1>3. PICK k \in 1 .. 4 : /\ k = 4 \/ Expressible(s[1], s[2], k)
                          /\ \A j \in 1 .. k - 1 : ~Expressible(s[1], s[2], j)
                          /\ dividers.prescaler = k
                          /\ dividers.period
                               = R!Nanoseconds(s[1], s[2]) \div (R!CycleDuration * R!Prescaler[k])
  BY TimerTrials, SMT
<1>4. PICK m \in Nat \ {0} : m = R!Prescaler[k]
  BY PrescalerIs, SMT
<1>5. PICK t \in Nat \ {0} : t = c * m
  BY SMT
<1>6. n <= 65535 * t
  <2>1. CASE k = 4
    <3>1. m = 256 /\ t = c * 256
      BY <1>4, <1>5, <2>1, PrescalerIs, SMT
    <3>2. QED
      BY <1>2, <3>1, SMT
  <2>2. CASE k # 4
    <3>1. n <= c * 65535 * m
      BY <1>1, <1>2, <1>3, <1>4, <2>2, SMT DEF Expressible
    <3>2. c * 65535 * m = 65535 * t
      BY <1>5, SMT
    <3>3. QED
      BY <3>1, <3>2, SMT
  <2>3. QED
    BY <2>1, <2>2, SMT
<1>7. PICK e \in Nat, r \in Nat : e = n \div t /\ r < t /\ n = t * e + r
  BY ONLY n \in Nat, t \in Nat \ {0}, Quotient, Zenon
<1>8. dividers.period = e /\ R!TimerTime = t * e
  <2>1. dividers.period = e
    BY <1>1, <1>2, <1>3, <1>4, <1>5, <1>7, SMT
  <2>2. R!TimerTime = c * m * e
    BY <1>1, <1>3, <1>4, <2>1, SMT DEF R!TimerTime
  <2>3. QED
    BY <1>5, <2>1, <2>2, SMT
<1>9. PICK p \in Nat : p = t * e
  BY SMT
<1>10. k > 1 => \E o \in Nat \ {0} : /\ o = R!Prescaler[k - 1]
                                     /\ n > c * 65535 * o /\ t <= c * 65535 * o
  <2>1. SUFFICES ASSUME k > 1
                 PROVE  \E o \in Nat \ {0} : /\ o = R!Prescaler[k - 1]
                                             /\ n > c * 65535 * o /\ t <= c * 65535 * o
    BY SMT
  <2>2. k - 1 \in 1 .. k - 1 /\ k - 1 \in 1 .. 3
    BY <2>1, SMT
  <2>3. PICK o \in Nat \ {0} : o = R!Prescaler[k - 1] /\ (m = 8 * o \/ m = 4 * o)
    BY <1>4, <2>2, PrescalerIs, SMT
  <2>4. ~Expressible(s[1], s[2], k - 1)
    BY <1>3, <2>2, SMT
  <2>5. PICK w \in Nat : w = c * o /\ c * 65535 * o = 65535 * w /\ (t = 8 * w \/ t = 4 * w)
    BY <1>5, <2>3, SMT
  <2>6. n > c * 65535 * o
    BY <1>1, <1>2, <2>3, <2>4, <2>5, SMT DEF Expressible
  <2>7. t <= c * 65535 * o
    BY <2>5, SMT
  <2>8. QED
    BY <2>3, <2>6, <2>7, SMT
<1>11. e >= 1
  <2>1. t <= n
    <3>1. CASE k = 1
      <4>1. m = 1 /\ t = c
        BY <1>4, <1>5, <3>1, PrescalerIs, SMT
      <4>2. QED
        BY <1>2, <4>1, SMT
    <3>2. CASE k > 1
      BY <1>10, <3>2, SMT
    <3>3. QED
      BY <3>1, <3>2, SMT
  <2>2. e = 0 => n = r
    BY <1>7, SMT
  <2>3. QED
    BY <1>7, <2>1, <2>2, SMT
<1>12. e <= 65535
  <2>1. SUFFICES ASSUME e > 65535 PROVE FALSE
    BY SMT
  <2>2. PICK x \in Nat : e = 65536 + x
    <3>1. e - 65536 \in Nat /\ e = 65536 + (e - 65536)
      BY <2>1, SMT
    <3>2. QED
      BY <3>1, SMT
  <2>3. t * (65536 + x) = 65536 * t + t * x /\ t * x \in Nat
    BY SMT
  <2>4. QED
    BY <1>6, <1>7, <2>2, <2>3, SMT
<1>13. rate_asked[2] = s /\ n - p = r
  BY <1>7, <1>9, SMT
<1>14. R!Nanoseconds(rate_asked[2][1], rate_asked[2][2]) - R!TimerTime
         \in 0 .. R!CycleDuration * R!Prescaler[dividers.prescaler] - 1
  <2>1. R!CycleDuration * R!Prescaler[dividers.prescaler] = t
    BY <1>1, <1>3, <1>4, <1>5, Zenon
  <2>2. R!TimerTime = p
    BY <1>8, <1>9, Zenon
  <2>3. R!Nanoseconds(rate_asked[2][1], rate_asked[2][2]) = n
    BY ONLY <1>2, <1>13, SMT
  <2>4. n - p \in 0 .. t - 1
    BY <1>7, <1>13, SMT
  <2>5. QED
    BY <2>1, <2>2, <2>3, <2>4, Zenon
<1>15. dividers.prescaler > 1 =>
         R!TimerTime > R!CycleDuration * 65535 * R!Prescaler[dividers.prescaler - 1]
                         - R!CycleDuration * R!Prescaler[dividers.prescaler]
  <2>1. SUFFICES ASSUME k > 1
                 PROVE  p > c * 65535 * R!Prescaler[k - 1] - t
    BY <1>1, <1>3, <1>4, <1>5, <1>8, <1>9, SMT
  <2>2. PICK o \in Nat \ {0} : o = R!Prescaler[k - 1] /\ n > c * 65535 * o
    BY <1>10, <2>1, SMT
  <2>3. PICK w \in Nat : w = c * 65535 * o
    BY SMT
  <2>4. p > w - t
    BY <1>7, <1>9, <2>2, <2>3, SMT
  <2>5. QED
    BY <2>2, <2>3, <2>4, SMT
<1>16. dividers.period >= 1 /\ dividers.period <= 65535
  BY <1>8, <1>11, <1>12, SMT
<1>17. QED
  BY <1>14, <1>15, <1>16, SMT DEF R!TimerToTheTick

(* The tables of the CAN bus.                                               *)
CanBit(mips, rate, cfg1, cfg2) ==
  \/ mips = 40 /\ rate = 1000 /\ cfg1 = 193 /\ cfg2 = 920
  \/ mips = 40 /\ rate = 250 /\ cfg1 = 3 /\ cfg2 = 2042
  \/ mips = 40 /\ rate = 100 /\ cfg1 = 9 /\ cfg2 = 2042
  \/ mips = 30 /\ rate = 1000 /\ cfg1 = 192 /\ cfg2 = 1456
  \/ mips = 30 /\ rate = 500 /\ cfg1 = 1 /\ cfg2 = 1272
  \/ mips = 30 /\ rate = 250 /\ cfg1 = 2 /\ cfg2 = 2042
  \/ mips = 30 /\ rate = 100 /\ cfg1 = 9 /\ cfg2 = 1272

LEMMA CanRows ==
  ASSUME NEW s \in CanRates, NEW r,
         r \in IF s[1] = 40 THEN R!speed_tab_40 ELSE R!speed_tab_30, r[1] = s[2]
  PROVE  CanBit(s[1], s[2], r[2], r[3])
<1>1. CASE s[1] = 40
  <2>1. s[2] = 1000 \/ s[2] = 250 \/ s[2] = 100
    BY <1>1, SMT DEF CanRates
  <2>2. r \in R!speed_tab_40
    BY <1>1, SMT
  <2>3. \/ r[1] = 1000 /\ r[2] = 193 /\ r[3] = 920
        \/ r[1] = 500
        \/ r[1] = 250 /\ r[2] = 3 /\ r[3] = 2042
        \/ r[1] = 100 /\ r[2] = 9 /\ r[3] = 2042
    BY <2>2, SMT DEF R!speed_tab_40
  <2>4. QED
    BY <1>1, <2>1, <2>3, SMT DEF CanBit
<1>2. CASE s[1] # 40
  <2>1. s[1] = 30
    BY <1>2, SMT DEF CanRates
  <2>2. r \in R!speed_tab_30
    BY <1>2, SMT
  <2>3. \/ r[1] = 1000 /\ r[2] = 192 /\ r[3] = 1456
        \/ r[1] = 500 /\ r[2] = 1 /\ r[3] = 1272
        \/ r[1] = 250 /\ r[2] = 2 /\ r[3] = 2042
        \/ r[1] = 100 /\ r[2] = 9 /\ r[3] = 1272
    BY <2>2, SMT DEF R!speed_tab_30
  <2>4. QED
    BY <2>1, <2>3, SMT DEF CanBit
<1>3. QED
  BY <1>1, <1>2, SMT

LEMMA CanRight ==
  ASSUME NEW s, NEW cfg1, NEW cfg2, CanBit(s[1], s[2], cfg1, cfg2),
         rate_asked = <<"can", s>>, dividers = [CFG1 |-> cfg1, CFG2 |-> cfg2]
  PROVE  R!CanExact
<1> DEFINE Seg(first) == ((cfg2 \div first) % 8) + 1
<1>1. rate_asked[2] = s /\ dividers.CFG1 = cfg1 /\ dividers.CFG2 = cfg2
  BY SMT
<1>2. \A first : R!Segment(first) = Seg(first)
  BY <1>1, SMT DEF R!Segment
<1>3. /\ s[1] * 1000 = 2 * ((cfg1 % 64) + 1) * (1 + Seg(1) + Seg(8) + Seg(256)) * s[2]
      /\ cfg1 \div 64 < Seg(256)
  BY SMT DEF CanBit
<1> HIDE DEF Seg
<1>4. QED
  BY <1>1, <1>2, <1>3, SMT DEF R!CanExact, R!Quanta

(* What was asked last, as the driver wrote it to its registers.            *)
SpiAsked(khz) ==
  /\ khz \in Nat \ {0} /\ khz <= 15000 /\ Ratio(khz) <= 512
  /\ rate_asked = <<"spi", khz>> /\ dividers = R!SpiDividers(khz)
UartAsked(baud) ==
  rate_asked = <<"uart", baud>> /\ dividers = [BRG |-> (clock.fcy \div baud) \div 16 - 1]
DacAsked(hz) ==
  clock.rc /\ rate_asked = <<"dac", hz>> /\ dividers = R!DacDividers(hz)
TimerAsked(s) ==
  /\ s[2] \in Int /\ (s[2] < 0 \/ Timely(s))
  /\ rate_asked = <<"timer", s>> /\ dividers = R!TimerDividers(s[1], s[2])
CanAsked(s, cfg1, cfg2) ==
  /\ CanBit(s[1], s[2], cfg1, cfg2)
  /\ rate_asked = <<"can", s>> /\ dividers = [CFG1 |-> cfg1, CFG2 |-> cfg2]
Asked ==
  \/ \E khz \in SpiSpeeds : SpiAsked(khz)
  \/ \E baud \in BaudRates : UartAsked(baud)
  \/ \E hz \in DacRates : DacAsked(hz)
  \/ \E s \in SampleTimes : TimerAsked(s)
  \/ \E s, cfg1, cfg2 : CanAsked(s, cfg1, cfg2)
RatesInv ==
  \/ rate_asked = <<"none", 0>> /\ (clock = None \/ Clocked(clock))
  \/ clock # None /\ Clocked(clock) /\ Asked

LEMMA AskedRight == RatesPossible /\ RatesInv => R!RatesRight
<1> DEFINE Others(driver) ==
      /\ driver = "spi" \/ R!SpiNotFaster
      /\ driver = "uart" \/ R!UartInTime
      /\ driver = "dac" \/ R!DacNearest
      /\ driver = "timer" \/ R!TimerToTheTick
      /\ driver = "can" \/ R!CanExact
<1>1. Others(rate_asked[1])
  BY SMT DEF R!SpiNotFaster, R!UartInTime, R!DacNearest, R!TimerToTheTick, R!CanExact
<1> HIDE DEF Others
<1>2. CASE rate_asked = <<"none", 0>>
  <2>1. rate_asked[1] = "none"
    BY <1>2, SMT
  <2>2. QED
    BY <1>1, <2>1, SMT DEF Others, R!RatesRight
<1>3. ASSUME RatesPossible, Clocked(clock), NEW khz \in SpiSpeeds, SpiAsked(khz)
      PROVE  R!RatesRight
  <2>1. R!SpiNotFaster /\ rate_asked[1] = "spi"
    BY <1>3, SpiRight, SMT DEF SpiAsked
  <2>2. QED
    BY <1>1, <2>1, SMT DEF Others, R!RatesRight
<1>4. ASSUME RatesPossible, Clocked(clock), NEW baud \in BaudRates, UartAsked(baud)
      PROVE  R!RatesRight
  <2>1. R!UartInTime /\ rate_asked[1] = "uart"
    BY <1>4, UartRight, SMT DEF UartAsked
  <2>2. QED
    BY <1>1, <2>1, SMT DEF Others, R!RatesRight
<1>5. ASSUME RatesPossible, Clocked(clock), NEW hz \in DacRates, DacAsked(hz)
      PROVE  R!RatesRight
  <2>1. R!DacNearest /\ rate_asked[1] = "dac"
    BY <1>5, DacRight, SMT DEF DacAsked
  <2>2. QED
    BY <1>1, <2>1, SMT DEF Others, R!RatesRight
<1>6. ASSUME Clocked(clock), NEW s \in SampleTimes, TimerAsked(s)
      PROVE  R!RatesRight
  <2>1. R!TimerToTheTick /\ rate_asked[1] = "timer"
    BY <1>6, TimerRight, SMT DEF TimerAsked
  <2>2. QED
    BY <1>1, <2>1, SMT DEF Others, R!RatesRight
<1>7. ASSUME NEW s, NEW cfg1, NEW cfg2, CanAsked(s, cfg1, cfg2)
      PROVE  R!RatesRight
  <2>1. R!CanExact /\ rate_asked[1] = "can"
    BY <1>7, CanRight, SMT DEF CanAsked
  <2>2. QED
    BY <1>1, <2>1, SMT DEF Others, R!RatesRight
<1>8. QED
  BY <1>2, <1>3, <1>4, <1>5, <1>6, <1>7, Zenon DEF RatesInv, Asked

LEMMA ClocksSet ==
  ASSUME R!clock_init_internal_rc_30 \/ R!clock_init_internal_rc_40
           \/ R!clock_init_external_clock_from_n1_m_n2
  PROVE  clock = None /\ Clocked(clock') /\ rate_asked' = rate_asked
<1>1. CASE R!clock_init_internal_rc_30
  BY <1>1, SMT DEF R!clock_init_internal_rc_30, R!SetClock, R!setup_pll, Clocked,
                   R!clock_init_internal_rc_from_n1_m_n2
<1>2. CASE R!clock_init_internal_rc_40
  BY <1>2, SMT DEF R!clock_init_internal_rc_40, R!SetClock, R!setup_pll, Clocked,
                   R!clock_init_internal_rc_from_n1_m_n2
<1>3. CASE R!clock_init_external_clock_from_n1_m_n2
  <2>1. PICK c \in Crystals : R!SetClock(R!setup_pll(c[1], c[2], c[3], c[4]))
    BY <1>3, SMT DEF R!clock_init_external_clock_from_n1_m_n2
  <2>2. \/ c[1] = 2 /\ c[2] = 32 /\ c[3] = 2 /\ c[4] = 10000000
        \/ c[1] = 2 /\ c[2] = 40 /\ c[3] = 4 /\ c[4] = 12000000
    BY SMT DEF Crystals
  <2>3. /\ R!setup_pll(2, 32, 2, 10000000).fcy = 40000000
        /\ R!setup_pll(2, 40, 4, 12000000).fcy = 30000000
    BY SMT DEF R!setup_pll
  <2>4. PICK p : p = R!setup_pll(c[1], c[2], c[3], c[4])
    BY SMT
  <2>5. (p.fcy = 40000000 \/ p.fcy = 30000000) /\ ~p.rc
    <3>1. p.fcy = 40000000 \/ p.fcy = 30000000
      BY <2>2, <2>3, <2>4, SMT
    <3>2. PICK fin, internal : fin = c[4] /\ internal = 7370000
      BY SMT
    <3>3. p.rc = (fin = internal)
      BY <2>4, <3>2, SMT DEF R!setup_pll
    <3>4. fin # internal
      BY <2>2, <3>2, SMT
    <3>5. ~p.rc
      BY ONLY <3>3, <3>4, Zenon
    <3>6. QED
      BY <3>1, <3>5, SMT
  <2>6. clock = None /\ clock' = p /\ rate_asked' = rate_asked
    BY <2>1, <2>4, SMT DEF R!SetClock
  <2>7. QED
    BY <2>5, <2>6, SMT DEF Clocked
<1>4. QED
  BY <1>1, <1>2, <1>3, Zenon

(* The dividers depend on nothing but the clock.                            *)
LEMMA SameDividers ==
  ASSUME clock' = clock
  PROVE  /\ \A khz : (R!SpiDividers(khz))' = R!SpiDividers(khz) /\ Ratio(khz)' = Ratio(khz)
         /\ \A hz : (R!DacDividers(hz))' = R!DacDividers(hz)
         /\ \A time, unit : (R!TimerDividers(time, unit))' = R!TimerDividers(time, unit)
         /\ \A s : Timely(s)' = Timely(s)
<1>1. ASSUME NEW khz PROVE (R!SpiDividers(khz))' = R!SpiDividers(khz)
  BY SMT DEF R!SpiDividers, R!First, R!Secondary
<1>2. ASSUME NEW hz PROVE (R!DacDividers(hz))' = R!DacDividers(hz)
  BY SMT DEF R!DacDividers, R!First, R!Nearest
<1>3. ASSUME NEW time, NEW unit PROVE (R!TimerDividers(time, unit))' = R!TimerDividers(time, unit)
  BY SMT DEF R!TimerDividers, R!First, R!CycleDuration
<1>4. \A khz : Ratio(khz)' = Ratio(khz)
  BY SMT DEF Ratio
<1>5. \A s : Timely(s)' = Timely(s)
  BY SMT DEF Timely, R!CycleDuration
<1>6. QED
  BY <1>1, <1>2, <1>3, <1>4, <1>5, Zenon

LEMMA RatesStep ==
  ASSUME RatesInv, R!RatesNext \/ UNCHANGED rates
  PROVE  RatesInv'
<1>1. CASE R!clock_init_internal_rc_30 \/ R!clock_init_internal_rc_40
             \/ R!clock_init_external_clock_from_n1_m_n2
  <2>1. clock = None /\ Clocked(clock') /\ rate_asked' = rate_asked
    BY <1>1, ClocksSet, Zenon
  <2>2. Clocked(clock)'
    BY <2>1, SMT DEF Clocked
  <2>3. rate_asked = <<"none", 0>>
    BY <2>1, Zenon DEF RatesInv
  <2>4. QED
    BY <2>1, <2>2, <2>3, Zenon DEF RatesInv
<1>2. ASSUME clock' = clock
      PROVE  /\ Clocked(clock)' = Clocked(clock)
             /\ \A khz : (R!SpiDividers(khz))' = R!SpiDividers(khz) /\ Ratio(khz)' = Ratio(khz)
             /\ \A hz : (R!DacDividers(hz))' = R!DacDividers(hz)
             /\ \A time, unit : (R!TimerDividers(time, unit))' = R!TimerDividers(time, unit)
             /\ \A s : Timely(s)' = Timely(s)
  BY <1>2, SameDividers, SMT DEF Clocked
<1>3. ASSUME clock' = clock, clock # None, Asked'
      PROVE  RatesInv'
  <2>1. Clocked(clock)
    BY <1>3, Zenon DEF RatesInv
  <2>2. QED
    BY <1>2, <1>3, <2>1, Zenon DEF RatesInv
<1>4. CASE R!spi_init_master
  <2>1. PICK khz \in SpiSpeeds :
          /\ clock # None /\ khz \in Nat \ {0} /\ khz <= 15000 /\ Ratio(khz) <= 512
          /\ clock' = clock /\ rate_asked' = <<"spi", khz>> /\ dividers' = R!SpiDividers(khz)
    BY <1>4, SMT DEF R!spi_init_master, R!Asks, Ratio
  <2>2. SpiAsked(khz)'
    BY <1>2, <2>1, SMT DEF SpiAsked
  <2>3. clock' = clock /\ clock # None
    BY <2>1, SMT
  <2>4. QED
    BY <1>3, <2>2, <2>3, Zenon DEF Asked
<1>5. CASE R!uart_init
  <2>1. PICK baud \in BaudRates :
          clock # None /\ R!Asks("uart", baud, [BRG |-> (clock.fcy \div baud) \div 16 - 1])
    BY <1>5, Zenon DEF R!uart_init
  <2>2. UartAsked(baud)' /\ clock' = clock
    BY <2>1, Zenon DEF R!Asks, UartAsked
  <2>3. QED
    BY <1>3, <2>1, <2>2, Zenon DEF Asked
<1>6. CASE R!dac_init
  <2>1. PICK hz \in DacRates : clock # None /\ clock.rc /\ R!Asks("dac", hz, R!DacDividers(hz))
    BY <1>6, Zenon DEF R!dac_init
  <2>2. clock' = clock /\ rate_asked' = <<"dac", hz>> /\ dividers' = R!DacDividers(hz)
    BY <2>1, Zenon DEF R!Asks
  <2>3. DacAsked(hz)'
    BY <1>2, <2>1, <2>2, Zenon DEF DacAsked
  <2>4. QED
    BY <1>3, <2>1, <2>2, <2>3, Zenon DEF Asked
<1>7. CASE R!timer_set_period
  <2>1. PICK s \in SampleTimes :
          /\ clock # None /\ s[2] \in Int /\ (s[2] < 0 \/ Timely(s)) /\ clock' = clock
          /\ rate_asked' = <<"timer", s>> /\ dividers' = R!TimerDividers(s[1], s[2])
    BY <1>7, SMT DEF R!timer_set_period, R!Asks, Timely
  <2>3. TimerAsked(s)'
    BY <1>2, <2>1, Zenon DEF TimerAsked
  <2>4. QED
    BY <1>3, <2>1, <2>3, Zenon DEF Asked
<1>8. CASE R!can_set_speed
  <2>1. PICK s \in CanRates,
             r \in IF clock # None /\ clock.mips = 40 THEN R!speed_tab_40 ELSE R!speed_tab_30 :
          /\ clock # None /\ clock.mips = s[1] /\ r[1] = s[2]
          /\ R!Asks("can", s, [CFG1 |-> r[2], CFG2 |-> r[3]])
    BY <1>8, Zenon DEF R!can_set_speed
  <2>2. CanBit(s[1], s[2], r[2], r[3])
    BY <2>1, CanRows, Zenon
  <2>3. clock' = clock /\ rate_asked' = <<"can", s>> /\ dividers' = [CFG1 |-> r[2], CFG2 |-> r[3]]
    BY <2>1, Zenon DEF R!Asks
  <2>4. CanAsked(s, r[2], r[3])'
    BY <2>2, <2>3, Zenon DEF CanAsked
  <2>5. QED
    BY <1>3, <2>1, <2>3, <2>4, Zenon DEF Asked
<1>9. CASE UNCHANGED rates
  <2>1. clock' = clock /\ rate_asked' = rate_asked /\ dividers' = dividers
    BY <1>9, Zenon DEF rates
  <2>2. CASE rate_asked = <<"none", 0>> /\ (clock = None \/ Clocked(clock))
    BY <1>2, <2>1, <2>2, Zenon DEF RatesInv
  <2>3. CASE clock # None /\ Clocked(clock) /\ Asked
    <3>1. CASE \E khz \in SpiSpeeds : SpiAsked(khz)
      <4>1. PICK khz \in SpiSpeeds : SpiAsked(khz)
        BY <3>1, Zenon
      <4>2. SpiAsked(khz)'
        BY <1>2, <2>1, <4>1, SMT DEF SpiAsked
      <4>3. QED
        BY <1>3, <2>1, <2>3, <4>2, Zenon DEF Asked
    <3>2. CASE \E baud \in BaudRates : UartAsked(baud)
      <4>1. PICK baud \in BaudRates : UartAsked(baud)
        BY <3>2, Zenon
      <4>2. UartAsked(baud)'
        BY <2>1, <4>1, Zenon DEF UartAsked
      <4>3. QED
        BY <1>3, <2>1, <2>3, <4>2, Zenon DEF Asked
    <3>3. CASE \E hz \in DacRates : DacAsked(hz)
      <4>1. PICK hz \in DacRates : DacAsked(hz)
        BY <3>3, Zenon
      <4>2. DacAsked(hz)'
        BY <1>2, <2>1, <4>1, Zenon DEF DacAsked
      <4>3. QED
        BY <1>3, <2>1, <2>3, <4>2, Zenon DEF Asked
    <3>4. CASE \E s \in SampleTimes : TimerAsked(s)
      <4>1. PICK s \in SampleTimes : TimerAsked(s)
        BY <3>4, Zenon
      <4>2. TimerAsked(s)'
        BY <1>2, <2>1, <4>1, Zenon DEF TimerAsked
      <4>3. QED
        BY <1>3, <2>1, <2>3, <4>2, Zenon DEF Asked
    <3>5. CASE \E s, cfg1, cfg2 : CanAsked(s, cfg1, cfg2)
      <4>1. PICK s, cfg1, cfg2 : CanAsked(s, cfg1, cfg2)
        BY <3>5, Zenon
      <4>2. CanAsked(s, cfg1, cfg2)'
        BY <2>1, <4>1, Zenon DEF CanAsked
      <4>3. QED
        BY <1>3, <2>1, <2>3, <4>2, Zenon DEF Asked
    <3>6. QED
      BY <2>3, <3>1, <3>2, <3>3, <3>4, <3>5, Zenon DEF Asked
  <2>4. QED
    BY <2>2, <2>3, Zenon DEF RatesInv
<1>10. QED
  BY <1>1, <1>4, <1>5, <1>6, <1>7, <1>8, <1>9, Zenon DEF R!RatesNext

LEMMA RatesShare == [Next]_vars => R!RatesNext \/ UNCHANGED rates
BY DEF Next, vars

(* For every speed of the SPI but one, every rate of the UART up to 1/320   *)
(* of the slowest clock and every rate the DAC can reach, on each of the    *)
(* clocks, what the dividers give is the rate asked for: never faster and   *)
(* less than half slower (spi.c:313-342), within half a bit in ten          *)
(* (uart.c:165), the nearest (dac.c:106-136), to the tick (timer.c:280-296) *)
(* and exact (can.c:68-112), a part of SettingsRight.                       *)
THEOREM RatesComeOut == RatesPossible => (Spec => []R!RatesRight)
<1> SUFFICES ASSUME RatesPossible PROVE Spec => []R!RatesRight
  OBVIOUS
<1>1. Init => RatesInv
  <2>1. R!RatesInit => RatesInv
    BY Zenon DEF R!RatesInit, RatesInv
  <2>2. QED
    BY <2>1, Zenon DEF Init
<1>2. RatesInv /\ [Next]_vars => RatesInv'
  BY RatesShare, RatesStep, Zenon
<1>3. RatesInv => R!RatesRight
  BY AskedRight, Zenon
<1>4. QED
  BY <1>1, <1>2, <1>3, PTL DEF Spec

(* What the program asked for is what comes out at the other end (spi.c,    *)
(* uart.c, dac.c, timer.c and can.c for the rates, pwm.c:163-512,           *)
(* serial-io.c:194-477): the three theorems on its parts together.          *)
THEOREM SettingsComeOut == RatesPossible => (Spec => []SettingsRight)
<1> SUFFICES ASSUME RatesPossible PROVE Spec => []SettingsRight
  OBVIOUS
<1>1. Spec => []R!RatesRight
  BY RatesComeOut, Zenon
<1>2. Spec => []P!DriveTrue
  BY LastDutyShown, Zenon
<1>3. Spec => []N!FormatTrue
  BY NumbersComeBack, Zenon
<1>4. R!RatesRight /\ P!DriveTrue /\ N!FormatTrue => SettingsRight
  BY Zenon DEF SettingsRight
<1>5. QED
  BY <1>1, <1>2, <1>3, <1>4, PTL

=============================================================================
