------------------------------ MODULE Encoder ------------------------------
(***************************************************************************)
(* The encoders (encoder/encoder.c): a hardware or timer counter too short *)
(* for the position, extended in software by the interrupts of its         *)
(* overflow and, for a timer, of the change of direction; and the reader   *)
(* that puts the parts together while those interrupts may come.           *)
(*                                                                         *)
(* kind is "QEI" (ENCODER_TYPE_HARD), "TMR2", "TMR3" (direction captured   *)
(* with the count, ENCODER_TIMER_2 and _3) or "TMR" (the other timers).    *)
(***************************************************************************)
EXTENDS Integers

CONSTANTS
  Span,         \* values of the counter: 0x8000 for the QEI, 0x10000 for a timer
  Reach,        \* the position stays within -Reach .. Reach, or half of it for a timer
  TurnAtWrap    \* the edge after a change of direction may be the one that overflows, before
                \* the change is served

Kinds == {"QEI", "TMR2", "TMR3", "TMR"}

VARIABLES
  kind,
  counter,   \* POS1CNT or TMRx
  ovf,       \* the interrupt flag of its overflow
  forward,   \* direction of the motor: UPDN, or the direction pin
  turned,    \* the interrupt flag of the input capture
  captured,  \* the count it captured
  position,  \* where the motor is
  high_word, poscnt_b15, \* QEI_Encoder_Data
  tpos, sens,            \* Software_Encoder_Data: sens is TRUE when counting up
  got_irq,
  at,        \* where the call of encoder_get_position is
  temp,      \* what it has read: high_word or tpos, counter, poscnt_b15 or sens
  seen       \* the position when it read the counter

hw == <<counter, ovf, forward, turned, captured, position>>
qei == <<high_word, poscnt_b15>>
soft == <<tpos, sens>>
call == <<at, temp>>
encoderVars == <<kind, hw, qei, soft, got_irq, call, seen>>

EncoderInit ==
  /\ kind \in Kinds
  /\ counter = 0 /\ ovf = FALSE /\ forward \in BOOLEAN /\ turned = FALSE /\ captured = 0
  /\ position = 0 /\ high_word = 0 /\ poscnt_b15 = 0 /\ tpos = 0 /\ sens = forward
  /\ got_irq = FALSE /\ at = "idle" /\ temp = <<0, 0, 0>> /\ seen = 0

Sign(up) == IF up THEN 1 ELSE -1
Captures == kind \in {"TMR2", "TMR3"}

(* The motor.  Interrupts are served before the next edge, as the comments  *)
(* of encoder.c:385-391 count on; only the edge after a change of direction *)
(* may come before the interrupt of a capture.                              *)
Bound == IF kind = "QEI" THEN Reach ELSE Reach \div 2
Move == position' = position + Sign(forward) /\ position' \in -Bound .. Bound
Turn ==
  /\ ~ovf /\ ~turned /\ forward' = ~forward
  /\ turned' = (kind # "QEI")
  /\ captured' = IF Captures THEN counter ELSE 0
  /\ UNCHANGED <<kind, counter, ovf, position, qei, soft, got_irq, call, seen>>
Edge ==
  /\ ~ovf /\ (turned => Captures /\ counter = captured /\ (TurnAtWrap \/ counter < Span - 1))
  /\ Move
  /\ LET next == counter + (IF kind = "QEI" THEN Sign(forward) ELSE 1)
     IN  counter' = next % Span /\ ovf' = (next \notin 0 .. Span - 1)
  /\ UNCHANGED <<kind, forward, turned, captured, qei, soft, got_irq, call, seen>>

(* The interrupt of the QEI: half of the word is in poscnt_b15.             *)
HighWord(b15) ==
  high_word + (IF b15 = 0 /\ counter < (Span \div 2) - 1 /\ forward THEN 1 ELSE 0)
            - (IF b15 # 0 /\ counter > (Span \div 2) - 1 /\ ~forward THEN 1 ELSE 0)
QEIInterrupt ==
  /\ kind = "QEI" /\ ovf /\ ovf' = FALSE /\ got_irq' = TRUE
  /\ poscnt_b15' = Span - poscnt_b15 /\ high_word' = HighWord(poscnt_b15')
  /\ UNCHANGED <<kind, counter, forward, turned, captured, position, soft, call, seen>>

(* The interrupts of a timer: its overflow, and the change of direction.    *)
tmr_cb ==
  /\ kind = "TMR" /\ ovf /\ ovf' = FALSE
  /\ tpos' = tpos + Sign(sens) * Span /\ got_irq' = TRUE
  /\ UNCHANGED <<kind, counter, forward, turned, captured, position, qei, sens, call, seen>>
tmr2_3_cb ==
  /\ Captures /\ ovf /\ ovf' = FALSE
  /\ tpos' = tpos + (IF sens # forward THEN 0 ELSE Sign(sens) * Span)
  /\ got_irq' = (got_irq \/ sens = forward)
  /\ UNCHANGED <<kind, counter, forward, turned, captured, position, qei, sens, call, seen>>
ic_cb ==
  /\ kind = "TMR" /\ turned /\ turned' = FALSE
  /\ tpos' = tpos + Sign(sens) * counter /\ counter' = 0
  /\ sens' = forward /\ got_irq' = TRUE
  /\ UNCHANGED <<kind, ovf, forward, captured, position, qei, call, seen>>
(* What was counted after the capture goes the other way; when the counter  *)
(* has overflowed since, the code takes one edge too few (0xFFFF).          *)
Since == IF counter < captured THEN (Span - 1 - captured) + counter ELSE counter - captured
CaptureCallback ==
  /\ turned /\ turned' = FALSE
  /\ tpos' = tpos + Sign(sens) * captured - Sign(sens) * Since /\ counter' = 0
  /\ ovf' = (ovf /\ counter >= captured)
  /\ sens' = forward /\ got_irq' = TRUE
  /\ captured' = 0
  /\ UNCHANGED <<kind, forward, position, qei, call, seen>>
ic_tmr2_cb == kind = "TMR2" /\ CaptureCallback
ic_tmr3_cb == kind = "TMR3" /\ CaptureCallback

(* encoder_get_position, one step per access.  The interrupts have a higher *)
(* priority: one that waits is served before got_irq is tested.             *)
Clear ==
  /\ at \in {"idle", "retry"} /\ at' = "first" /\ got_irq' = FALSE
  /\ UNCHANGED <<kind, hw, qei, soft, temp, seen>>
ReadBase(from, to, base) ==
  /\ at = from /\ at' = to /\ temp' = [temp EXCEPT ![1] = base]
  /\ UNCHANGED <<kind, hw, qei, soft, got_irq, seen>>
ReadCounter(from, to) ==
  /\ at = from /\ at' = to /\ temp' = [temp EXCEPT ![2] = counter] /\ seen' = position
  /\ UNCHANGED <<kind, hw, qei, soft, got_irq>>
ReadHalf ==
  /\ at = "third" /\ at' = "test"
  /\ temp' = [temp EXCEPT ![3] = IF kind = "QEI" THEN poscnt_b15 ELSE Sign(sens)]
  /\ UNCHANGED <<kind, hw, qei, soft, got_irq, seen>>
ReadQei  == kind = "QEI" /\ (ReadCounter("first", "second") \/ ReadBase("second", "third", high_word))
ReadSoft == kind # "QEI" /\ (ReadBase("first", "second", tpos) \/ ReadCounter("second", "third"))
\* mutant: the parts are taken as they were read
NeverAgain == FALSE
Again == got_irq
Test ==
  /\ at = "test" /\ ~ovf /\ ~turned
  /\ at' = (IF Again THEN "retry" ELSE "idle") /\ temp' = <<0, 0, 0>> /\ seen' = 0
  /\ UNCHANGED <<kind, hw, qei, soft, got_irq>>

(* encoder_reset, with the interrupts of the encoder held off.              *)
encoder_reset ==
  /\ at = "idle" /\ ~ovf /\ ~turned
  /\ counter' = 0 /\ position' = 0 /\ seen' = 0
  /\ IF kind = "QEI" THEN high_word' = 0 /\ poscnt_b15' = 0 /\ UNCHANGED soft
                     ELSE tpos' = 0 /\ UNCHANGED <<sens, qei>>
  /\ UNCHANGED <<kind, ovf, forward, turned, captured, got_irq, call>>

EncoderNext ==
  \/ Turn \/ Edge \/ QEIInterrupt \/ tmr_cb \/ tmr2_3_cb \/ ic_cb \/ ic_tmr2_cb \/ ic_tmr3_cb
  \/ Clear \/ ReadQei \/ ReadSoft \/ ReadHalf \/ Test
  \/ encoder_reset

(* A whole call by an interrupt between two steps of the program's.         *)
NestedCall ==
  /\ at \notin {"idle", "retry"} /\ ~ovf /\ ~turned /\ got_irq' = FALSE
  /\ UNCHANGED <<kind, hw, qei, soft, call, seen>>

EncoderSpec == EncoderInit /\ [][EncoderNext]_encoderVars
TwoCallersSpec == EncoderInit /\ [][EncoderNext \/ NestedCall]_encoderVars

(* The position put together is where the motor was when the counter was    *)
(* read (encoder.c:262-301: three reads, repeated when an interrupt came    *)
(* between), however the overflows and turns of :375-563 fell.              *)
Result == IF kind = "QEI" THEN 2 * Span * temp[1] + temp[2] + temp[3]
                          ELSE temp[1] + temp[3] * temp[2]
PositionTrue == [][at = "test" /\ at' = "idle" => Result = seen]_encoderVars
=============================================================================
