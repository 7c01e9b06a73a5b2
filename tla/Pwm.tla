-------------------------------- MODULE Pwm --------------------------------
(***************************************************************************)
(* The motor outputs of the PWM driver (pwm/pwm.c): each channel drives    *)
(* two pins, which the override register gives to the generator or holds   *)
(* at a level.  The mode of the brake and the reversal take effect at the  *)
(* next duty, which writes only some of the registers.                     *)
(***************************************************************************)
EXTENDS Integers

CONSTANTS
  Duties,    \* duties asked for
  Periods,   \* contents of PTPER
  None

Modes == {"ONE_DEFAULT_LOW", "ONE_DEFAULT_HIGH", "BOTH_DEFAULT_LOW", "BOTH_DEFAULT_HIGH"}
Inverted == {"BOTH_INVERTED_DEFAULT_LOW", "BOTH_INVERTED_DEFAULT_HIGH"}
Pins == {"L", "H"}

VARIABLES
  pwm_id,      \* the channel; the four have registers of their own
  period, mode, inverted, reverse,   \* PWM_Data; inverted holds the PMOD bit
  PEN, PMOD, POVD, POUT, PDC,        \* the registers of the channel
  last         \* duty, mode, PMOD and reversal of the last pwm_set_duty since the
               \* channel was initialised or disabled, or None

data == <<pwm_id, period, mode, inverted, reverse>>
registers == <<PEN, PMOD, POVD, POUT, PDC>>
pwmVars == <<data, registers, last>>

PwmInit ==
  /\ pwm_id \in 0 .. 3 /\ period = 0 /\ mode = "ONE_DEFAULT_LOW" /\ inverted = 0 /\ reverse = FALSE
  /\ PEN = FALSE /\ PMOD = 0 /\ PDC = 0 /\ last = None
  /\ POVD = [p \in Pins |-> TRUE] /\ POUT = [p \in Pins |-> 0]

(* At any time: the registers of the channel keep what they held for the    *)
(* period before, and mean something else until the next duty is set.       *)
pwm_init ==
  /\ \E p \in Periods, upDown \in BOOLEAN : period' = IF upDown THEN 2 * p ELSE p
  /\ inverted' = 1 /\ last' = None
  /\ UNCHANGED <<pwm_id, mode, reverse, registers>>
pwm_disable == PEN' = FALSE /\ last' = None /\ UNCHANGED <<data, PMOD, POVD, POUT, PDC>>

pwm_set_brake ==
  /\ \/ mode' \in Modes /\ inverted' = 1
     \/ mode' = "BOTH_DEFAULT_LOW" /\ inverted' = 0
     \/ mode' = "BOTH_DEFAULT_HIGH" /\ inverted' = 0
  /\ UNCHANGED <<pwm_id, period, reverse, registers, last>>
pwm_invert == reverse' \in BOOLEAN /\ UNCHANGED <<pwm_id, period, mode, inverted, registers, last>>

(* pwm_set_duty: the pins are given to the generator (POVD) or held.        *)
Default == IF mode \in {"ONE_DEFAULT_LOW", "BOTH_DEFAULT_LOW"} THEN 0 ELSE 1
One == mode \in {"ONE_DEFAULT_LOW", "ONE_DEFAULT_HIGH"}
Smaller(a, b) == IF a < b THEN a ELSE b
Magnitude(d) == IF d < 0 THEN -d ELSE d
Stop ==
  /\ POVD' = [p \in Pins |-> FALSE] /\ POUT' = [p \in Pins |-> Default] /\ UNCHANGED PDC
Holds(pin) == [POUT EXCEPT ![pin] = Default]
Run(d) ==
  LET held == IF d > 0 THEN "L" ELSE "H"
  IN  /\ POVD' = [p \in Pins |-> ~(One /\ p = held)]
      /\ POUT' = (IF One THEN Holds(held) ELSE POUT)
      /\ PDC' = IF Default = 0 THEN Magnitude(d) ELSE period - Smaller(Magnitude(d), period)
SetDuty(id) ==
  /\ pwm_id = id /\ period # 0
  /\ PEN' = TRUE /\ PMOD' = inverted
  /\ \E duty \in Duties :
       LET d == IF reverse THEN -duty ELSE duty
       IN  /\ (d = 0 /\ Stop) \/ (d # 0 /\ Run(d))
           /\ last' = [duty |-> duty, mode |-> mode, PMOD |-> inverted, reverse |-> reverse]
  /\ UNCHANGED data
set_duty_1 == SetDuty(0)
set_duty_2 == SetDuty(1)
set_duty_3 == SetDuty(2)
set_duty_4 == SetDuty(3)

PwmNext ==
  \/ pwm_init \/ pwm_disable \/ pwm_set_brake \/ pwm_invert
  \/ set_duty_1 \/ set_duty_2 \/ set_duty_3 \/ set_duty_4

(* What a pin carries: the part of the period it is high.                   *)
High(pin) ==
  IF ~POVD[pin] THEN POUT[pin] * period
  ELSE IF pin = "L" /\ PMOD = 0 THEN period - Smaller(PDC, period) ELSE Smaller(PDC, period)

(* Whatever was set before, the pins show the last duty in the mode that    *)
(* was in force (pwm.h:88-94, pwm.c:163-512): a duty of 0 leaves both at    *)
(* the default level; otherwise, with one channel at a time, one pin is at  *)
(* the default and the other away from it for the time asked, the two       *)
(* changing places with the sign and with the reversal; with both, both     *)
(* are, or are each other's complement.                                     *)
DriveTrue ==
  last # None =>
    LET low == last.mode \in {"ONE_DEFAULT_LOW", "BOTH_DEFAULT_LOW"}
        one == last.mode \in {"ONE_DEFAULT_LOW", "ONE_DEFAULT_HIGH"}
        Away(pin) == IF low THEN High(pin) ELSE period - High(pin)
        time == Smaller(Magnitude(last.duty), period)
        forward == (last.duty > 0) # last.reverse
        driven == IF forward THEN "H" ELSE "L"
    IN  CASE last.duty = 0 -> \A p \in Pins : Away(p) = 0
          [] last.duty # 0 /\ one -> \A p \in Pins : Away(p) = IF p = driven THEN time ELSE 0
          [] last.duty # 0 /\ ~one ->
               Away("H") = time /\ Away("L") = IF last.PMOD = 1 THEN time ELSE period - time
=============================================================================
