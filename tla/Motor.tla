------------------------------- MODULE Motor -------------------------------
(***************************************************************************)
(* The two motor controllers: the nested current, speed and position       *)
(* controllers of motor-csp/motor-csp.c, and the single PID of             *)
(* motor/motor.c.  Both keep an integral that they recompute when their    *)
(* output saturates.                                                       *)
(***************************************************************************)
EXTENDS Integers

CONSTANTS
  IntMax,     \* largest int, 32767
  Speeds,     \* speed (or position) errors the measures give
  Currents,   \* currents measured
  Gains,      \* controllers: records of the parameters named below
  Simple      \* the same for motor.c: kp, ki, kd, shift, limit

Abs(x) == IF x < 0 THEN -x ELSE x
Sgn(x) == IF x < 0 THEN -1 ELSE 1
(* Division toward zero: div32by16s on its magnitudes, and /.               *)
div32by16u(a, b) == a \div b
div32by16s(a, b) == Sgn(a) * Sgn(b) * div32by16u(Abs(a), Abs(b))
Clamp(x, low, high) == IF x > high THEN high ELSE IF x < low THEN low ELSE x

VARIABLES
  controller,   \* "csp" or "simple"
  d,            \* its parameters
  speed_t, last_error_p,
  last_error_s, integral_s, current_t,
  sat_status,   \* side the current controller is saturated on: 1, -1 or 0
  over_status,  \* _over_status
  integral_i, pwm_output,
  last_error, last_integral_term   \* of motor.c

position == <<speed_t, last_error_p>>
speed == <<last_error_s, integral_s>>
current == <<integral_i, pwm_output, sat_status>>
simple == <<last_error, last_integral_term>>
motorVars == <<controller, d, position, speed, current_t, over_status, current, simple>>

(* motor_csp_init_16 and _32 clear everything; the program then sets the    *)
(* parameters.                                                              *)
MotorInit ==
  /\ \/ controller = "csp" /\ d \in Gains
     \/ controller = "simple" /\ d \in Simple
  /\ speed_t = 0 /\ last_error_p = 0 /\ last_error_s = 0 /\ integral_s = 0 /\ current_t = 0
  /\ sat_status = 0 /\ over_status = FALSE /\ integral_i = 0 /\ pwm_output = 0
  /\ last_error = 0 /\ last_integral_term = 0

(* A long divided by an int: the quotient when it fits, else the limit on   *)
(* the side of the dividend.                                                *)
Fits(temp, scaler) == Abs(div32by16s(temp, scaler)) <= IntMax
Scaled(temp, scaler, min, max) ==
  IF Fits(temp, scaler) THEN div32by16s(temp, scaler) ELSE IF temp > 0 THEN max ELSE min

(* p_control_32 and p_control_16: the second limits its output.             *)
Pd(error) == error * d.kp_p + (error - last_error_p) * d.kd_p
p_control_32(error) ==
  /\ speed_t' = Scaled(Pd(error), d.scaler_p, d.speed_min, d.speed_max)
  /\ last_error_p' = error
p_control_16(error) ==
  /\ speed_t' = Clamp(Scaled(Pd(error), d.scaler_p, d.speed_min, d.speed_max),
                      d.speed_min, d.speed_max)
  /\ last_error_p' = error

(* s_control: the speed controller, and what it does to its integral.       *)
Low  == IF over_status THEN -d.nominal ELSE d.current_min
High == IF over_status THEN d.nominal ELSE d.current_max
\* mutant: the integral is not recomputed while the current is limited to its nominal value
ArwUnlessLimited(output) == ~over_status /\ output \notin Low .. High
do_arw(output) == output \notin Low .. High
s_control(speed_m) ==
  LET target   == Clamp(speed_t', d.speed_min, d.speed_max)
      error    == target - speed_m
      pd       == d.kp_s * error + d.kd_s * (error - last_error_s)
      integral == integral_s + error
      output   == Scaled(pd + integral * d.ki_s, d.scaler_s, d.current_min, d.current_max)
      limited  == Clamp(output, Low, High)
      heldBack == sat_status # 0 /\ (limited - current_t) * sat_status > 0
  IN  /\ last_error_s' = error
      /\ IF do_arw(output) /\ d.ki_s # 0
         THEN /\ integral_s' = div32by16s(limited * d.scaler_s - pd, d.ki_s)
              /\ current_t' = limited
         ELSE /\ integral_s' = IF heldBack THEN integral_s ELSE integral
              /\ current_t' = IF heldBack THEN Clamp(current_t, Low, High) ELSE limited

(* The current controller of motor_csp_step; when the quotient does not fit *)
(* the code looks at the sign of the quotient, which then is any.           *)
PwmOutputs(temp) ==
  IF Fits(temp, d.scaler_i) THEN {div32by16s(temp, d.scaler_i)} ELSE {d.pwm_min, d.pwm_max}
CurrentControl(current_m) ==
  LET error    == current_t' - current_m
      integral == integral_i + error
  IN  \E output \in PwmOutputs(d.kp_i * error + integral * d.ki_i) :
        /\ pwm_output' = Clamp(output, d.pwm_min, d.pwm_max)
        /\ sat_status' = (IF output >= d.pwm_max THEN 1 ELSE IF output <= d.pwm_min THEN -1 ELSE 0)
        /\ integral_i' = IF sat_status' # 0 /\ d.ki_i # 0
                         THEN div32by16s(pwm_output' * d.scaler_i - d.kp_i * error, d.ki_i)
                         ELSE integral

(* motor_csp_step: on every prescaler_period-th call the position and speed *)
(* controllers first; in any call the filter of the heat may change         *)
(* _over_status (motor-csp.c:247-273, its outcome is any here).             *)
OverCurrent == over_status' \in BOOLEAN
Outer ==
  \E error \in Speeds, speed_m \in Speeds :
    /\ IF d.is_32bits THEN p_control_32(error) ELSE p_control_16(error)
    /\ s_control(speed_m)
motor_csp_step ==
  /\ controller = "csp"
  /\ \/ Outer
     \/ UNCHANGED <<position, speed>> /\ current_t' = Clamp(current_t, Low, High)
  /\ OverCurrent /\ \E current_m \in Currents : CurrentControl(current_m)
  /\ UNCHANGED <<controller, d, simple>>

(* motor_step of motor.c; >> rounds down.                                   *)
motor_step ==
  /\ controller = "simple"
  /\ \E error \in Speeds, forget \in BOOLEAN :
       LET pd       == d.kp * error + d.kd * (error - last_error)
           integral == d.ki * error + last_integral_term
           output   == (pd + integral) \div d.shift
           limited  == Clamp(output, -d.limit, d.limit)
           stored   == IF output # limited /\ d.ki # 0 THEN limited * d.shift - pd ELSE integral
       IN  /\ last_error' = error
           /\ last_integral_term' =
                IF forget /\ stored # 0 THEN stored - Sgn(stored) ELSE stored
  /\ UNCHANGED <<controller, d, position, speed, current_t, over_status, current>>

MotorNext == motor_csp_step \/ motor_step

(* However long an output is saturated, the integrals stay what the limits  *)
(* explain (motor-csp.c:91-128, 296-319, motor.c:135-153: the integral is   *)
(* recomputed from the limit): the controller answers as soon as the error  *)
(* changes sign.  For gains whose proportional and derivative part alone    *)
(* does not exceed an int: beyond that s_control limits without recomputing.*)
Largest(S) == CHOOSE s \in S : \A t \in S : t <= s
Explained(limit, scaler, kp, kd, ki, error) ==
  ((limit + 1) * scaler + (kp + 2 * kd) * error) \div ki + error
NoWindup ==
  LET speed_error   == d.speed_max + Largest(Speeds)
      current_error == d.current_max + Largest(Currents)
  IN  IF controller = "simple"
      THEN Abs(last_integral_term) <=
             Explained(d.limit, d.shift, d.kp, d.kd, 1, Largest(Speeds))
      ELSE /\ Abs(integral_s) <=
                Explained(d.current_max, d.scaler_s, d.kp_s, d.kd_s, d.ki_s, speed_error)
           /\ Abs(integral_i) <=
                Explained(d.pwm_max, d.scaler_i, d.kp_i, 0, d.ki_i, current_error)
=============================================================================
