----------------------------- MODULE MCDrivers -----------------------------
(***************************************************************************)
(* The drivers that share nothing with one another, each in behaviours of  *)
(* its own: the variables of the others keep one initial value.            *)
(***************************************************************************)
EXTENDS Integers, Sequences

CONSTANTS Clients,
  PromptSlave, NoEvent,
  Prescalers, Sources, Word, PairRule, CleanRelease, PromptTimer1,
  Span, Reach, TurnAtWrap,
  Buffers, AtomicClear, OneSender,
  RowSize, PageSize, FlashSize, MaxWritten, Errata, Blank,
  IntMax,
  SpiSpeeds, BaudRates, DacRates,
  Periods,
  ArrayWidth, ArrayHeight, OriginX, OriginY, LineConf, PromptVsync,
  Corners, Sides, Zooms,   \* of the windows asked for
  Values,                  \* words sent as text
  None

ASSUME DriversAssumption ==
  /\ {Word, Span, Reach, Buffers, RowSize, PageSize, FlashSize, MaxWritten, IntMax,
      ArrayWidth, ArrayHeight, OriginX, OriginY, LineConf} \subseteq Nat \ {0}
  /\ {PromptSlave, PairRule, CleanRelease, PromptTimer1, TurnAtWrap, AtomicClear, OneSender,
      PromptVsync} \subseteq BOOLEAN
  /\ RowSize % 4 = 0 /\ PageSize % RowSize = 0 /\ FlashSize % RowSize = 0
  /\ Errata \in 0 .. (RowSize \div 4) - 1
  /\ OriginX >= 16 /\ OriginY >= 4
  /\ Corners \subseteq Nat /\ Sides \cup Zooms \subseteq Nat \ {0}

(* Inputs a .cfg cannot write.                                              *)
Lengths == [read |-> 3, write |-> 2]
Gain(is_32bits, kd_s, ki_s, kp_i) ==
  [kp_p |-> 1, kd_p |-> 1, scaler_p |-> 1, speed_min |-> -2, speed_max |-> 2,
   is_32bits |-> is_32bits, kp_s |-> 1, kd_s |-> kd_s, ki_s |-> ki_s, scaler_s |-> 2,
   current_min |-> -3, current_max |-> 3, nominal |-> 2,
   kp_i |-> kp_i, ki_i |-> 1, scaler_i |-> 2, pwm_min |-> -3, pwm_max |-> 3]
Gains == {Gain(FALSE, 0, 2, 6), Gain(TRUE, 1, 1, 1)}
Simple == [kp : {1}, ki : {0, 1, 2}, kd : {0, 1}, shift : {1, 2}, limit : {3}]
Speeds == {-2, 2}
Currents == {-3, 3}
Crystals == {<<2, 32, 2, 10000000>>, <<2, 40, 4, 12000000>>}   \* 40 and 30 MIPS
SampleTimes ==
  {<<1, 3>>, <<50, 3>>, <<400, 3>>, <<100, 6>>, <<1638, 6>>, <<1639, 6>>, <<25, 9>>, <<34, 9>>}
    \cup {<<65535 * 25, 9>>, <<65535 * 25 + 1, 9>>, <<65535 * 200, 9>>, <<65535 * 200 + 1, 9>>}
    \cup {<<7, -2>>, <<65535, -4>>}
\* not <<40, 500>>: that row of the table is of another rate
CanRates == {<<40, 1000>>, <<40, 250>>, <<40, 100>>} \cup {30} \X {1000, 500, 250, 100}
Duties == {-5, 0, 3}
Requests == [x : Corners, y : Corners, w : Sides, h : Sides, zoom_w : Zooms, zoom_h : Zooms,
             bpp : {1, 2}]

(* The values that stand for nothing are none of what they are told from.   *)
ASSUME NothingAssumption ==
  /\ Prescalers \cup Sources \cup Periods \subseteq Nat
  /\ NoEvent \notin {"address", "byte", "ack"}
  /\ None \notin Requests \cup [TON : BOOLEAN, TCS : Nat, TGATE : BOOLEAN, TCKPS : Nat,
                               period : Nat, ie : BOOLEAN]
  /\ None \notin Values

VARIABLES client,
  \* I2CSlave
  i2c_id, state, slave_ie, bus, left, R_W, SCLREL, event, given, broken,
  \* Timer
  ids, Timer_Data, con, PR, timer_ie, flag, timer_isr, timer_asked, due,
  \* Encoder
  kind, counter, ovf, forward, turned, captured, position, high_word, poscnt_b15, tpos, sens,
  got_irq, at, temp, seen,
  \* Can
  can_buf, RXFUL, FBP, FNRB, next, pending, tx_buf, TXREQ0, wire, accepted, waiting, RBIF, TBIF,
  C1IF, OPMODE, REQOP, can_isr, bufn, can_frame, ful, send,
  \* Flash
  flash, latch, TBLPAG, saved_tblpag, NVMADR, current_addr, row_counter, _errata_latch_d, session,
  from, written,
  \* Motor
  controller, d, speed_t, last_error_p, last_error_s, integral_s, current_t, sat_status,
  over_status, integral_i, pwm_output, last_error, last_integral_term,
  \* Rates
  clock, rate_asked, dividers,
  \* Pwm
  pwm_id, period, mode, inverted, reverse, PEN, PMOD, POVD, POUT, PDC, last,
  \* Camera
  request, window, sampl_mode, speed, slow_path, line_conf, blank_row_betw, row, tmr, pr, ton, ic,
  vsync, line, synced, frame, current_row, buffer, img_ready,
  \* SerialFormat
  text, sent, got

S == INSTANCE I2CSlave WITH ie <- slave_ie
T == INSTANCE Timer WITH ie <- timer_ie, isr <- timer_isr, asked <- timer_asked
E == INSTANCE Encoder
C == INSTANCE Can WITH isr <- can_isr, frame <- can_frame
F == INSTANCE Flash
M == INSTANCE Motor
R == INSTANCE Rates WITH asked <- rate_asked
P == INSTANCE Pwm
V == INSTANCE Camera
N == INSTANCE SerialFormat

ASSUME WordsAssumption == Values \subseteq 0 .. N!WordSize - 1

Init ==
  /\ client \in Clients
  /\ S!SlaveInit   /\ (client = "slave" \/ i2c_id = "I2C_1")
  /\ T!TimerInit   /\ (client = "timer" \/ "TIMER_1" \in ids)
  /\ E!EncoderInit /\ (client = "encoder" \/ (kind = "QEI" /\ forward))
  /\ C!CanInit /\ F!FlashInit
  /\ M!MotorInit   /\ (client = "motor" \/ d = Gain(TRUE, 1, 1, 1))
  /\ R!RatesInit
  /\ P!PwmInit     /\ (client = "pwm" \/ pwm_id = 0)
  /\ V!CameraInit /\ N!FormatInit

slave == <<i2c_id, state, slave_ie, bus, left, R_W, SCLREL, event, given, broken>>
timer == <<ids, Timer_Data, con, PR, timer_ie, flag, timer_isr, timer_asked, due>>
encoder == <<kind, counter, ovf, forward, turned, captured, position, high_word, poscnt_b15, tpos,
             sens, got_irq, at, temp, seen>>
can == <<can_buf, RXFUL, FBP, FNRB, next, pending, tx_buf, TXREQ0, wire, accepted, waiting, RBIF,
         TBIF, C1IF, OPMODE, REQOP, can_isr, bufn, can_frame, ful, send>>
nvm == <<flash, latch, TBLPAG, saved_tblpag, NVMADR, current_addr, row_counter, _errata_latch_d,
         session, from, written>>
motor == <<controller, d, speed_t, last_error_p, last_error_s, integral_s, current_t, sat_status,
           over_status, integral_i, pwm_output, last_error, last_integral_term>>
rates == <<clock, rate_asked, dividers>>
pwm == <<pwm_id, period, mode, inverted, reverse, PEN, PMOD, POVD, POUT, PDC, last>>
camera == <<request, window, sampl_mode, speed, slow_path, line_conf, blank_row_betw, row, tmr, pr,
            ton, ic, vsync, line, synced, frame, current_row, buffer, img_ready>>
format == <<text, sent, got>>
vars == <<client, slave, timer, encoder, can, nvm, motor, rates, pwm, camera, format>>

Next ==
  /\ UNCHANGED client
  /\ \/ client = "slave" /\ S!SlaveNext
        /\ UNCHANGED <<timer, encoder, can, nvm, motor, rates, pwm, camera, format>>
     \/ client = "timer" /\ T!TimerNext
        /\ UNCHANGED <<slave, encoder, can, nvm, motor, rates, pwm, camera, format>>
     \/ client = "encoder" /\ E!EncoderNext
        /\ UNCHANGED <<slave, timer, can, nvm, motor, rates, pwm, camera, format>>
     \/ client = "can" /\ C!CanNext
        /\ UNCHANGED <<slave, timer, encoder, nvm, motor, rates, pwm, camera, format>>
     \/ client = "flash" /\ F!FlashNext
        /\ UNCHANGED <<slave, timer, encoder, can, motor, rates, pwm, camera, format>>
     \/ client = "motor" /\ M!MotorNext
        /\ UNCHANGED <<slave, timer, encoder, can, nvm, rates, pwm, camera, format>>
     \/ client = "rates" /\ R!RatesNext
        /\ UNCHANGED <<slave, timer, encoder, can, nvm, motor, pwm, camera, format>>
     \/ client = "pwm" /\ P!PwmNext
        /\ UNCHANGED <<slave, timer, encoder, can, nvm, motor, rates, camera, format>>
     \/ client = "camera" /\ V!CameraNext
        /\ UNCHANGED <<slave, timer, encoder, can, nvm, motor, rates, pwm, format>>
     \/ client = "format" /\ N!FormatNext
        /\ UNCHANGED <<slave, timer, encoder, can, nvm, motor, rates, pwm, camera>>
Spec == Init /\ [][Next]_vars

(* The properties of the drivers, stated and explained in their modules     *)
(* (i2c/slave.c, timer/timer.c, encoder/encoder.c, can/can.c, flash/flash.c,            *)
(* motor-csp/motor-csp.c and motor/motor.c, camera/po3030k): the state of   *)
(* an idle driver satisfies its own.                                        *)
InStep        == S!InStep
CallbackOwner == T!CallbackOwner
ConfigKept    == T!ConfigKept
ExpiryKept    == T!ExpiryKept
PositionTrue  == E!PositionTrue
CanIntact     == C!CanIntact
CanAnswered   == C!CanAnswered
FlashImage    == F!FlashImage
NoWindup      == M!NoWindup
CaptureTrue   == V!CaptureTrue
SpiNotFaster  == R!SpiNotFaster
(* What the program asked for is what comes out at the other end: the rates *)
(* of the buses, the outputs of a motor, a number sent as text              *)
(* (spi.c:313-342, pwm.c:163-512, serial-io.c:194-477).                     *)
SettingsRight == R!RatesRight /\ P!DriveTrue /\ N!FormatTrue
=============================================================================
