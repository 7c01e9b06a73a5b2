------------------------------- MODULE Timer -------------------------------
(***************************************************************************)
(* The timers (timer/timer.c): who owns which, what their registers hold   *)
(* and whose callback an interrupt calls.  A 32 bit timer is made of two   *)
(* neighbours: the even one holds its configuration, the odd one raises    *)
(* its interrupt.  TIMER_1 stands alone; TIMER_2, TIMER_3 and TIMER_23     *)
(* stand for each pair.                                                    *)
(***************************************************************************)
EXTENDS Naturals, FiniteSets

CONSTANTS
  Prescalers,   \* values of TCKPS timer_set_period can choose
  Sources,      \* clock sources asked for
  Word,         \* values a period register has
  PairRule,     \* the program asks for a 32 bit timer when both halves are free only
  CleanRelease, \* the program stops a timer and its interrupt before it releases it
  PromptTimer1, \* the callback of TIMER_1 is over before the timer expires again
  None

Groups == {{"TIMER_1"}, {"TIMER_2", "TIMER_3", "TIMER_23"}}
Ids == UNION Groups
timer_id_to_32bits(id) == id = "TIMER_23"
timer_id_to_index(id) == CASE id = "TIMER_1" -> 0 [] id = "TIMER_3" -> 2 [] OTHER -> 1
(* The 16 bit timers, by slot of Timer_Data; those of id, and the one that  *)
(* raises its interrupt.                                                    *)
Slots == 0 .. 2
SlotsOf(id) == {timer_id_to_index(id)} \cup (IF timer_id_to_32bits(id) THEN {2} ELSE {})
IrqOf(id) == IF timer_id_to_32bits(id) THEN 2 ELSE timer_id_to_index(id)

VARIABLES
  ids,        \* the timers the program uses
  Timer_Data, \* callback, is_free, is_initialized, is_32bits of each slot
  con,        \* TON, TCS, TGATE, TCKPS and T32 of each slot's TxCON
  PR,         \* period register of each slot
  ie, flag,   \* _TxIE, _TxIF
  isr,        \* <<callback, argument>> of the call the slot's interrupt is in, or None
  asked,      \* configuration the owner of a timer last asked for, or None
  due         \* the timer expired, or was forced, after its last callback began

data == <<Timer_Data, asked>>
timerVars == <<ids, data, con, PR, ie, flag, isr, due>>

Owned(id) == asked[id] # None
Idle == [s \in Slots |-> FALSE]

TimerInit ==
  /\ ids \in Groups
  /\ Timer_Data = [s \in Slots |-> [callback |-> None, is_free |-> TRUE,
                                    is_initialized |-> FALSE, is_32bits |-> FALSE]]
  /\ con = [s \in Slots |-> [TON |-> FALSE, TCS |-> 0, TGATE |-> FALSE, TCKPS |-> 0, T32 |-> FALSE]]
  /\ PR = [s \in Slots |-> Word - 1]
  /\ ie = Idle /\ flag = Idle /\ due = Idle
  /\ isr = [s \in Slots |-> None] /\ asked = [id \in Ids |-> None]

(* The registers the functions write for a timer.                           *)
\* mutant: the odd timer of a pair does not take it out of the 32 bit mode
SetModeOfEven(c, id, mode) ==
  IF id \in {"TIMER_1", "TIMER_3"} THEN c ELSE [c EXCEPT ![1].T32 = mode]
m_set_32bits_mode(c, id, mode) ==
  IF id = "TIMER_1" THEN c ELSE [c EXCEPT ![1].T32 = mode]
m_set_prescaler(c, id, prescaler) == [c EXCEPT ![timer_id_to_index(id)].TCKPS = prescaler]
timer_set_clock_source(c, id, source) == [c EXCEPT ![timer_id_to_index(id)].TCS = source]
timer_use_gated_time_accumulation(c, id, enable) ==
  [c EXCEPT ![timer_id_to_index(id)].TGATE = enable]
m_set_period_16b(id, period) == [PR EXCEPT ![timer_id_to_index(id)] = period]
m_set_period_32b(id, period) ==
  [PR EXCEPT ![timer_id_to_index(id)] = period % Word,
             ![timer_id_to_index(id) + 1] = period \div Word]
PeriodsOf(id) == IF timer_id_to_32bits(id) THEN 1 .. Word * Word - 1 ELSE 1 .. Word - 1

(* timer_set_period: mode, prescaler and period.  The range checks and the  *)
(* choice of prescaler and period are in module Rates.                      *)
SetPeriod(c, id, prescaler, period) ==
  /\ con' = m_set_prescaler(m_set_32bits_mode(c, id, timer_id_to_32bits(id)), id, prescaler)
  /\ PR' = IF timer_id_to_32bits(id) THEN m_set_period_32b(id, period)
                                     ELSE m_set_period_16b(id, period)
Request(id, field, value) == asked' = [asked EXCEPT ![id][field] = value]

(* timer_disable_interrupt, timer_enable_interrupt, timer_force_interrupt:  *)
(* the odd timer's registers for a pair.                                    *)
SetIrq(id, e, f) ==
  /\ ie' = [ie EXCEPT ![IrqOf(id)] = e] /\ flag' = [flag EXCEPT ![IrqOf(id)] = f]
  /\ due' = [due EXCEPT ![IrqOf(id)] = f]

(* The program calls when no interrupt runs or waits to.                    *)
ProgramRuns == \A s \in Slots : isr[s] = None /\ ~(ie[s] /\ flag[s])

timer_is_free(id) == Timer_Data[timer_id_to_index(id)].is_free
timer_init(id) ==
  /\ ProgramRuns /\ id \in ids
  /\ timer_is_free(id)      \* or the error TIMER_ERROR_ALREADY_IN_USE, which halts
  /\ PairRule => \A s \in SlotsOf(id) : Timer_Data[s].is_free
  /\ Timer_Data' = [s \in Slots |->
       IF s = timer_id_to_index(id)
       THEN [Timer_Data[s] EXCEPT !.is_initialized = TRUE, !.is_free = FALSE,
                                  !.is_32bits = timer_id_to_32bits(id)]
       ELSE [Timer_Data[s] EXCEPT !.is_free = @ /\ s \notin SlotsOf(id)]]
  /\ SetIrq(id, FALSE, FALSE)
  /\ \E prescaler \in Prescalers, period \in PeriodsOf(id) :
       /\ SetPeriod(timer_use_gated_time_accumulation(timer_set_clock_source(con, id, 0), id, FALSE),
                    id, prescaler, period)
       /\ asked' = [asked EXCEPT ![id] = [TON |-> FALSE, TCS |-> 0, TGATE |-> FALSE,
                                    TCKPS |-> prescaler, period |-> period, ie |-> FALSE]]
  /\ UNCHANGED <<ids, isr>>

timer_release(id) ==
  /\ ProgramRuns /\ id \in ids /\ Owned(id)
  /\ CleanRelease => ~ie[IrqOf(id)] /\ ~con[timer_id_to_index(id)].TON
  /\ Timer_Data' = [s \in Slots |->
       [Timer_Data[s] EXCEPT !.is_initialized = @ /\ s # timer_id_to_index(id),
                             !.is_free = @ \/ s \in SlotsOf(id)]]
  /\ asked' = [asked EXCEPT ![id] = None]
  /\ UNCHANGED <<ids, con, PR, ie, flag, isr, due>>

(* An owner's calls.                                                        *)
timer_set_period(id) ==
  /\ ProgramRuns /\ Owned(id)
  /\ \E prescaler \in Prescalers, period \in PeriodsOf(id) :
       /\ SetPeriod(con, id, prescaler, period)
       /\ asked' = [asked EXCEPT ![id].TCKPS = prescaler, ![id].period = period]
  /\ UNCHANGED <<ids, Timer_Data, ie, flag, isr, due>>
ChooseSource(id) ==
  /\ ProgramRuns /\ Owned(id)
  /\ \E source \in Sources :
       con' = timer_set_clock_source(con, id, source) /\ Request(id, "TCS", source)
  /\ UNCHANGED <<ids, Timer_Data, PR, ie, flag, isr, due>>
Gate(id) ==
  /\ ProgramRuns /\ Owned(id)
  /\ \E enable \in BOOLEAN :
       con' = timer_use_gated_time_accumulation(con, id, enable) /\ Request(id, "TGATE", enable)
  /\ UNCHANGED <<ids, Timer_Data, PR, ie, flag, isr, due>>
timer_set_enabled(id) ==
  /\ ProgramRuns /\ Owned(id)
  /\ \E enabled \in BOOLEAN :
       /\ con' = [con EXCEPT ![timer_id_to_index(id)].TON = enabled]
       /\ Request(id, "TON", enabled)
  /\ UNCHANGED <<ids, Timer_Data, PR, ie, flag, isr, due>>

timer_enable_interrupt(id) ==
  /\ ProgramRuns /\ Owned(id)
  /\ Timer_Data' = [Timer_Data EXCEPT ![timer_id_to_index(id)].callback = id]
  /\ SetIrq(id, TRUE, FALSE) /\ Request(id, "ie", TRUE)
  /\ UNCHANGED <<ids, con, PR, isr>>
timer_disable_interrupt(id) ==
  /\ ProgramRuns /\ Owned(id)
  /\ SetIrq(id, FALSE, FALSE) /\ Request(id, "ie", FALSE)
  /\ UNCHANGED <<ids, Timer_Data, con, PR, isr>>
timer_force_interrupt(id) ==
  /\ ProgramRuns /\ Owned(id) /\ Timer_Data[timer_id_to_index(id)].callback = id
  /\ SetIrq(id, TRUE, TRUE) /\ Request(id, "ie", TRUE)
  /\ UNCHANGED <<ids, Timer_Data, con, PR, isr>>

timer_set_if(id) ==
  /\ ProgramRuns /\ Owned(id)
  /\ \E f \in BOOLEAN : SetIrq(id, ie[IrqOf(id)], f)
  /\ UNCHANGED <<ids, data, con, PR, isr>>

(* A timer that runs reaches its period: in the 32 bit mode the even one    *)
(* runs for both and the odd one raises the flag.                           *)
Runs(s) == con[IF s = 2 /\ con[1].T32 THEN 1 ELSE s].TON /\ ~(s = 1 /\ con[1].T32)
Expire(s) ==
  /\ Runs(s) /\ (s = 0 /\ PromptTimer1 => isr[0] = None)
  /\ flag' = [flag EXCEPT ![s] = TRUE] /\ due' = [due EXCEPT ![s] = TRUE]
  /\ UNCHANGED <<ids, data, con, PR, ie, isr>>

(* The interrupts: the callback of a slot with the identifier it is called  *)
(* with.  T1Interrupt clears its flag last, the others first.               *)
CallOf(s) == <<Timer_Data[s].callback, CASE s = 0 -> "TIMER_1" [] s = 1 -> "TIMER_2" [] s = 2 -> "TIMER_3">>
PairCall == <<Timer_Data[1].callback, "TIMER_23">>
\* mutant: is_32bits alone chooses, though timer_release leaves it set
OddCallBy32bits == IF Timer_Data[1].is_32bits THEN PairCall ELSE CallOf(2)
OddCall == IF Timer_Data[1].is_initialized /\ Timer_Data[1].is_32bits THEN PairCall ELSE CallOf(2)

Enter(s, call, f) ==
  /\ ie[s] /\ flag[s] /\ isr[s] = None
  /\ isr' = [isr EXCEPT ![s] = call] /\ flag' = [flag EXCEPT ![s] = f]
  /\ due' = [due EXCEPT ![s] = FALSE]
  /\ UNCHANGED <<ids, data, con, PR, ie>>
Leave(s, f) ==
  /\ isr[s] # None /\ isr' = [isr EXCEPT ![s] = None] /\ flag' = [flag EXCEPT ![s] = f]
  /\ UNCHANGED <<ids, data, con, PR, ie, due>>
T1Interrupt == Enter(0, CallOf(0), TRUE)
T1Return    == Leave(0, FALSE)
T2Interrupt == Enter(1, CallOf(1), FALSE)
T3Interrupt == Enter(2, OddCall, FALSE)
\* mutant: the flag is cleared when the callback is over
OddReturnClears(s) == Leave(s, FALSE)
PairReturn(s) == Leave(s, flag[s])

TimerNext ==
  \/ \E id \in Ids :
       \/ timer_init(id) \/ timer_release(id) \/ timer_set_period(id) \/ ChooseSource(id) \/ Gate(id)
       \/ timer_set_enabled(id) \/ timer_enable_interrupt(id) \/ timer_disable_interrupt(id)
       \/ timer_force_interrupt(id) \/ timer_set_if(id)
  \/ \E s \in Slots : Expire(s)
  \/ T1Interrupt \/ T1Return \/ T2Interrupt \/ T3Interrupt
  \/ \E s \in {1, 2} : PairReturn(s)
TimerSpec == TimerInit /\ [][TimerNext]_timerVars

(* A timer has one owner: timer.h:44, "The specified timer (one 16-bits or  *)
(* 2 16-bits timers for a 32-bits timer) is already in use".                *)
OneOwner ==
  \A s \in Slots : Cardinality({id \in Ids : Owned(id) /\ s \in SlotsOf(id)}) <= 1

(* An interrupt calls the callback of the timer's owner, with its name      *)
(* (timer.c:1324-1334: the slot is chosen by two flags, one of which        *)
(* timer_release leaves as it was).                                         *)
CallbackOwner ==
  [][\A s \in Slots : isr[s] = None /\ isr'[s] # None =>
       /\ isr'[s][1] = isr'[s][2]
       /\ Owned(isr'[s][1]) /\ IrqOf(isr'[s][1]) = s]_timerVars

(* Every owned timer is set as its owner asked, whatever the owner of the   *)
(* other half did before or does now (timer.c:1103-1128: the mode of a pair *)
(* is one bit in the even timer; 189-336, 411-460, 551-664, 677-1022).      *)
PeriodOf(id) ==
  IF timer_id_to_32bits(id) THEN PR[1] + Word * PR[2] ELSE PR[timer_id_to_index(id)]
ConfigKept ==
  \A id \in Ids : Owned(id) =>
    LET c == con[timer_id_to_index(id)]
    IN  /\ asked[id] = [TON |-> c.TON, TCS |-> c.TCS, TGATE |-> c.TGATE, TCKPS |-> c.TCKPS,
                    period |-> PeriodOf(id), ie |-> ie[IrqOf(id)]]
        /\ id # "TIMER_1" => con[1].T32 = timer_id_to_32bits(id)

(* No expiry goes without a callback: one that comes while the callback of  *)
(* the one before runs is still flagged when that returns (timer.c:1308-1450;*)
(* TIMER_1, timer.c:1291, is the exception PromptTimer1 names).             *)
ExpiryKept == \A s \in Slots : due[s] => flag[s]
=============================================================================
