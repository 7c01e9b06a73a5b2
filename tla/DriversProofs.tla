--------------------------- MODULE DriversProofs ---------------------------
(***************************************************************************)
(* Theorems about the I2C slave, the timers, the CAN driver and the camera,*)
(* for every set of prescalers and clock sources, every width of a period  *)
(* register, every number of reception buffers and every size of a sensor. *)
(***************************************************************************)
EXTENDS MCDrivers, Rings, TLAPS

-----------------------------------------------------------------------------
(* The slave.  An event that waits to be served leaves it where it was one  *)
(* move of the master ago.                                                  *)
Directions == {"read", "write"}

LEMMA Agreed == Lengths["read"] = 3 /\ Lengths["write"] = 2
BY DEF Lengths

SlaveTypes ==
  /\ slave_ie \in BOOLEAN /\ SCLREL \in BOOLEAN /\ broken \in BOOLEAN
  /\ bus \in Directions \cup {"idle"} /\ R_W \in Directions
  /\ left \in 0 .. Lengths[R_W] /\ given \in Nat
  /\ bus # "idle" => R_W = bus
  /\ bus = "idle" => SCLREL

(* The state and the count that go with l bytes left of a message.          *)
Follows(b, l) ==
  /\ b = "idle" \/ l = 0 => state = "I2C_IDLE"
  /\ b = "write" /\ l # 0 => state = "I2C_FROM_MASTER"
  /\ b = "read" /\ l = 1 => state = "I2C_END_TO_MASTER"
  /\ b = "read" /\ l \notin {0, 1} => state = "I2C_TO_MASTER"
  /\ b = "write" => given = 2 - l
  /\ b = "read" /\ l > 0 => given = 4 - l

Settled   == event = NoEvent /\ SCLREL /\ Follows(bus, left)
Addressed == /\ event = "address" /\ bus \in Directions /\ left = Lengths[bus]
             /\ state = "I2C_IDLE"
Written   == /\ event = "byte" /\ R_W = "write" /\ bus # "read" /\ left \in 0 .. 1
             /\ (bus = "idle" => left = 0) /\ Follows("write", left + 1)
Fetched   == /\ event = "ack" /\ bus = "read" /\ left \in 0 .. 2 /\ ~SCLREL
             /\ Follows("read", left + 1)

SlaveInv ==
  /\ SlaveTypes
  /\ ~broken => slave_ie /\ (Settled \/ Addressed \/ Written \/ Fetched)

LEMMA SlaveInitInv == Init => SlaveInv
<1>1. Init => S!SlaveInit
  BY DEF Init
<1>2. S!SlaveInit => SlaveTypes
  <2> SUFFICES ASSUME S!SlaveInit PROVE SlaveTypes
    OBVIOUS
  <2> USE Agreed DEF S!SlaveInit, Directions
  <2>1. slave_ie \in BOOLEAN /\ SCLREL \in BOOLEAN /\ broken \in BOOLEAN /\ given \in Nat
    OBVIOUS
  <2>2. bus \in Directions \cup {"idle"} /\ R_W \in Directions /\ left \in 0 .. Lengths[R_W]
    OBVIOUS
  <2>3. (bus # "idle" => R_W = bus) /\ (bus = "idle" => SCLREL)
    OBVIOUS
  <2>4. QED
    BY <2>1, <2>2, <2>3 DEF SlaveTypes
<1>3. S!SlaveInit => broken
  BY DEF S!SlaveInit
<1>4. QED
  BY <1>1, <1>2, <1>3 DEF SlaveInv

LEMMA SlaveIsInStep == SlaveInv => InStep
<1> SUFFICES ASSUME SlaveInv, ~broken, event = NoEvent PROVE S!InStep
  BY DEF InStep, S!InStep
<1>1. Settled /\ SlaveTypes
  BY NothingAssumption DEF SlaveInv, Addressed, Written, Fetched
<1>2. CASE bus = "idle" \/ left = 0
  BY <1>1, <1>2, Agreed DEF S!InStep, Settled, SlaveTypes, Follows
<1>3. CASE bus = "write" /\ left # 0
  BY <1>1, <1>3, Agreed DEF S!InStep, Settled, SlaveTypes, Follows
<1>4. CASE bus = "read" /\ left # 0
  BY <1>1, <1>4, Agreed DEF S!InStep, Settled, SlaveTypes, Follows
<1>5. QED
  BY <1>1, <1>2, <1>3, <1>4 DEF SlaveTypes, Directions

LEMMA SlaveCalls ==
  SlaveInv /\ (S!i2c_init_slave \/ S!i2c_slave_return_to_idle \/ S!i2c_disable_slave) => SlaveInv'
<1> SUFFICES ASSUME SlaveInv,
                    S!i2c_init_slave \/ S!i2c_slave_return_to_idle \/ S!i2c_disable_slave
             PROVE  SlaveInv'
  OBVIOUS
<1> USE Agreed DEF SlaveInv, SlaveTypes, Directions
<1>1. CASE S!i2c_init_slave
  BY <1>1 DEF S!i2c_init_slave, S!wire, Settled, Follows
<1>2. CASE S!i2c_slave_return_to_idle
  BY <1>2 DEF S!i2c_slave_return_to_idle, S!wire, Settled, Follows
<1>3. CASE S!i2c_disable_slave
  BY <1>3 DEF S!i2c_disable_slave, S!wire
<1>4. QED
  BY <1>1, <1>2, <1>3

LEMMA SlaveHears ==
  SlaveInv /\ PromptSlave
    /\ ((\E rw \in Directions : S!MasterAddress(rw)) \/ S!MasterByte \/ S!MasterStop) => SlaveInv'
<1> SUFFICES ASSUME SlaveInv, PromptSlave,
                    (\E rw \in Directions : S!MasterAddress(rw)) \/ S!MasterByte \/ S!MasterStop
             PROVE  SlaveInv'
  OBVIOUS
<1> USE Agreed DEF SlaveInv, SlaveTypes, Directions
<1>1. ASSUME NEW rw \in Directions, S!MasterAddress(rw) PROVE SlaveInv'
  BY <1>1, NothingAssumption
     DEF S!MasterAddress, S!Room, Settled, Addressed, Written, Fetched, Follows
<1>2. CASE S!MasterByte
  BY <1>2, NothingAssumption
     DEF S!MasterByte, S!Room, Settled, Addressed, Written, Fetched, Follows
<1>3. CASE S!MasterStop
  BY <1>3, NothingAssumption
     DEF S!MasterStop, S!wire, Settled, Addressed, Written, Fetched, Follows
<1>4. QED
  BY <1>1, <1>2, <1>3

LEMMA SlaveAnswers == ASSUME NEW id, SlaveInv, S!Interrupt(id) PROVE SlaveInv'
<1> USE Agreed DEF SlaveInv, SlaveTypes, Directions
<1>1. UNCHANGED <<slave_ie, bus, left, R_W, broken>> /\ event' = NoEvent /\ SCLREL' /\ event # NoEvent
  BY DEF S!Interrupt, S!wire
<1>2. S!ToMaster \/ S!FromMaster \/ S!EndToMaster
  BY DEF S!Interrupt
<1>3. ASSUME ~broken PROVE Settled'
  BY <1>1, <1>2, <1>3, NothingAssumption
     DEF S!ToMaster, S!FromMaster, S!EndToMaster, S!data_to_master, S!data_from_master,
         Settled, Addressed, Written, Fetched, Follows
<1>4. given' \in Nat
  BY <1>2 DEF S!ToMaster, S!FromMaster, S!EndToMaster, S!data_to_master, S!data_from_master
<1>5. QED
  BY <1>1, <1>3, <1>4

(* The slave keeps in step with the master when each interrupt is served    *)
(* before the next byte is there (slave.c:246-299): nothing but its own     *)
(* count tells it where a message ends.                                     *)
THEOREM SlaveKeepsStep ==
  ASSUME PromptSlave
  PROVE  Spec => []InStep
<1>1. SlaveInv /\ [Next]_vars => SlaveInv'
  <2> SUFFICES ASSUME SlaveInv, [Next]_vars PROVE SlaveInv'
    OBVIOUS
  <2>1. CASE S!SlaveNext
    BY <2>1, SlaveCalls, SlaveHears, SlaveAnswers
       DEF S!SlaveNext, Directions, S!SI2C1Interrupt, S!SI2C2Interrupt, S!SI2C3Interrupt
  <2>2. CASE UNCHANGED slave
    BY <2>2 DEF slave, SlaveInv, SlaveTypes, Settled, Addressed, Written, Fetched, Follows
  <2>3. QED
    BY <2>1, <2>2 DEF Next, vars
<1>2. QED
  BY <1>1, SlaveInitInv, SlaveIsInStep, PTL DEF Spec

-----------------------------------------------------------------------------
(* The timers.                                                              *)
TimerIds == {"TIMER_1", "TIMER_2", "TIMER_3", "TIMER_23"}
Configurations ==
  [TON : BOOLEAN, TCS : Nat, TGATE : BOOLEAN, TCKPS : Nat, period : Nat, ie : BOOLEAN]
Control == [TON : BOOLEAN, TCS : Nat, TGATE : BOOLEAN, TCKPS : Nat, T32 : BOOLEAN]
Entries == [callback : TimerIds \cup {None}, is_free : BOOLEAN, is_initialized : BOOLEAN,
            is_32bits : BOOLEAN]

TimerTypes ==
  /\ ids \subseteq TimerIds
  /\ Timer_Data \in [0 .. 2 -> Entries]
  /\ con \in [0 .. 2 -> Control] /\ PR \in [0 .. 2 -> Nat]
  /\ timer_ie \in [0 .. 2 -> BOOLEAN] /\ flag \in [0 .. 2 -> BOOLEAN]
  /\ due \in [0 .. 2 -> BOOLEAN]
  /\ timer_isr \in [0 .. 2 -> ((TimerIds \cup {None}) \X TimerIds) \cup {None}]
  /\ timer_asked \in [TimerIds -> Configurations \cup {None}]

(* TIMER_1 clears its flag when its callback is over: no expiry is due by   *)
(* then.                                                                    *)
ExpiryInv ==
  /\ \A s \in 0 .. 2 : due[s] => flag[s]
  /\ timer_isr[0] # None => ~due[0]

(* What is set up has an owner, and a pair shares neither half.             *)
Free(s) == Timer_Data[s].is_free
Callback(s) == Timer_Data[s].callback
Wide(s) == Timer_Data[s].is_32bits
Ready(s) == Timer_Data[s].is_initialized

OwnersInv ==
  /\ T!Owned("TIMER_23") => ~T!Owned("TIMER_2") /\ ~T!Owned("TIMER_3")
  /\ T!Owned("TIMER_1") => ~Free(0)
  /\ T!Owned("TIMER_2") => ~Free(1) /\ Ready(1) /\ ~Wide(1)
  /\ T!Owned("TIMER_3") => ~Free(2)
  /\ T!Owned("TIMER_23") => ~Free(1) /\ ~Free(2) /\ Ready(1) /\ Wide(1)
  /\ Ready(1) => T!Owned("TIMER_2") \/ T!Owned("TIMER_23")
  /\ timer_ie[0] => T!Owned("TIMER_1") /\ Callback(0) = "TIMER_1"
  /\ timer_ie[1] => T!Owned("TIMER_2") /\ Callback(1) = "TIMER_2"
  /\ timer_ie[2] => \/ T!Owned("TIMER_3") /\ Callback(2) = "TIMER_3"
                    \/ T!Owned("TIMER_23") /\ Callback(1) = "TIMER_23"
  /\ con[0].TON => T!Owned("TIMER_1")
  /\ con[1].TON => T!Owned("TIMER_2") \/ T!Owned("TIMER_23")
  /\ con[2].TON => T!Owned("TIMER_3")

LEMMA Quotient ==
  ASSUME NEW w \in Nat \ {0}, NEW p \in Nat
  PROVE  p % w \in Nat /\ p \div w \in Nat /\ (p % w) + w * (p \div w) = p
OBVIOUS

LEMMA TheTimers ==
  /\ T!Ids = TimerIds
  /\ \A id \in TimerIds : T!PeriodsOf(id) \subseteq Nat
  /\ T!timer_id_to_index("TIMER_1") = 0 /\ T!IrqOf("TIMER_1") = 0 /\ T!SlotsOf("TIMER_1") = {0}
  /\ T!timer_id_to_index("TIMER_2") = 1 /\ T!IrqOf("TIMER_2") = 1 /\ T!SlotsOf("TIMER_2") = {1}
  /\ T!timer_id_to_index("TIMER_3") = 2 /\ T!IrqOf("TIMER_3") = 2 /\ T!SlotsOf("TIMER_3") = {2}
  /\ T!timer_id_to_index("TIMER_23") = 1 /\ T!IrqOf("TIMER_23") = 2
  /\ T!SlotsOf("TIMER_23") = {1, 2}
  /\ T!timer_id_to_32bits("TIMER_23")
  /\ \A id \in TimerIds \ {"TIMER_23"} : ~T!timer_id_to_32bits(id)
<1>1. T!Ids = TimerIds
  BY DEF T!Ids, T!Groups, TimerIds
<1>2. \A id \in TimerIds : T!PeriodsOf(id) \subseteq Nat
  <2>1. Word \in Nat
    BY DriversAssumption
  <2>2. Word * Word \in Nat
    BY <2>1
  <2>3. QED
    BY <2>1, <2>2 DEF T!PeriodsOf
<1>3. QED
  BY <1>1, <1>2 DEF T!timer_id_to_index, T!IrqOf, T!SlotsOf, T!timer_id_to_32bits, TimerIds

LEMMA TimerInitInv == Init => TimerTypes /\ ExpiryInv /\ OwnersInv /\ ConfigKept
<1> SUFFICES ASSUME Init PROVE TimerTypes /\ ExpiryInv /\ OwnersInv /\ ConfigKept
  OBVIOUS
<1>1. T!TimerInit
  BY DEF Init
<1>2. TimerTypes
  <2>1. ids \subseteq TimerIds
    BY <1>1 DEF T!TimerInit, T!Groups, TimerIds
  <2>2. Timer_Data \in [0 .. 2 -> Entries]
    BY <1>1 DEF T!TimerInit, T!Slots, Entries
  <2>3. con \in [0 .. 2 -> Control]
    BY <1>1 DEF T!TimerInit, T!Slots, Control
  <2>4. PR \in [0 .. 2 -> Nat]
    BY <1>1, DriversAssumption DEF T!TimerInit, T!Slots
  <2>5. timer_asked \in [TimerIds -> Configurations \cup {None}]
    BY <1>1, TheTimers DEF T!TimerInit
  <2>6. QED
    BY <1>1, <2>1, <2>2, <2>3, <2>4, <2>5 DEF T!TimerInit, T!Idle, T!Slots, TimerTypes
<1>3. ExpiryInv
  BY <1>1 DEF T!TimerInit, T!Idle, T!Slots, ExpiryInv
<1>4. \A id \in TimerIds : ~T!Owned(id)
  BY <1>1, TheTimers DEF T!TimerInit, T!Owned
<1>5. OwnersInv
  BY <1>1, <1>4 DEF T!TimerInit, T!Idle, T!Slots, OwnersInv, TimerIds, Free, Ready, Wide, Callback
<1>6. ConfigKept
  BY <1>4, TheTimers DEF ConfigKept, T!ConfigKept
<1>7. QED
  BY <1>2, <1>3, <1>5, <1>6

(* What a call of timer id's owner, or timer_init, does to the registers:   *)
(* the halves it does not own stay, but for the mode of the pair.           *)
Index(id) == T!timer_id_to_index(id)
Matches(id) ==
  /\ timer_asked[id] = [TON |-> con[Index(id)].TON, TCS |-> con[Index(id)].TCS,
                        TGATE |-> con[Index(id)].TGATE, TCKPS |-> con[Index(id)].TCKPS,
                        period |-> T!PeriodOf(id), ie |-> timer_ie[T!IrqOf(id)]]
  /\ id # "TIMER_1" => con[1].T32 = T!timer_id_to_32bits(id)

LEMMA ConfigIsMatched == ConfigKept <=> \A id \in TimerIds : T!Owned(id) => Matches(id)
BY TheTimers DEF ConfigKept, T!ConfigKept, Matches, Index

SameControl(s) ==
  /\ con'[s].TON = con[s].TON /\ con'[s].TCS = con[s].TCS
  /\ con'[s].TGATE = con[s].TGATE /\ con'[s].TCKPS = con[s].TCKPS
ModeOf(id) == con'[1].T32 = IF id = "TIMER_1" THEN con[1].T32 ELSE T!timer_id_to_32bits(id)

Configured(id) ==
  /\ T!Owned(id)' /\ Matches(id)' /\ ModeOf(id)
  /\ T!Owned(id) \/ \A s \in T!SlotsOf(id) : Free(s)
  /\ \A other \in TimerIds \ {id} : timer_asked'[other] = timer_asked[other]
  /\ \A s \in 0 .. 2 \ T!SlotsOf(id) : Timer_Data'[s] = Timer_Data[s] /\ PR'[s] = PR[s]
  /\ \A s \in T!SlotsOf(id) : ~Timer_Data'[s].is_free
  /\ Index(id) = 1 => /\ Timer_Data'[1].is_initialized
                      /\ Timer_Data'[1].is_32bits <=> T!timer_id_to_32bits(id)
  /\ \A s \in 0 .. 2 \ {Index(id)} : SameControl(s)
  /\ \A s \in 0 .. 2 \ {T!IrqOf(id)} : timer_ie'[s] = timer_ie[s]
  /\ timer_ie'[T!IrqOf(id)] => Timer_Data'[Index(id)].callback = id

LEMMA Configures ==
  ASSUME TimerTypes, TimerTypes', OwnersInv, ConfigKept, NEW id \in TimerIds, Configured(id)
  PROVE  OwnersInv' /\ ConfigKept'
<1> USE TheTimers DEF TimerIds, Index, Configured
<1>1. OwnersInv'
  <2> USE DEF OwnersInv, T!Owned, Free, Ready, Wide, Callback, SameControl
  <2>1. CASE id = "TIMER_1"
    BY <2>1
  <2>2. CASE id = "TIMER_2"
    BY <2>2
  <2>3. CASE id = "TIMER_3"
    BY <2>3
  <2>4. CASE id = "TIMER_23"
    BY <2>4
  <2>5. QED
    BY <2>1, <2>2, <2>3, <2>4
<1>2. ASSUME NEW o \in TimerIds \ {id}, T!Owned(o)' PROVE Matches(o)'
  <2>1. T!Owned(o) /\ Matches(o)
    BY <1>2, ConfigIsMatched DEF T!Owned
  <2>2. ~(o = "TIMER_23" /\ id # "TIMER_1") /\ ~(id = "TIMER_23" /\ o # "TIMER_1")
    BY <1>1, <1>2 DEF OwnersInv
  <2>3. Index(o) # Index(id) /\ T!IrqOf(o) # T!IrqOf(id) /\ SameControl(Index(o))
        /\ timer_ie'[T!IrqOf(o)] = timer_ie[T!IrqOf(o)]
    BY <2>2
  <2>4. T!PeriodOf(o)' = T!PeriodOf(o)
    BY <2>2 DEF T!PeriodOf
  <2>5. o # "TIMER_1" => con'[1].T32 = T!timer_id_to_32bits(o)
    BY <2>1, <2>2 DEF ModeOf, Matches, T!timer_id_to_32bits
  <2>6. QED
    BY <2>1, <2>3, <2>4, <2>5 DEF Matches, SameControl
<1>3. QED
  BY <1>1, <1>2 DEF ConfigKept, T!ConfigKept, Matches

LEMMA SetsControl ==
  ASSUME NEW c \in [0 .. 2 -> Control], NEW i \in 0 .. 2, NEW n \in Nat, NEW b \in BOOLEAN
  PROVE  /\ [c EXCEPT ![i].TCS = n] \in [0 .. 2 -> Control]
         /\ [c EXCEPT ![i].TCS = n][i] = [c[i] EXCEPT !.TCS = n]
         /\ [c EXCEPT ![i].TGATE = b] \in [0 .. 2 -> Control]
         /\ [c EXCEPT ![i].TGATE = b][i] = [c[i] EXCEPT !.TGATE = b]
         /\ [c EXCEPT ![i].TON = b] \in [0 .. 2 -> Control]
         /\ [c EXCEPT ![i].TON = b][i] = [c[i] EXCEPT !.TON = b]
         /\ \A s \in 0 .. 2 \ {i} : /\ [c EXCEPT ![i].TCS = n][s] = c[s]
                                   /\ [c EXCEPT ![i].TGATE = b][s] = c[s]
                                   /\ [c EXCEPT ![i].TON = b][s] = c[s]
BY DEF Control

LEMMA SetsPeriod ==
  ASSUME TimerTypes, NEW id \in TimerIds, NEW c \in [0 .. 2 -> Control], NEW prescaler \in Nat,
         NEW ticks \in T!PeriodsOf(id), T!SetPeriod(c, id, prescaler, ticks)
  PROVE  /\ con' \in [0 .. 2 -> Control] /\ PR' \in [0 .. 2 -> Nat]
         /\ ticks \in Nat /\ T!PeriodOf(id)' = ticks
         /\ \A s \in 0 .. 2 \ T!SlotsOf(id) : PR'[s] = PR[s]
         /\ \A s \in 0 .. 2 : /\ con'[s].TON = c[s].TON /\ con'[s].TCS = c[s].TCS
                              /\ con'[s].TGATE = c[s].TGATE
                              /\ con'[s].TCKPS = IF s = Index(id) THEN prescaler ELSE c[s].TCKPS
         /\ con'[1].T32 = IF id = "TIMER_1" THEN c[1].T32 ELSE T!timer_id_to_32bits(id)
<1> USE TheTimers DEF TimerIds, Index
<1>1. ticks \in Nat
  OBVIOUS
<1>2. ticks % Word \in Nat /\ ticks \div Word \in Nat
      /\ (ticks % Word) + Word * (ticks \div Word) = ticks
  BY <1>1, Quotient, DriversAssumption
<1>3. PR' \in [0 .. 2 -> Nat] /\ T!PeriodOf(id)' = ticks
      /\ \A s \in 0 .. 2 \ T!SlotsOf(id) : PR'[s] = PR[s]
  <2>1. CASE id = "TIMER_23"
    <3>1. PR' = T!m_set_period_32b(id, ticks)
      BY <2>1 DEF T!SetPeriod
    <3>2. T!timer_id_to_index(id) = 1 /\ T!timer_id_to_index(id) + 1 = 2
      BY <2>1
    <3>3. PR' = [PR EXCEPT ![1] = ticks % Word, ![2] = ticks \div Word]
      BY <3>1, <3>2 DEF T!m_set_period_32b
    <3>4. QED
      BY <1>2, <2>1, <3>3 DEF TimerTypes, T!PeriodOf
  <2>2. CASE id # "TIMER_23"
    <3>1. PR' = [PR EXCEPT ![Index(id)] = ticks]
      BY <2>2 DEF T!SetPeriod, T!m_set_period_16b
    <3>2. QED
      BY <1>1, <2>2, <3>1 DEF TimerTypes, T!PeriodOf
  <2>3. QED
    BY <2>1, <2>2
<1> DEFINE m == T!m_set_32bits_mode(c, id, T!timer_id_to_32bits(id))
<1>4. /\ m \in [0 .. 2 -> Control]
      /\ \A s \in 0 .. 2 : /\ m[s].TON = c[s].TON /\ m[s].TCS = c[s].TCS
                           /\ m[s].TGATE = c[s].TGATE /\ m[s].TCKPS = c[s].TCKPS
      /\ m[1].T32 = IF id = "TIMER_1" THEN c[1].T32 ELSE T!timer_id_to_32bits(id)
  <2>1. CASE id = "TIMER_1"
    BY <2>1 DEF T!m_set_32bits_mode
  <2>2. CASE id # "TIMER_1"
    <3>1. PICK b \in BOOLEAN : b = T!timer_id_to_32bits(id)
      BY DEF T!timer_id_to_32bits
    <3>2. m = [c EXCEPT ![1].T32 = b]
      BY <2>2, <3>1 DEF T!m_set_32bits_mode
    <3>3. QED
      BY <2>2, <3>1, <3>2 DEF Control
  <2>3. QED
    BY <2>1, <2>2
<1>5. con' = [m EXCEPT ![Index(id)].TCKPS = prescaler]
  BY DEF T!SetPeriod, T!m_set_prescaler
<1> HIDE DEF m
<1>6. QED
  BY <1>1, <1>3, <1>4, <1>5 DEF Control

LEMMA SetsIrq ==
  ASSUME TimerTypes, ExpiryInv, NEW id \in TimerIds, NEW e \in BOOLEAN, NEW f \in BOOLEAN,
         T!SetIrq(id, e, f), timer_isr[0] = None, timer_isr' = timer_isr
  PROVE  /\ timer_ie' \in [0 .. 2 -> BOOLEAN] /\ flag' \in [0 .. 2 -> BOOLEAN]
         /\ due' \in [0 .. 2 -> BOOLEAN]
         /\ timer_ie'[T!IrqOf(id)] = e
         /\ \A s \in 0 .. 2 \ {T!IrqOf(id)} : timer_ie'[s] = timer_ie[s]
         /\ ExpiryInv'
<1>1. T!IrqOf(id) \in 0 .. 2
  BY TheTimers DEF TimerIds
<1>2. QED
  BY <1>1 DEF TimerTypes, ExpiryInv, T!SetIrq

LEMMA InitTimer ==
  ASSUME TimerTypes, ExpiryInv, OwnersInv, ConfigKept, PairRule,
         NEW id \in TimerIds, T!timer_init(id)
  PROVE  TimerTypes' /\ ExpiryInv' /\ OwnersInv' /\ ConfigKept'
<1> DEFINE i == Index(id)
<1>1. PICK prescaler \in Prescalers, ticks \in T!PeriodsOf(id) :
        /\ T!SetPeriod(T!timer_use_gated_time_accumulation(
                         T!timer_set_clock_source(con, id, 0), id, FALSE), id, prescaler, ticks)
        /\ timer_asked' = [timer_asked EXCEPT ![id] =
             [TON |-> FALSE, TCS |-> 0, TGATE |-> FALSE, TCKPS |-> prescaler, period |-> ticks,
              ie |-> FALSE]]
  BY DEF T!timer_init
<1>2. UNCHANGED <<ids, timer_isr>> /\ T!SetIrq(id, FALSE, FALSE) /\ timer_isr[0] = None
  <2>1. T!ProgramRuns
    BY DEF T!timer_init
  <2>2. timer_isr[0] = None
    BY <2>1 DEF T!ProgramRuns, T!Slots
  <2>3. QED
    BY <2>2 DEF T!timer_init
<1>3. prescaler \in Nat /\ ticks \in Nat /\ i \in 0 .. 2
  BY TheTimers, NothingAssumption DEF Index, TimerIds
<1>4. \A s \in T!SlotsOf(id) : Free(s)
  BY TheTimers DEF T!timer_init, T!timer_is_free, Free, TimerIds
<1>5. ~con[i].TON
  BY <1>4, TheTimers DEF Index, TimerIds, OwnersInv
<1>6. /\ Timer_Data' \in [0 .. 2 -> Entries]
      /\ \A s \in 0 .. 2 \ T!SlotsOf(id) : Timer_Data'[s] = Timer_Data[s]
      /\ \A s \in T!SlotsOf(id) : ~Timer_Data'[s].is_free
      /\ Timer_Data'[i].is_initialized
      /\ (Timer_Data'[i].is_32bits <=> T!timer_id_to_32bits(id))
  <2>1. PICK b \in BOOLEAN : b = T!timer_id_to_32bits(id)
    BY DEF T!timer_id_to_32bits
  <2>2. \A s \in 0 .. 2 : Timer_Data'[s] =
           IF s = i THEN [Timer_Data[s] EXCEPT !.is_initialized = TRUE, !.is_free = FALSE,
                                               !.is_32bits = b]
           ELSE [Timer_Data[s] EXCEPT !.is_free = @ /\ s \notin T!SlotsOf(id)]
    BY <2>1 DEF T!timer_init, T!Slots, Index
  <2>3. Timer_Data' = [s \in 0 .. 2 |-> Timer_Data'[s]]
    BY DEF T!timer_init, T!Slots
  <2>4. ASSUME NEW s \in 0 .. 2
        PROVE  Timer_Data'[s] \in Entries /\ (s \in T!SlotsOf(id) => ~Timer_Data'[s].is_free)
    <3>1. Timer_Data[s] \in Entries
      BY DEF TimerTypes
    <3>2. CASE s = i
      <4>1. Timer_Data'[s] = [Timer_Data[s] EXCEPT !.is_initialized = TRUE, !.is_free = FALSE,
                                                   !.is_32bits = b]
        BY <2>2, <3>2
      <4>2. QED
        BY <3>1, <4>1 DEF Entries, Free
    <3>3. CASE s # i
      <4>1. PICK f \in BOOLEAN : f <=> Free(s) /\ s \notin T!SlotsOf(id)
        OBVIOUS
      <4>2. Timer_Data'[s] = [Timer_Data[s] EXCEPT !.is_free = f]
        <5>1. f = (Timer_Data[s].is_free /\ s \notin T!SlotsOf(id))
          BY <4>1 DEF Free
        <5>2. QED
          BY <2>2, <3>3, <5>1
      <4>3. QED
        BY <3>1, <4>1, <4>2 DEF Entries, Free
    <3>4. QED
      BY <3>2, <3>3
  <2>5. i \in T!SlotsOf(id) /\ T!SlotsOf(id) \subseteq 0 .. 2
    BY TheTimers DEF Index, TimerIds
  <2>6. \A s \in 0 .. 2 \ T!SlotsOf(id) : Timer_Data'[s] = Timer_Data[s]
    BY <2>2, <2>5 DEF TimerTypes, Entries
  <2>7. \A s \in T!SlotsOf(id) : ~Timer_Data'[s].is_free
    BY <2>4, <2>5
  <2>8. Timer_Data'[i].is_initialized
      /\ (Timer_Data'[i].is_32bits <=> T!timer_id_to_32bits(id))
    <3>1. Timer_Data[i] \in Entries
      BY <1>3 DEF TimerTypes
    <3>2. Timer_Data'[i] = [Timer_Data[i] EXCEPT !.is_initialized = TRUE, !.is_free = FALSE,
                                                 !.is_32bits = b]
      BY <1>3, <2>2
    <3>3. Timer_Data'[i].is_initialized = TRUE /\ Timer_Data'[i].is_32bits = b
      BY <3>1, <3>2 DEF Entries
    <3>4. QED
      BY <2>1, <3>3
  <2>9. QED
    BY <2>3, <2>4, <2>6, <2>7, <2>8
<1> DEFINE c1 == [con EXCEPT ![i].TCS = 0]
           c == [c1 EXCEPT ![i].TGATE = FALSE]
<1>7. /\ c \in [0 .. 2 -> Control]
      /\ \A s \in 0 .. 2 : /\ c[s].TON = con[s].TON /\ c[s].TCKPS = con[s].TCKPS
                           /\ c[s].T32 = con[s].T32
      /\ \A s \in 0 .. 2 \ {i} : c[s].TCS = con[s].TCS /\ c[s].TGATE = con[s].TGATE
      /\ c[i].TCS = 0 /\ c[i].TGATE = FALSE
      /\ T!SetPeriod(c, id, prescaler, ticks)
  <2>1. /\ c1 \in [0 .. 2 -> Control] /\ c1[i] = [con[i] EXCEPT !.TCS = 0]
        /\ \A s \in 0 .. 2 \ {i} : c1[s] = con[s]
    <3>1. con \in [0 .. 2 -> Control] /\ 0 \in Nat
      BY DEF TimerTypes
    <3>2. QED
      BY <1>3, <3>1, SetsControl
  <2> HIDE DEF c1
  <2>2. /\ c \in [0 .. 2 -> Control] /\ c[i] = [c1[i] EXCEPT !.TGATE = FALSE]
        /\ \A s \in 0 .. 2 \ {i} : c[s] = c1[s]
    BY <1>3, <2>1, SetsControl
  <2>3. T!SetPeriod(c, id, prescaler, ticks)
    BY <1>1 DEF T!timer_use_gated_time_accumulation, T!timer_set_clock_source, Index, c1
  <2> HIDE DEF c
  <2>4. con[i] \in Control /\ c1[i] \in Control
    BY <1>3, <2>1 DEF TimerTypes
  <2>5. /\ c[i].TON = con[i].TON /\ c[i].TCKPS = con[i].TCKPS /\ c[i].T32 = con[i].T32
        /\ c[i].TCS = 0 /\ c[i].TGATE = FALSE
    BY <2>1, <2>2, <2>4 DEF Control
  <2>6. \A s \in 0 .. 2 \ {i} : c[s] = con[s]
    BY <2>1, <2>2
  <2>7. QED
    BY <1>3, <2>2, <2>3, <2>5, <2>6
<1> HIDE DEF c
<1>8. /\ con' \in [0 .. 2 -> Control] /\ PR' \in [0 .. 2 -> Nat] /\ T!PeriodOf(id)' = ticks
      /\ \A s \in 0 .. 2 \ T!SlotsOf(id) : PR'[s] = PR[s]
      /\ \A s \in 0 .. 2 \ {i} : SameControl(s)
      /\ con'[i].TON = FALSE /\ con'[i].TCS = 0 /\ con'[i].TGATE = FALSE
      /\ con'[i].TCKPS = prescaler
      /\ ModeOf(id)
  <2>1. con[i].TON = FALSE
    BY <1>3, <1>5 DEF TimerTypes, Control
  <2>2. /\ con' \in [0 .. 2 -> Control] /\ PR' \in [0 .. 2 -> Nat] /\ T!PeriodOf(id)' = ticks
        /\ \A s \in 0 .. 2 \ T!SlotsOf(id) : PR'[s] = PR[s]
        /\ \A s \in 0 .. 2 : /\ con'[s].TON = c[s].TON /\ con'[s].TCS = c[s].TCS
                             /\ con'[s].TGATE = c[s].TGATE
                             /\ con'[s].TCKPS = IF s = i THEN prescaler ELSE c[s].TCKPS
        /\ con'[1].T32 = IF id = "TIMER_1" THEN c[1].T32 ELSE T!timer_id_to_32bits(id)
    BY <1>3, <1>7, SetsPeriod
  <2>3. QED
    BY <1>3, <1>7, <2>1, <2>2 DEF SameControl, ModeOf
<1>9. timer_asked' \in [TimerIds -> Configurations \cup {None}] /\ T!Owned(id)'
      /\ \A other \in TimerIds \ {id} : timer_asked'[other] = timer_asked[other]
  <2>1. [TON |-> FALSE, TCS |-> 0, TGATE |-> FALSE, TCKPS |-> prescaler, period |-> ticks,
         ie |-> FALSE] \in Configurations
    BY <1>3 DEF Configurations
  <2>2. None \notin Configurations
    BY NothingAssumption DEF Configurations
  <2>3. QED
    BY <1>1, <2>1, <2>2 DEF TimerTypes, T!Owned
<1>10. /\ timer_ie' \in [0 .. 2 -> BOOLEAN] /\ flag' \in [0 .. 2 -> BOOLEAN]
       /\ due' \in [0 .. 2 -> BOOLEAN] /\ ExpiryInv'
       /\ timer_ie'[T!IrqOf(id)] = FALSE
       /\ \A s \in 0 .. 2 \ {T!IrqOf(id)} : timer_ie'[s] = timer_ie[s]
  BY <1>2, SetsIrq
<1>11. TimerTypes'
  BY <1>2, <1>6, <1>8, <1>9, <1>10 DEF TimerTypes
<1>12. Matches(id)'
  <2>1. id # "TIMER_1" => con'[1].T32 = T!timer_id_to_32bits(id)
    BY <1>8 DEF ModeOf
  <2>2. timer_asked'[id] =
          [TON |-> FALSE, TCS |-> 0, TGATE |-> FALSE, TCKPS |-> prescaler, period |-> ticks,
           ie |-> FALSE]
    BY <1>1 DEF TimerTypes
  <2>3. QED
    BY <1>8, <1>10, <2>1, <2>2 DEF Matches
<1>13. OwnersInv' /\ ConfigKept'
  <2>1. \A s \in 0 .. 2 \ T!SlotsOf(id) : Timer_Data'[s] = Timer_Data[s] /\ PR'[s] = PR[s]
    BY <1>6, <1>8
  <2>2. T!Owned(id) \/ \A s \in T!SlotsOf(id) : Free(s)
    BY <1>4
  <2>3. timer_ie'[T!IrqOf(id)] => Timer_Data'[i].callback = id
    BY <1>10
  <2>4. Configured(id)
    BY <1>6, <1>8, <1>9, <1>10, <1>12, <2>1, <2>2, <2>3 DEF Configured
  <2>5. QED
    BY <1>11, <2>4, Configures
<1>14. QED
  BY <1>10, <1>11, <1>13

LEMMA Asks ==
  ASSUME TimerTypes, NEW id \in TimerIds, NEW r \in Configurations,
         timer_asked' = [timer_asked EXCEPT ![id] = r]
  PROVE  /\ timer_asked' \in [TimerIds -> Configurations \cup {None}]
         /\ T!Owned(id)' /\ timer_asked'[id] = r
         /\ \A other \in TimerIds \ {id} : timer_asked'[other] = timer_asked[other]
<1>1. None \notin Configurations
  BY NothingAssumption DEF Configurations
<1>2. QED
  BY <1>1 DEF TimerTypes, T!Owned

LEMMA OwnerHas ==
  ASSUME TimerTypes, OwnersInv, ConfigKept, NEW id \in TimerIds, T!Owned(id)
  PROVE  /\ Index(id) \in 0 .. 2 /\ timer_asked[id] \in Configurations /\ Matches(id)
         /\ \A s \in T!SlotsOf(id) : ~Free(s)
         /\ id # "TIMER_1" => con[1].T32 = T!timer_id_to_32bits(id)
         /\ Index(id) = 1 => /\ Timer_Data[1].is_initialized
                             /\ Timer_Data[1].is_32bits <=> T!timer_id_to_32bits(id)
         /\ timer_ie[T!IrqOf(id)] => Timer_Data[Index(id)].callback = id
<1>1. timer_asked[id] \in Configurations
  BY DEF TimerTypes, T!Owned
<1>2. Matches(id)
  BY ConfigIsMatched
<1>3. QED
  BY <1>1, <1>2, TheTimers
     DEF OwnersInv, Index, TimerIds, Matches, Free, Ready, Wide, Callback

(* A call of the owner that sets a field of the control register, and one   *)
(* that sets the interrupt.                                                 *)
LEMMA ControlCall ==
  ASSUME TimerTypes, ExpiryInv, OwnersInv, ConfigKept, NEW id \in TimerIds, T!Owned(id),
         NEW k \in Control, con' = [con EXCEPT ![Index(id)] = k], k.T32 = con[Index(id)].T32,
         NEW r \in Configurations, timer_asked' = [timer_asked EXCEPT ![id] = r],
         r = [TON |-> k.TON, TCS |-> k.TCS, TGATE |-> k.TGATE, TCKPS |-> k.TCKPS,
              period |-> timer_asked[id].period, ie |-> timer_asked[id].ie],
         UNCHANGED <<ids, Timer_Data, PR, timer_ie, flag, timer_isr, due>>
  PROVE  TimerTypes' /\ ExpiryInv' /\ OwnersInv' /\ ConfigKept'
<1>1. /\ Index(id) \in 0 .. 2 /\ timer_asked[id] \in Configurations /\ Matches(id)
      /\ \A s \in T!SlotsOf(id) : ~Free(s)
      /\ id # "TIMER_1" => con[1].T32 = T!timer_id_to_32bits(id)
      /\ Index(id) = 1 => /\ Timer_Data[1].is_initialized
                          /\ Timer_Data[1].is_32bits <=> T!timer_id_to_32bits(id)
      /\ timer_ie[T!IrqOf(id)] => Timer_Data[Index(id)].callback = id
  BY OwnerHas
<1>2. /\ timer_asked' \in [TimerIds -> Configurations \cup {None}]
      /\ T!Owned(id)' /\ timer_asked'[id] = r
      /\ \A other \in TimerIds \ {id} : timer_asked'[other] = timer_asked[other]
  BY Asks
<1>3. /\ con' \in [0 .. 2 -> Control] /\ con'[Index(id)] = k
      /\ \A s \in 0 .. 2 \ {Index(id)} : con'[s] = con[s]
  BY <1>1 DEF TimerTypes
<1>4. TimerTypes' /\ ExpiryInv'
  BY <1>2, <1>3 DEF TimerTypes, ExpiryInv
<1>5. con'[1].T32 = con[1].T32
  BY <1>1, <1>3
<1>6. ModeOf(id)
  BY <1>1, <1>5 DEF ModeOf
<1>7. Matches(id)'
  <2>1. T!PeriodOf(id)' = T!PeriodOf(id)
    BY DEF T!PeriodOf
  <2>2. timer_asked[id].period = T!PeriodOf(id) /\ timer_asked[id].ie = timer_ie[T!IrqOf(id)]
    BY <1>1 DEF Matches
  <2>3. QED
    BY <1>1, <1>2, <1>3, <1>5, <2>1, <2>2 DEF Matches
<1>8. Configured(id)
  <2>1. \A s \in 0 .. 2 \ {Index(id)} : SameControl(s)
    BY <1>3 DEF SameControl
  <2>2. QED
    BY <1>1, <1>2, <1>6, <1>7, <2>1 DEF Configured, Free
<1>9. QED
  BY <1>4, <1>8, Configures

LEMMA IrqCall ==
  ASSUME TimerTypes, ExpiryInv, OwnersInv, ConfigKept, NEW id \in TimerIds, T!Owned(id),
         NEW e \in BOOLEAN, NEW f \in BOOLEAN, T!SetIrq(id, e, f), timer_isr[0] = None,
         timer_asked' = [timer_asked EXCEPT ![id] = [timer_asked[id] EXCEPT !.ie = e]],
         \/ Timer_Data' = Timer_Data
         \/ Timer_Data' = [Timer_Data EXCEPT ![Index(id)].callback = id],
         e => Timer_Data'[Index(id)].callback = id,
         UNCHANGED <<ids, con, PR, timer_isr>>
  PROVE  TimerTypes' /\ ExpiryInv' /\ OwnersInv' /\ ConfigKept'
<1>1. /\ Index(id) \in 0 .. 2 /\ timer_asked[id] \in Configurations /\ Matches(id)
      /\ \A s \in T!SlotsOf(id) : ~Free(s)
      /\ id # "TIMER_1" => con[1].T32 = T!timer_id_to_32bits(id)
      /\ Index(id) = 1 => /\ Timer_Data[1].is_initialized
                          /\ Timer_Data[1].is_32bits <=> T!timer_id_to_32bits(id)
  BY OwnerHas
<1> DEFINE r == [timer_asked[id] EXCEPT !.ie = e]
<1>2. /\ r \in Configurations
      /\ r = [TON |-> timer_asked[id].TON, TCS |-> timer_asked[id].TCS,
              TGATE |-> timer_asked[id].TGATE, TCKPS |-> timer_asked[id].TCKPS,
              period |-> timer_asked[id].period, ie |-> e]
  BY <1>1 DEF Configurations
<1> HIDE DEF r
<1>3. /\ timer_asked' \in [TimerIds -> Configurations \cup {None}]
      /\ T!Owned(id)' /\ timer_asked'[id] = r
      /\ \A other \in TimerIds \ {id} : timer_asked'[other] = timer_asked[other]
  BY <1>2, Asks DEF r
<1>4. /\ timer_ie' \in [0 .. 2 -> BOOLEAN] /\ flag' \in [0 .. 2 -> BOOLEAN]
      /\ due' \in [0 .. 2 -> BOOLEAN] /\ ExpiryInv'
      /\ timer_ie'[T!IrqOf(id)] = e
      /\ \A s \in 0 .. 2 \ {T!IrqOf(id)} : timer_ie'[s] = timer_ie[s]
  BY SetsIrq
<1>5. /\ Timer_Data' \in [0 .. 2 -> Entries]
      /\ \A s \in 0 .. 2 : /\ s # Index(id) => Timer_Data'[s] = Timer_Data[s]
                           /\ Timer_Data'[s].is_free = Timer_Data[s].is_free
                           /\ Timer_Data'[s].is_initialized = Timer_Data[s].is_initialized
                           /\ Timer_Data'[s].is_32bits = Timer_Data[s].is_32bits
  BY <1>1 DEF TimerTypes, Entries
<1>6. TimerTypes'
  BY <1>3, <1>4, <1>5 DEF TimerTypes
<1>7. ModeOf(id)
  BY <1>1 DEF ModeOf
<1>8. Matches(id)'
  <2>1. T!PeriodOf(id)' = T!PeriodOf(id)
    BY DEF T!PeriodOf
  <2>2. QED
    BY <1>1, <1>2, <1>3, <1>4, <2>1 DEF Matches
<1>9. Configured(id)
  <2>1. \A s \in 0 .. 2 : SameControl(s)
    BY DEF SameControl
  <2>2. Index(id) \in T!SlotsOf(id) /\ T!SlotsOf(id) \subseteq 0 .. 2
    BY TheTimers DEF Index, TimerIds
  <2>3. QED
    BY <1>1, <1>3, <1>4, <1>5, <1>7, <1>8, <2>1, <2>2 DEF Configured, Free
<1>10. QED
  BY <1>4, <1>6, <1>9, Configures

TimerInv == TimerTypes /\ ExpiryInv /\ OwnersInv /\ ConfigKept

LEMMA OwnerSetsControl ==
  ASSUME TimerInv, NEW id \in TimerIds,
         T!ChooseSource(id) \/ T!Gate(id) \/ T!timer_set_enabled(id)
  PROVE  TimerInv'
<1>1. T!Owned(id) /\ UNCHANGED <<ids, Timer_Data, PR, timer_ie, flag, timer_isr, due>>
  BY DEF T!ChooseSource, T!Gate, T!timer_set_enabled
<1>2. /\ Index(id) \in 0 .. 2 /\ timer_asked[id] \in Configurations /\ Matches(id)
      /\ con[Index(id)] \in Control
  BY <1>1, OwnerHas DEF TimerInv, TimerTypes
<1>3. ASSUME NEW k \in Control, con' = [con EXCEPT ![Index(id)] = k],
             k.T32 = con[Index(id)].T32, NEW r \in Configurations,
             timer_asked' = [timer_asked EXCEPT ![id] = r],
             r = [TON |-> k.TON, TCS |-> k.TCS, TGATE |-> k.TGATE, TCKPS |-> k.TCKPS,
                  period |-> timer_asked[id].period, ie |-> timer_asked[id].ie]
      PROVE  TimerInv'
  BY <1>1, <1>3, ControlCall DEF TimerInv
<1>4. CASE T!ChooseSource(id)
  <2>1. PICK source \in Nat :
          /\ con' = [con EXCEPT ![Index(id)].TCS = source]
          /\ timer_asked' = [timer_asked EXCEPT ![id]["TCS"] = source]
    BY <1>4, NothingAssumption DEF T!ChooseSource, T!timer_set_clock_source, T!Request, Index
  <2> DEFINE k == [con[Index(id)] EXCEPT !.TCS = source]
             r == [timer_asked[id] EXCEPT !.TCS = source]
  <2>2. /\ k \in Control /\ r \in Configurations /\ k.T32 = con[Index(id)].T32
        /\ r = [TON |-> k.TON, TCS |-> k.TCS, TGATE |-> k.TGATE, TCKPS |-> k.TCKPS,
                period |-> timer_asked[id].period, ie |-> timer_asked[id].ie]
    BY <1>2 DEF Control, Configurations, Matches
  <2>3. con' = [con EXCEPT ![Index(id)] = k] /\ timer_asked' = [timer_asked EXCEPT ![id] = r]
    BY <1>2, <2>1 DEF TimerInv, TimerTypes
  <2> HIDE DEF k, r
  <2>4. QED
    BY <1>3, <2>2, <2>3
<1>5. CASE T!Gate(id)
  <2>1. PICK enable \in BOOLEAN :
          /\ con' = [con EXCEPT ![Index(id)].TGATE = enable]
          /\ timer_asked' = [timer_asked EXCEPT ![id]["TGATE"] = enable]
    BY <1>5 DEF T!Gate, T!timer_use_gated_time_accumulation, T!Request, Index
  <2> DEFINE k == [con[Index(id)] EXCEPT !.TGATE = enable]
             r == [timer_asked[id] EXCEPT !.TGATE = enable]
  <2>2. /\ k \in Control /\ r \in Configurations /\ k.T32 = con[Index(id)].T32
        /\ r = [TON |-> k.TON, TCS |-> k.TCS, TGATE |-> k.TGATE, TCKPS |-> k.TCKPS,
                period |-> timer_asked[id].period, ie |-> timer_asked[id].ie]
    BY <1>2 DEF Control, Configurations, Matches
  <2>3. con' = [con EXCEPT ![Index(id)] = k] /\ timer_asked' = [timer_asked EXCEPT ![id] = r]
    BY <1>2, <2>1 DEF TimerInv, TimerTypes
  <2> HIDE DEF k, r
  <2>4. QED
    BY <1>3, <2>2, <2>3
<1>6. CASE T!timer_set_enabled(id)
  <2>1. PICK enabled \in BOOLEAN :
          /\ con' = [con EXCEPT ![Index(id)].TON = enabled]
          /\ timer_asked' = [timer_asked EXCEPT ![id]["TON"] = enabled]
    BY <1>6 DEF T!timer_set_enabled, T!Request, Index
  <2> DEFINE k == [con[Index(id)] EXCEPT !.TON = enabled]
             r == [timer_asked[id] EXCEPT !.TON = enabled]
  <2>2. /\ k \in Control /\ r \in Configurations /\ k.T32 = con[Index(id)].T32
        /\ r = [TON |-> k.TON, TCS |-> k.TCS, TGATE |-> k.TGATE, TCKPS |-> k.TCKPS,
                period |-> timer_asked[id].period, ie |-> timer_asked[id].ie]
    BY <1>2 DEF Control, Configurations, Matches
  <2>3. con' = [con EXCEPT ![Index(id)] = k] /\ timer_asked' = [timer_asked EXCEPT ![id] = r]
    BY <1>2, <2>1 DEF TimerInv, TimerTypes
  <2> HIDE DEF k, r
  <2>4. QED
    BY <1>3, <2>2, <2>3
<1>7. QED
  BY <1>4, <1>5, <1>6

LEMMA OwnerSetsIrq ==
  ASSUME TimerInv, NEW id \in TimerIds,
         \/ T!timer_enable_interrupt(id) \/ T!timer_disable_interrupt(id)
         \/ T!timer_force_interrupt(id) \/ T!timer_set_if(id)
  PROVE  TimerInv'
<1>1. T!Owned(id) /\ T!ProgramRuns /\ UNCHANGED <<ids, con, PR, timer_isr>>
  BY DEF T!timer_enable_interrupt, T!timer_disable_interrupt, T!timer_force_interrupt,
         T!timer_set_if
<1>2. timer_isr[0] = None
  BY <1>1 DEF T!ProgramRuns, T!Slots
<1>3. /\ Index(id) \in 0 .. 2 /\ timer_asked[id] \in Configurations /\ Matches(id)
      /\ timer_ie[T!IrqOf(id)] => Timer_Data[Index(id)].callback = id
  BY <1>1, OwnerHas DEF TimerInv
<1>4. ASSUME NEW e \in BOOLEAN, NEW f \in BOOLEAN, T!SetIrq(id, e, f),
             timer_asked' = [timer_asked EXCEPT ![id] = [timer_asked[id] EXCEPT !.ie = e]],
             \/ Timer_Data' = Timer_Data
             \/ Timer_Data' = [Timer_Data EXCEPT ![Index(id)].callback = id],
             e => Timer_Data'[Index(id)].callback = id
      PROVE  TimerInv'
  BY <1>1, <1>2, <1>4, IrqCall DEF TimerInv
<1>5. ASSUME NEW e \in BOOLEAN, T!Request(id, "ie", e)
      PROVE  timer_asked' = [timer_asked EXCEPT ![id] = [timer_asked[id] EXCEPT !.ie = e]]
  BY <1>3, <1>5 DEF T!Request, TimerInv, TimerTypes
<1>6. CASE T!timer_enable_interrupt(id)
  <2>1. /\ T!SetIrq(id, TRUE, FALSE) /\ T!Request(id, "ie", TRUE)
        /\ Timer_Data' = [Timer_Data EXCEPT ![Index(id)].callback = id]
    BY <1>6 DEF T!timer_enable_interrupt, Index
  <2>2. Timer_Data'[Index(id)].callback = id
    BY <1>3, <2>1 DEF TimerInv, TimerTypes, Entries
  <2>3. QED
    BY <1>4, <1>5, <2>1, <2>2
<1>7. CASE T!timer_disable_interrupt(id)
  BY <1>4, <1>5, <1>7 DEF T!timer_disable_interrupt
<1>8. CASE T!timer_force_interrupt(id)
  BY <1>4, <1>5, <1>8 DEF T!timer_force_interrupt, Index
<1>9. CASE T!timer_set_if(id)
  <2>1. PICK f \in BOOLEAN : T!SetIrq(id, timer_ie[T!IrqOf(id)], f)
    BY <1>9 DEF T!timer_set_if
  <2>2. PICK e \in BOOLEAN : e = timer_ie[T!IrqOf(id)]
    BY TheTimers DEF TimerIds, TimerInv, TimerTypes
  <2>3. UNCHANGED <<Timer_Data, timer_asked>>
    BY <1>9 DEF T!timer_set_if, T!data
  <2>4. [timer_asked[id] EXCEPT !.ie = e] = timer_asked[id]
    BY <1>3, <2>2 DEF Matches, Configurations
  <2>5. timer_asked' = [timer_asked EXCEPT ![id] = [timer_asked[id] EXCEPT !.ie = e]]
    BY <2>3, <2>4 DEF TimerInv, TimerTypes
  <2>6. QED
    BY <1>3, <1>4, <2>1, <2>2, <2>3, <2>5
<1>10. QED
  BY <1>6, <1>7, <1>8, <1>9

LEMMA OwnerSetsPeriod ==
  ASSUME TimerInv, NEW id \in TimerIds, T!timer_set_period(id)
  PROVE  TimerInv'
<1>1. PICK prescaler \in Prescalers, ticks \in T!PeriodsOf(id) :
        /\ T!SetPeriod(con, id, prescaler, ticks)
        /\ timer_asked' = [timer_asked EXCEPT ![id].TCKPS = prescaler, ![id].period = ticks]
  BY DEF T!timer_set_period
<1>2. T!Owned(id) /\ UNCHANGED <<ids, Timer_Data, timer_ie, flag, timer_isr, due>>
  BY DEF T!timer_set_period
<1>3. prescaler \in Nat
  BY NothingAssumption
<1>4. /\ Index(id) \in 0 .. 2 /\ timer_asked[id] \in Configurations /\ Matches(id)
      /\ \A s \in T!SlotsOf(id) : ~Free(s)
      /\ Index(id) = 1 => /\ Timer_Data[1].is_initialized
                          /\ Timer_Data[1].is_32bits <=> T!timer_id_to_32bits(id)
      /\ timer_ie[T!IrqOf(id)] => Timer_Data[Index(id)].callback = id
  BY <1>2, OwnerHas DEF TimerInv
<1>5. /\ con' \in [0 .. 2 -> Control] /\ PR' \in [0 .. 2 -> Nat]
      /\ ticks \in Nat /\ T!PeriodOf(id)' = ticks
      /\ \A s \in 0 .. 2 \ T!SlotsOf(id) : PR'[s] = PR[s]
      /\ \A s \in 0 .. 2 : /\ con'[s].TON = con[s].TON /\ con'[s].TCS = con[s].TCS
                           /\ con'[s].TGATE = con[s].TGATE
                           /\ con'[s].TCKPS = IF s = Index(id) THEN prescaler ELSE con[s].TCKPS
      /\ con'[1].T32 = IF id = "TIMER_1" THEN con[1].T32 ELSE T!timer_id_to_32bits(id)
  BY <1>1, <1>3, SetsPeriod DEF TimerInv, TimerTypes
<1> DEFINE r == [timer_asked[id] EXCEPT !.TCKPS = prescaler, !.period = ticks]
<1>6. /\ r \in Configurations
      /\ r = [TON |-> timer_asked[id].TON, TCS |-> timer_asked[id].TCS,
              TGATE |-> timer_asked[id].TGATE, TCKPS |-> prescaler,
              period |-> ticks, ie |-> timer_asked[id].ie]
  <2> DEFINE q == [timer_asked[id] EXCEPT !.TCKPS = prescaler]
  <2>1. /\ q \in Configurations
        /\ q = [TON |-> timer_asked[id].TON, TCS |-> timer_asked[id].TCS,
                TGATE |-> timer_asked[id].TGATE, TCKPS |-> prescaler,
                period |-> timer_asked[id].period, ie |-> timer_asked[id].ie]
    BY <1>3, <1>4 DEF Configurations
  <2>2. r = [q EXCEPT !.period = ticks]
    BY <1>4 DEF Configurations
  <2> HIDE DEF q, r
  <2>3. QED
    BY <1>5, <2>1, <2>2 DEF Configurations
<1>7. timer_asked' = [timer_asked EXCEPT ![id] = r]
  BY <1>1, <1>4 DEF TimerInv, TimerTypes
<1> HIDE DEF r
<1>8. /\ timer_asked' \in [TimerIds -> Configurations \cup {None}]
      /\ T!Owned(id)' /\ timer_asked'[id] = r
      /\ \A other \in TimerIds \ {id} : timer_asked'[other] = timer_asked[other]
  BY <1>6, <1>7, Asks DEF TimerInv
<1>9. TimerTypes' /\ ExpiryInv'
  BY <1>2, <1>5, <1>8 DEF TimerInv, TimerTypes, ExpiryInv
<1>10. ModeOf(id)
  BY <1>5 DEF ModeOf
<1>11. Matches(id)'
  BY <1>2, <1>4, <1>5, <1>6, <1>8 DEF Matches
<1>12. Configured(id)
  <2>1. \A s \in 0 .. 2 \ {Index(id)} : SameControl(s)
    BY <1>5 DEF SameControl
  <2>2. QED
    BY <1>2, <1>4, <1>5, <1>8, <1>10, <1>11, <2>1 DEF Configured, Free
<1>13. QED
  BY <1>9, <1>12, Configures DEF TimerInv

LEMMA OwnerReleases ==
  ASSUME TimerInv, CleanRelease, NEW id \in TimerIds, T!timer_release(id)
  PROVE  TimerInv'
<1>1. /\ T!Owned(id) /\ ~timer_ie[T!IrqOf(id)] /\ ~con[Index(id)].TON
      /\ timer_asked' = [timer_asked EXCEPT ![id] = None]
      /\ UNCHANGED <<ids, con, PR, timer_ie, flag, timer_isr, due>>
  BY DEF T!timer_release, Index
<1>2. /\ timer_asked' \in [TimerIds -> Configurations \cup {None}]
      /\ ~T!Owned(id)'
      /\ \A other \in TimerIds \ {id} : timer_asked'[other] = timer_asked[other]
  BY <1>1 DEF TimerInv, TimerTypes, T!Owned
<1>3. /\ Timer_Data' \in [0 .. 2 -> Entries]
      /\ \A s \in 0 .. 2 :
           /\ Timer_Data'[s].callback = Timer_Data[s].callback
           /\ Timer_Data'[s].is_32bits = Timer_Data[s].is_32bits
           /\ Timer_Data'[s].is_free <=> Timer_Data[s].is_free \/ s \in T!SlotsOf(id)
           /\ Timer_Data'[s].is_initialized <=> Timer_Data[s].is_initialized /\ s # Index(id)
  <2>1. ASSUME NEW s \in 0 .. 2
        PROVE  /\ Timer_Data'[s] \in Entries
               /\ Timer_Data'[s].callback = Timer_Data[s].callback
               /\ Timer_Data'[s].is_32bits = Timer_Data[s].is_32bits
               /\ Timer_Data'[s].is_free <=> Timer_Data[s].is_free \/ s \in T!SlotsOf(id)
               /\ Timer_Data'[s].is_initialized <=> Timer_Data[s].is_initialized /\ s # Index(id)
    <3>1. Timer_Data[s] \in Entries
      BY DEF TimerInv, TimerTypes
    <3>2. PICK g \in BOOLEAN : g = (Timer_Data[s].is_initialized /\ s # Index(id))
      OBVIOUS
    <3>3. PICK f \in BOOLEAN : f = (Timer_Data[s].is_free \/ s \in T!SlotsOf(id))
      OBVIOUS
    <3>4. Timer_Data'[s] = [Timer_Data[s] EXCEPT !.is_initialized = g, !.is_free = f]
      BY <3>2, <3>3 DEF T!timer_release, T!Slots, Index
    <3>5. QED
      BY <3>1, <3>2, <3>3, <3>4 DEF Entries
  <2>2. Timer_Data' = [s \in 0 .. 2 |-> Timer_Data'[s]]
    BY DEF T!timer_release, T!Slots
  <2>3. QED
    BY <2>1, <2>2
<1>4. TimerTypes' /\ ExpiryInv'
  BY <1>1, <1>2, <1>3 DEF TimerInv, TimerTypes, ExpiryInv
<1>5. OwnersInv'
  <2> USE TheTimers DEF TimerInv, OwnersInv, T!Owned, Free, Ready, Wide, Callback, TimerIds, Index
  <2>1. CASE id = "TIMER_1"
    BY <1>1, <1>2, <1>3, <2>1
  <2>2. CASE id = "TIMER_2"
    BY <1>1, <1>2, <1>3, <2>2
  <2>3. CASE id = "TIMER_3"
    BY <1>1, <1>2, <1>3, <2>3
  <2>4. CASE id = "TIMER_23"
    BY <1>1, <1>2, <1>3, <2>4
  <2>5. QED
    BY <2>1, <2>2, <2>3, <2>4
<1>6. ASSUME NEW o \in TimerIds, T!Owned(o)' PROVE Matches(o)'
  <2>1. o # id /\ T!Owned(o)
    BY <1>2, <1>6 DEF T!Owned
  <2>2. Matches(o)
    BY <2>1, ConfigIsMatched DEF TimerInv
  <2>3. QED
    BY <1>1, <1>2, <2>1, <2>2 DEF Matches, T!PeriodOf
<1>7. QED
  BY <1>4, <1>5, <1>6, TheTimers DEF TimerInv, ConfigKept, T!ConfigKept, Matches, Index

LEMMA TimerExpires ==
  ASSUME TimerInv, PromptTimer1, NEW s \in 0 .. 2, T!Expire(s)
  PROVE  TimerInv'
<1>1. UNCHANGED <<ids, Timer_Data, timer_asked, con, PR, timer_ie, timer_isr>>
  BY DEF T!Expire, T!data
<1>2. /\ flag' = [flag EXCEPT ![s] = TRUE] /\ due' = [due EXCEPT ![s] = TRUE]
      /\ s = 0 => timer_isr[0] = None
  BY DEF T!Expire
<1>3. TimerTypes' /\ ExpiryInv'
  BY <1>1, <1>2 DEF TimerInv, TimerTypes, ExpiryInv
<1>4. OwnersInv' /\ ConfigKept'
  BY <1>1 DEF TimerInv, OwnersInv, ConfigKept, T!ConfigKept, T!Owned, T!PeriodOf, Free, Ready, Wide,
              Callback
<1>5. QED
  BY <1>3, <1>4 DEF TimerInv

(* What an interrupt is going to call.                                      *)
CallAt(s) == IF s = 2 THEN T!OddCall ELSE T!CallOf(s)

Enters(s) ==
  /\ UNCHANGED <<ids, Timer_Data, timer_asked, con, PR, timer_ie>>
  /\ timer_ie[s] /\ timer_isr' = [timer_isr EXCEPT ![s] = CallAt(s)]
  /\ due' = [due EXCEPT ![s] = FALSE]
  /\ flag' = [flag EXCEPT ![s] = TRUE] \/ flag' = [flag EXCEPT ![s] = FALSE]
Leaves(s) ==
  /\ UNCHANGED <<ids, Timer_Data, timer_asked, con, PR, timer_ie, due>>
  /\ timer_isr[s] # None /\ timer_isr' = [timer_isr EXCEPT ![s] = None]
  /\ flag' = flag \/ (s = 0 /\ flag' = [flag EXCEPT ![s] = FALSE])

LEMMA CallsItsOwner ==
  ASSUME TimerInv, NEW s \in 0 .. 2, timer_ie[s]
  PROVE  \E id \in TimerIds : CallAt(s) = <<id, id>> /\ T!Owned(id) /\ T!IrqOf(id) = s
<1> USE TheTimers DEF TimerInv, OwnersInv, Free, Ready, Wide, Callback, CallAt, T!CallOf, TimerIds
<1>1. CASE s = 0
  BY <1>1
<1>2. CASE s = 1
  BY <1>2
<1>3. CASE s = 2 /\ T!Owned("TIMER_23")
  BY <1>3 DEF T!OddCall, T!PairCall
<1>4. CASE s = 2 /\ ~T!Owned("TIMER_23")
  BY <1>4 DEF T!OddCall
<1>5. QED
  BY <1>1, <1>2, <1>3, <1>4

LEMMA TimerEnters ==
  ASSUME TimerInv, NEW s \in 0 .. 2, Enters(s)
  PROVE  /\ TimerInv' /\ timer_isr' = [timer_isr EXCEPT ![s] = CallAt(s)]
         /\ \E id \in TimerIds : CallAt(s) = <<id, id>> /\ T!Owned(id) /\ T!IrqOf(id) = s
<1>1. PICK id \in TimerIds : CallAt(s) = <<id, id>> /\ T!Owned(id) /\ T!IrqOf(id) = s
  BY CallsItsOwner DEF Enters
<1>2. TimerTypes'
  <2>1. flag' \in [0 .. 2 -> BOOLEAN] /\ due' \in [0 .. 2 -> BOOLEAN]
    BY DEF TimerInv, TimerTypes, Enters
  <2>2. timer_isr' \in [0 .. 2 -> ((TimerIds \cup {None}) \X TimerIds) \cup {None}]
    BY <1>1 DEF TimerInv, TimerTypes, Enters
  <2>3. QED
    BY <2>1, <2>2 DEF TimerInv, TimerTypes, Enters
<1>3. ExpiryInv'
  BY DEF TimerInv, TimerTypes, ExpiryInv, Enters
<1>4. OwnersInv' /\ ConfigKept'
  BY DEF Enters, TimerInv, OwnersInv, ConfigKept, T!ConfigKept, T!Owned, T!PeriodOf, Free, Ready,
         Wide, Callback
<1>5. QED
  BY <1>1, <1>2, <1>3, <1>4 DEF TimerInv, Enters

LEMMA TimerLeaves ==
  ASSUME TimerInv, NEW s \in 0 .. 2, Leaves(s)
  PROVE  TimerInv' /\ timer_isr'[s] = None
         /\ \A o \in 0 .. 2 \ {s} : timer_isr'[o] = timer_isr[o]
<1>1. TimerTypes'
  BY DEF TimerInv, TimerTypes, Leaves
<1>2. ExpiryInv'
  BY DEF TimerInv, TimerTypes, ExpiryInv, Leaves
<1>3. OwnersInv' /\ ConfigKept'
  BY DEF Leaves, TimerInv, OwnersInv, ConfigKept, T!ConfigKept, T!Owned, T!PeriodOf, Free, Ready,
         Wide, Callback
<1>4. QED
  BY <1>1, <1>2, <1>3 DEF TimerInv, TimerTypes, Leaves

(* The rules of the program: a pair is asked for when both halves are free, *)
(* a timer is stopped before it is released; TIMER_1 does not expire while  *)
(* its callback runs.                                                       *)
TimerRules == PairRule /\ CleanRelease /\ PromptTimer1

(* An interrupt that begins to run calls an owner's callback.               *)
Calls(s) ==
  timer_isr[s] = None /\ timer_isr'[s] # None =>
    \E id \in TimerIds : /\ timer_isr'[s] = <<id, id>> /\ T!Owned(id) /\ T!IrqOf(id) = s

LEMMA TimerStep ==
  ASSUME TimerInv, TimerRules, [T!TimerNext]_(T!timerVars)
  PROVE  TimerInv' /\ \A s \in 0 .. 2 : Calls(s)
<1>1. ASSUME NEW id \in TimerIds,
             \/ T!timer_init(id) \/ T!timer_release(id) \/ T!timer_set_period(id)
             \/ T!ChooseSource(id) \/ T!Gate(id) \/ T!timer_set_enabled(id)
             \/ T!timer_enable_interrupt(id) \/ T!timer_disable_interrupt(id)
             \/ T!timer_force_interrupt(id) \/ T!timer_set_if(id)
      PROVE  TimerInv' /\ \A s \in 0 .. 2 : Calls(s)
  <2>1. timer_isr' = timer_isr
    BY <1>1 DEF T!timer_init, T!timer_release, T!timer_set_period, T!ChooseSource, T!Gate,
                T!timer_set_enabled, T!timer_enable_interrupt, T!timer_disable_interrupt,
                T!timer_force_interrupt, T!timer_set_if
  <2>2. TimerInv'
    BY <1>1, InitTimer, OwnerReleases, OwnerSetsPeriod, OwnerSetsControl, OwnerSetsIrq
       DEF TimerInv, TimerRules
  <2>3. QED
    BY <2>1, <2>2 DEF Calls
<1>2. ASSUME NEW s \in 0 .. 2, T!Expire(s) PROVE TimerInv' /\ \A o \in 0 .. 2 : Calls(o)
  <2>1. timer_isr' = timer_isr
    BY <1>2 DEF T!Expire
  <2>2. QED
    BY <1>2, <2>1, TimerExpires DEF TimerRules, Calls
<1>3. ASSUME NEW s \in 0 .. 2, Enters(s) PROVE TimerInv' /\ \A o \in 0 .. 2 : Calls(o)
  <2>1. /\ TimerInv' /\ timer_isr' = [timer_isr EXCEPT ![s] = CallAt(s)]
        /\ \E id \in TimerIds : CallAt(s) = <<id, id>> /\ T!Owned(id) /\ T!IrqOf(id) = s
    BY <1>3, TimerEnters
  <2>2. QED
    BY <2>1 DEF TimerInv, TimerTypes, Calls
<1>4. ASSUME NEW s \in 0 .. 2, Leaves(s) PROVE TimerInv' /\ \A o \in 0 .. 2 : Calls(o)
  BY <1>4, TimerLeaves DEF Calls
<1>5. CASE T!T1Interrupt \/ T!T2Interrupt \/ T!T3Interrupt
  <2>1. T!T1Interrupt => Enters(0)
    BY DEF T!T1Interrupt, T!Enter, T!data, Enters, CallAt
  <2>2. T!T2Interrupt => Enters(1)
    BY DEF T!T2Interrupt, T!Enter, T!data, Enters, CallAt
  <2>3. T!T3Interrupt => Enters(2)
    BY DEF T!T3Interrupt, T!Enter, T!data, Enters, CallAt
  <2>4. QED
    BY <1>3, <1>5, <2>1, <2>2, <2>3
<1>6. CASE T!T1Return \/ \E s \in {1, 2} : T!PairReturn(s)
  <2>1. T!T1Return => Leaves(0)
    BY DEF T!T1Return, T!Leave, T!data, Leaves
  <2>2. ASSUME NEW s \in {1, 2}, T!PairReturn(s) PROVE Leaves(s)
    <3>1. flag' = [flag EXCEPT ![s] = flag[s]]
      BY <2>2 DEF T!PairReturn, T!Leave
    <3>2. flag' = flag
      BY <3>1 DEF TimerInv, TimerTypes
    <3>3. /\ UNCHANGED <<ids, Timer_Data, timer_asked, con, PR, timer_ie, due>>
          /\ timer_isr[s] # None /\ timer_isr' = [timer_isr EXCEPT ![s] = None]
      BY <2>2 DEF T!PairReturn, T!Leave, T!data
    <3>4. QED
      BY <3>2, <3>3 DEF Leaves
  <2>3. QED
    BY <1>4, <1>6, <2>1, <2>2
<1>7. CASE UNCHANGED T!timerVars
  <2>1. UNCHANGED <<ids, Timer_Data, timer_asked, con, PR, timer_ie, flag, timer_isr, due>>
    BY <1>7 DEF T!timerVars, T!data
  <2>2. QED
    BY <2>1 DEF TimerInv, TimerTypes, ExpiryInv, OwnersInv, ConfigKept, T!ConfigKept, T!Owned,
                T!PeriodOf, Free, Ready, Wide, Callback, Calls
<1>8. QED
  BY <1>1, <1>2, <1>5, <1>6, <1>7, TheTimers DEF T!TimerNext, T!Slots

(* A step of any driver is one of the timers' or leaves them alone.         *)
LEMMA TimerShare == [Next]_vars => [T!TimerNext]_(T!timerVars)
<1> SUFFICES ASSUME [Next]_vars PROVE T!TimerNext \/ UNCHANGED T!timerVars
  OBVIOUS
<1>1. CASE UNCHANGED timer
  BY <1>1 DEF timer, T!timerVars, T!data
<1>2. CASE ~UNCHANGED timer
  BY <1>2 DEF Next, vars
<1>3. QED
  BY <1>1, <1>2

LEMMA TimerInvHolds ==
  ASSUME TimerRules
  PROVE  Spec => []TimerInv
<1>1. Init => TimerInv
  BY TimerInitInv DEF TimerInv
<1>2. TimerInv /\ [Next]_vars => TimerInv'
  BY TimerShare, TimerStep
<1>3. QED
  BY <1>1, <1>2, PTL DEF Spec

(* Every owned timer stays set as its owner asked: what is done to one half *)
(* of a pair leaves the owner of the other alone (timer.c:1103-1128), if a  *)
(* pair is taken when both halves are free only and a timer is stopped      *)
(* before its release, which the code does not check.                       *)
THEOREM TimersStaySet ==
  ASSUME TimerRules
  PROVE  Spec => []ConfigKept
<1>1. TimerInv => ConfigKept
  BY DEF TimerInv
<1>2. QED
  BY <1>1, TimerInvHolds, PTL

(* An interrupt calls back the owner of the timer that raised it, by its    *)
(* name (timer.c:1324-1334), though the odd timer of a pair serves two.     *)
THEOREM OwnersAreCalled ==
  ASSUME TimerRules
  PROVE  Spec => CallbackOwner
<1> DEFINE Called == \A s \in T!Slots : timer_isr[s] = None /\ timer_isr'[s] # None =>
                       /\ timer_isr'[s][1] = timer_isr'[s][2]
                       /\ T!Owned(timer_isr'[s][1]) /\ T!IrqOf(timer_isr'[s][1]) = s
<1>1. TimerInv /\ [Next]_vars => [Called]_(T!timerVars)
  <2> SUFFICES ASSUME TimerInv, [Next]_vars PROVE Called
    OBVIOUS
  <2>1. \A s \in 0 .. 2 : Calls(s)
    BY TimerShare, TimerStep
  <2>2. QED
    BY <2>1 DEF Calls, T!Slots
<1>2. QED
  BY <1>1, TimerInvHolds, PTL DEF Spec, CallbackOwner, T!CallbackOwner

(* No expiry goes without a callback (timer.c:1291-1450): the flag of one   *)
(* that comes while the callback of the one before runs outlives it.  This  *)
(* asks nothing of the program, only that TIMER_1, whose flag is cleared    *)
(* last, does not expire while its callback runs.                           *)
THEOREM NoExpiryLost ==
  ASSUME PromptTimer1
  PROVE  Spec => []ExpiryKept
<1> DEFINE Bits == /\ flag \in [0 .. 2 -> BOOLEAN] /\ due \in [0 .. 2 -> BOOLEAN]
                   /\ DOMAIN timer_isr = 0 .. 2
                   /\ ExpiryInv
<1>1. Init => Bits
  <2>1. T!TimerInit => Bits
    BY DEF T!TimerInit, T!Idle, T!Slots, ExpiryInv
  <2>2. Init => T!TimerInit
    BY DEF Init
  <2>3. QED
    BY <2>1, <2>2
<1>2. Bits /\ [Next]_vars => Bits'
  <2> SUFFICES ASSUME Bits, [Next]_vars PROVE Bits'
    OBVIOUS
  <2> USE DEF ExpiryInv
  <2>1. ASSUME NEW id \in TimerIds, NEW e, NEW f \in BOOLEAN, T!SetIrq(id, e, f), T!ProgramRuns,
               timer_isr' = timer_isr
        PROVE  Bits'
    <3>1. T!IrqOf(id) \in 0 .. 2
      BY TheTimers DEF TimerIds
    <3>2. timer_isr[0] = None
      BY <2>1 DEF T!ProgramRuns, T!Slots
    <3>3. /\ flag' = [flag EXCEPT ![T!IrqOf(id)] = f]
          /\ due' = [due EXCEPT ![T!IrqOf(id)] = f]
      BY <2>1 DEF T!SetIrq
    <3>4. QED
      BY <2>1, <3>1, <3>2, <3>3
  <2>2. ASSUME NEW id \in TimerIds,
               \/ T!timer_init(id) \/ T!timer_enable_interrupt(id) \/ T!timer_disable_interrupt(id)
               \/ T!timer_force_interrupt(id) \/ T!timer_set_if(id)
        PROVE  Bits'
    BY <2>1, <2>2 DEF T!timer_init, T!timer_enable_interrupt, T!timer_disable_interrupt,
                      T!timer_force_interrupt, T!timer_set_if
  <2>3. ASSUME NEW id \in TimerIds,
               \/ T!timer_release(id) \/ T!timer_set_period(id) \/ T!ChooseSource(id) \/ T!Gate(id)
               \/ T!timer_set_enabled(id)
        PROVE  Bits'
    BY <2>3 DEF T!timer_release, T!timer_set_period, T!ChooseSource, T!Gate, T!timer_set_enabled
  <2>4. ASSUME NEW s \in 0 .. 2, T!Expire(s) PROVE Bits'
    BY <2>4 DEF T!Expire
  <2>5. ASSUME NEW s \in 0 .. 2, NEW call,
               flag' = [flag EXCEPT ![s] = TRUE] \/ flag' = [flag EXCEPT ![s] = FALSE],
               due' = [due EXCEPT ![s] = FALSE], timer_isr' = [timer_isr EXCEPT ![s] = call]
        PROVE  Bits'
    <3>1. flag' \in [0 .. 2 -> BOOLEAN] /\ due' \in [0 .. 2 -> BOOLEAN]
          /\ DOMAIN timer_isr' = 0 .. 2
      BY <2>5
    <3>2. \A o \in 0 .. 2 : due'[o] => flag'[o]
      BY <2>5
    <3>3. timer_isr'[0] # None => ~due'[0]
      BY <2>5
    <3>4. QED
      BY <3>1, <3>2, <3>3
  <2>6. CASE T!T1Interrupt \/ T!T2Interrupt \/ T!T3Interrupt
    BY <2>5, <2>6 DEF T!T1Interrupt, T!T2Interrupt, T!T3Interrupt, T!Enter
  <2>7. CASE T!T1Return \/ \E s \in {1, 2} : T!PairReturn(s)
    <3>1. CASE T!T1Return
      <4>1. /\ flag' = [flag EXCEPT ![0] = FALSE] /\ UNCHANGED due /\ timer_isr[0] # None
            /\ timer_isr' = [timer_isr EXCEPT ![0] = None]
        BY <3>1 DEF T!T1Return, T!Leave
      <4>2. QED
        BY <4>1
    <3>2. ASSUME NEW s \in {1, 2}, T!PairReturn(s) PROVE Bits'
      <4>1. /\ flag' = [flag EXCEPT ![s] = flag[s]] /\ UNCHANGED due
            /\ timer_isr' = [timer_isr EXCEPT ![s] = None]
        BY <3>2 DEF T!PairReturn, T!Leave
      <4>2. flag' = flag
        BY <4>1
      <4>3. QED
        BY <4>1, <4>2
    <3>3. QED
      BY <2>7, <3>1, <3>2
  <2>8. CASE UNCHANGED T!timerVars
    BY <2>8 DEF T!timerVars
  <2>9. QED
    BY <2>2, <2>3, <2>4, <2>6, <2>7, <2>8, TimerShare, TheTimers DEF T!TimerNext, T!Slots
<1>3. Bits => ExpiryKept
  BY DEF ExpiryInv, ExpiryKept, T!ExpiryKept, T!Slots
<1>4. QED
  BY <1>1, <1>2, <1>3, PTL DEF Spec

-----------------------------------------------------------------------------
(* The CAN driver.                                                          *)
Numbers == 1 .. Buffers

LEMMA SomeBuffers == Buffers \in Nat \ {0} /\ 1 \in Numbers
BY DriversAssumption DEF Numbers

Places == {"none", "rbif", "fifo", "copy", "read", "write", "callback", "tbif", "txreq"}
Halves == {"idle", "first", "second", "request"}

(* Before the driver is set up nothing is received, nor sent.               *)
CanTypes ==
  /\ RXFUL \subseteq Numbers /\ ful \subseteq Numbers /\ FBP \in Numbers /\ FNRB \in Numbers
  /\ TXREQ0 \in BOOLEAN /\ waiting \in BOOLEAN
  /\ RBIF \in BOOLEAN /\ TBIF \in BOOLEAN /\ C1IF \in BOOLEAN
  /\ can_isr \in Places /\ send[1] \in Halves
  /\ OPMODE = "config" =>
       /\ RXFUL = {} /\ pending = <<>> /\ ~TXREQ0 /\ wire = None /\ ~waiting
       /\ ~C1IF /\ can_isr = "none" /\ send[1] = "idle" /\ FBP = FNRB
  /\ OPMODE # "config" => REQOP # "config"

(* The reception half and the sending half of CanAnswered.                  *)
RxAnswered ==
  FNRB \in RXFUL => \/ RBIF /\ (C1IF \/ can_isr = "rbif")
                    \/ can_isr \in {"fifo", "copy", "read", "write", "callback"}
TxAnswered ==
  waiting /\ ~TXREQ0 => \/ TBIF /\ (C1IF \/ can_isr \notin {"none", "txreq"})
                        \/ can_isr = "txreq" \/ send[1] # "idle"

CanInv == CanTypes /\ RxAnswered /\ TxAnswered

LEMMA NextIsNumber == \A b \in Numbers : C!NextBuffer(b) \in Numbers
BY SomeBuffers DEF C!NextBuffer, Numbers

LEMMA CanInitInv == Init => CanInv
<1>1. Init => C!CanInit
  BY DEF Init
<1>2. ASSUME C!CanInit PROVE CanInv
  <2>1. send[1] = "idle"
    BY <1>2 DEF C!CanInit
  <2>2. CanTypes
    BY <1>2, <2>1, SomeBuffers DEF C!CanInit, CanTypes, Places, Halves
  <2>3. RxAnswered /\ TxAnswered
    BY <1>2 DEF C!CanInit, RxAnswered, TxAnswered
  <2>4. QED
    BY <2>2, <2>3 DEF CanInv
<1>3. QED
  BY <1>1, <1>2

LEMMA CanShare == [Next]_vars => [C!CanNext]_(C!canVars)
<1> SUFFICES ASSUME [Next]_vars PROVE C!CanNext \/ UNCHANGED C!canVars
  OBVIOUS
<1>1. CASE UNCHANGED can
  BY <1>1 DEF can, C!canVars, C!rx, C!tx, C!flags, C!mode, C!locals
<1>2. CASE ~UNCHANGED can
  BY <1>2 DEF Next, vars
<1>3. QED
  BY <1>1, <1>2

LEMMA PeripheralAnswers ==
  ASSUME CanInv, C!Receive \/ C!StartOfFrame \/ C!EndOfFrame \/ C!ModeChange
  PROVE  CanInv'
<1> USE DEF CanInv, CanTypes, RxAnswered, TxAnswered, Places
<1>1. CASE C!Receive
  BY <1>1, NextIsNumber DEF C!Receive, C!tx, C!mode, C!locals
<1>2. CASE C!StartOfFrame
  BY <1>2 DEF C!StartOfFrame, C!rx, C!flags, C!mode, C!locals
<1>3. CASE C!EndOfFrame
  BY <1>3 DEF C!EndOfFrame, C!rx, C!mode, C!locals
<1>4. CASE C!ModeChange
  BY <1>4 DEF C!ModeChange, C!rx, C!tx, C!flags, C!locals
<1>5. QED
  BY <1>1, <1>2, <1>3, <1>4

LEMMA ProgramAnswers ==
  ASSUME CanInv,
         \/ C!can_init \/ C!can_disable \/ C!can_enable \/ C!CanSendTest
         \/ C!CanSendCopy("first", "second", 1) \/ C!CanSendCopy("second", "request", 2)
         \/ C!CanSendRequest
  PROVE  CanInv'
<1> USE DEF CanInv, CanTypes, RxAnswered, TxAnswered, Places, Halves, C!ProgramRuns
<1>1. CASE C!can_init
  BY <1>1 DEF C!can_init, C!setup_can_buffers, C!can_ask_runlevel, C!flags, C!locals
<1>2. CASE C!can_disable \/ C!can_enable
  BY <1>2 DEF C!can_disable, C!can_enable, C!can_ask_runlevel, C!rx, C!tx, C!flags, C!locals
<1>3. CASE C!CanSendTest
  <2>1. CASE TXREQ0
    BY <1>3, <2>1 DEF C!CanSendTest, C!can_is_frame_room, C!rx, C!flags, C!mode, C!locals
  <2>2. CASE ~TXREQ0
    <3>1. send' = <<"first", C!NewFrame>> /\ UNCHANGED waiting
      BY <1>3, <2>2 DEF C!CanSendTest, C!can_is_frame_room
    <3>2. send'[1] = "first"
      BY <3>1
    <3>3. QED
      BY <1>3, <3>1, <3>2 DEF C!CanSendTest, C!rx, C!flags, C!mode, C!locals
  <2>3. QED
    BY <2>1, <2>2
<1>4. CASE C!CanSendCopy("first", "second", 1) \/ C!CanSendCopy("second", "request", 2)
  BY <1>4 DEF C!CanSendCopy, C!rx, C!flags, C!mode, C!locals
<1>5. CASE C!CanSendRequest
  BY <1>5 DEF C!CanSendRequest, C!rx, C!flags, C!mode, C!locals
<1>6. QED
  BY <1>1, <1>2, <1>3, <1>4, <1>5

LEMMA CallbackSends ==
  ASSUME CanTypes, C!SendFromCallback
  PROVE  /\ wire' = wire /\ TXREQ0' \in BOOLEAN /\ waiting' \in BOOLEAN /\ TXREQ0'
<1>1. CASE TXREQ0
  BY <1>1 DEF C!SendFromCallback, C!can_is_frame_room, CanTypes
<1>2. CASE ~TXREQ0
  BY <1>2 DEF C!SendFromCallback, C!can_is_frame_room, CanTypes
<1>3. QED
  BY <1>1, <1>2

LEMMA InterruptAnswers ==
  ASSUME CanInv,
         \/ C!C1Interrupt \/ C!TestRbif \/ C!can_rx \/ C!CopyFrame \/ C!ReadFul \/ C!WriteFul
         \/ C!RxCallback \/ C!TestTbif \/ C!can_tx
  PROVE  CanInv'
<1> USE DEF CanInv, CanTypes, RxAnswered, TxAnswered, Places, Halves, C!At
<1>1. CASE C!C1Interrupt
  BY <1>1 DEF C!C1Interrupt, C!rx, C!tx, C!mode, C!locals
<1>2. CASE C!TestRbif
  BY <1>2 DEF C!TestRbif, C!rx, C!tx, C!mode, C!locals
<1>3. CASE C!can_rx
  BY <1>3, SomeBuffers DEF C!can_rx, C!can_get_next_rx, C!rx, C!tx, C!flags, C!mode, Numbers
<1>4. CASE C!CopyFrame
  BY <1>4 DEF C!CopyFrame, C!rx, C!tx, C!flags, C!mode
<1>5. CASE C!ReadFul
  BY <1>5 DEF C!ReadFul, C!rx, C!tx, C!flags, C!mode
<1>6. CASE C!WriteFul
  BY <1>6, NextIsNumber DEF C!WriteFul, C!tx, C!flags, C!mode
<1>7. CASE C!RxCallback
  <2>1. /\ can_isr = "callback" /\ can_isr' = "fifo"
        /\ UNCHANGED <<can_buf, RXFUL, FBP, FNRB, next, RBIF, TBIF, C1IF, OPMODE, REQOP, ful, send>>
    BY <1>7 DEF C!RxCallback, C!NextFrame, C!flags, C!mode
  <2>2. /\ wire' = wire /\ TXREQ0' \in BOOLEAN /\ waiting' \in BOOLEAN
        /\ waiting' /\ ~TXREQ0' => waiting /\ ~TXREQ0
    <3>1. CASE UNCHANGED C!tx
      BY <3>1 DEF C!tx
    <3>2. CASE C!SendFromCallback
      BY <3>2, CallbackSends
    <3>3. QED
      BY <1>7, <3>1, <3>2 DEF C!RxCallback
  <2>3. QED
    BY <2>1, <2>2
<1>8. CASE C!TestTbif
  BY <1>8 DEF C!TestTbif, C!rx, C!tx, C!mode, C!locals
<1>9. CASE C!can_tx
  BY <1>9 DEF C!can_tx, C!SendFromCallback, C!can_is_frame_room, C!rx, C!tx, C!flags, C!mode, C!locals
<1>10. QED
  BY <1>1, <1>2, <1>3, <1>4, <1>5, <1>6, <1>7, <1>8, <1>9

-----------------------------------------------------------------------------
(* Sequences.                                                               *)
LEMMA Appended ==
  ASSUME NEW s \in Seq(Int), NEW x \in Int
  PROVE  /\ Append(s, x) \in Seq(Int) /\ Len(Append(s, x)) = Len(s) + 1
         /\ Append(s, x)[Len(s) + 1] = x
         /\ \A i \in 1 .. Len(s) : Append(s, x)[i] = s[i]
OBVIOUS

LEMMA Shortened ==
  ASSUME NEW s \in Seq(Int), Len(s) >= 1
  PROVE  /\ Tail(s) \in Seq(Int) /\ Len(Tail(s)) = Len(s) - 1
         /\ s # <<>> /\ Head(s) = s[1]
         /\ \A i \in 1 .. Len(s) - 1 : Tail(s)[i] = s[i + 1]
<1>1. s # <<>>
  OBVIOUS
<1>2. QED
  BY <1>1

(* Frames in.  A frame being delivered has left its buffer; the others lie  *)
(* in the buffers from FNRB on, in order, and nothing else is marked full.  *)
Delivering == IF can_isr = "callback" THEN 1 ELSE 0
Stored == Len(pending) - Delivering
Apart(f, b) == IF b >= f THEN b - f ELSE b - f + Buffers

FifoInv ==
  /\ can_buf \in [Numbers -> Int] /\ next \in Int /\ pending \in Seq(Int)
  /\ Stored \in 0 .. Buffers
  /\ RXFUL = {b \in Numbers : Apart(FNRB, b) < Stored}
  /\ Apart(FNRB, FBP) = IF Stored = Buffers THEN 0 ELSE Stored
  /\ \A b \in RXFUL : can_buf[b] = pending[Apart(FNRB, b) + 1 + Delivering]
  /\ can_isr \in {"copy", "read", "write"} => bufn = FNRB /\ FNRB \in RXFUL
  /\ can_isr \in {"read", "write"} => can_frame = can_buf[FNRB]
  /\ can_isr = "write" => ful = RXFUL \cap C!Half(bufn)
  /\ can_isr = "callback" => Len(pending) >= 1 /\ can_frame = pending[1]

(* Frames out.  Buffer 0 holds the frame accepted while it is requested,    *)
(* and is the program's while it copies one.                                *)
Twice(x) == <<x, x>>
SendInv ==
  /\ tx_buf = <<tx_buf[1], tx_buf[2]>> /\ send = <<send[1], send[2]>>
  /\ TXREQ0 => tx_buf = Twice(accepted)
  /\ wire # None => wire = Twice(accepted) /\ TXREQ0
  /\ send[1] # "idle" => ~TXREQ0
  /\ send[1] \in {"second", "request"} => tx_buf[1] = send[2]
  /\ send[1] = "request" => tx_buf[2] = send[2]

LEMMA Distances ==
  ASSUME NEW f \in Numbers
  PROVE  /\ \A b \in Numbers : Apart(f, b) \in 0 .. Buffers - 1
         /\ \A b, c \in Numbers : Apart(f, b) = Apart(f, c) => b = c
         /\ Apart(f, f) = 0
         /\ \A b \in Numbers : Apart(f, C!NextBuffer(b)) =
              IF Apart(f, b) = Buffers - 1 THEN 0 ELSE Apart(f, b) + 1
         /\ \A b \in Numbers \ {f} : Apart(C!NextBuffer(f), b) = Apart(f, b) - 1
         /\ Apart(C!NextBuffer(f), f) = Buffers - 1
BY SomeBuffers DEF Apart, C!NextBuffer, Numbers

LEMMA IntactInit == Init => FifoInv /\ SendInv
<1>1. Init => C!CanInit
  BY DEF Init
<1>2. ASSUME C!CanInit PROVE FifoInv
  <2>1. /\ pending = <<>> /\ Len(pending) = 0 /\ pending \in Seq(Int) /\ can_isr = "none" /\ FBP = 1
        /\ FNRB = 1 /\ RXFUL = {} /\ next = 0
    BY <1>2 DEF C!CanInit
  <2>2. can_buf \in [Numbers -> Int]
    BY <1>2 DEF C!CanInit, Numbers
  <2>3. Delivering = 0 /\ Stored = 0 /\ Apart(FNRB, FBP) = 0 /\ \A b \in Numbers : Apart(FNRB, b) \in Nat
    BY <2>1, SomeBuffers DEF Delivering, Stored, Apart, Numbers
  <2>4. QED
    BY <2>1, <2>2, <2>3, SomeBuffers DEF FifoInv
<1>3. ASSUME C!CanInit PROVE SendInv
  BY <1>3 DEF C!CanInit, SendInv, Twice
<1>4. QED
  BY <1>1, <1>2, <1>3

LEMMA FramesAreIntact == FifoInv /\ SendInv => CanIntact
<1> SUFFICES ASSUME FifoInv, SendInv PROVE C!CanIntact
  BY DEF CanIntact
<1>1. can_isr = "callback" => pending # <<>> /\ can_frame = Head(pending)
  BY Shortened DEF FifoInv
<1>2. wire # None => wire = <<accepted, accepted>> /\ TXREQ0
  BY DEF SendInv, Twice
<1>3. QED
  BY <1>1, <1>2 DEF C!CanIntact

LEMMA FrameStored ==
  ASSUME CanTypes, FifoInv, AtomicClear, C!Receive
  PROVE  FifoInv'
<1>1. /\ can_isr # "write"
      /\ UNCHANGED <<FNRB, can_isr, bufn, can_frame, ful>>
  BY DEF C!Receive, C!locals
<1>2. FNRB \in Numbers /\ FBP \in Numbers
  BY DEF CanTypes
<1>3. CASE FBP \in RXFUL
  <2>1. UNCHANGED <<can_buf, RXFUL, FBP, next, pending>>
    BY <1>3 DEF C!Receive
  <2>2. QED
    BY <1>1, <2>1 DEF FifoInv, Stored, Delivering
<1>4. CASE FBP \notin RXFUL
  <2>1. /\ next' = (next + 1) % (2 * Buffers)
        /\ can_buf' = [can_buf EXCEPT ![FBP] = next] /\ RXFUL' = RXFUL \cup {FBP}
        /\ FBP' = C!NextBuffer(FBP) /\ pending' = Append(pending, next)
    BY <1>4 DEF C!Receive
  <2>2. /\ Stored \in 0 .. Buffers - 1 /\ Apart(FNRB, FBP) = Stored /\ Delivering \in {0, 1}
        /\ Len(pending) \in Nat
    BY <1>2, <1>4, SomeBuffers, Distances DEF FifoInv, Delivering
  <2>3. /\ pending' \in Seq(Int) /\ Len(pending') = Len(pending) + 1
        /\ \A i \in 1 .. Len(pending) : pending'[i] = pending[i]
        /\ pending'[Len(pending) + 1] = next
    BY <2>1, Appended DEF FifoInv
  <2>4. Delivering' = Delivering /\ Stored' = Stored + 1
    BY <1>1, <2>2, <2>3 DEF Delivering, Stored
  <2>5. next' \in Int /\ can_buf' \in [Numbers -> Int]
    BY <1>2, <2>1, SomeBuffers DEF FifoInv
  <2>6. RXFUL' = {b \in Numbers : Apart(FNRB, b) < Stored + 1}
    BY <1>2, <2>1, <2>2, Distances DEF FifoInv
  <2>7. Apart(FNRB, FBP') = IF Stored + 1 = Buffers THEN 0 ELSE Stored + 1
    BY <1>2, <2>1, <2>2, SomeBuffers, Distances
  <2>8. ASSUME NEW b \in RXFUL' PROVE can_buf'[b] = pending'[Apart(FNRB, b) + 1 + Delivering]
    <3>1. CASE b = FBP
      BY <1>2, <2>1, <2>2, <2>3, <3>1 DEF FifoInv, Stored
    <3>2. CASE b # FBP
      <4>1. b \in RXFUL /\ b \in Numbers
        BY <2>1, <3>2 DEF CanTypes
      <4>2. Apart(FNRB, b) \in 0 .. Buffers - 1
        BY <1>2, <4>1, Distances
      <4>3. Apart(FNRB, b) < Stored
        BY <4>1 DEF FifoInv
      <4>4. Apart(FNRB, b) + 1 + Delivering \in 1 .. Len(pending)
        BY <2>2, <4>2, <4>3 DEF Stored
      <4>5. can_buf'[b] = can_buf[b] /\ can_buf[b] = pending[Apart(FNRB, b) + 1 + Delivering]
        BY <1>2, <2>1, <3>2, <4>1 DEF FifoInv
      <4>6. QED
        BY <2>3, <4>4, <4>5
    <3>3. QED
      BY <3>1, <3>2
  <2>9. /\ can_isr \in {"copy", "read"} => bufn = FNRB /\ FNRB \in RXFUL'
        /\ can_isr = "read" => can_frame = can_buf'[FNRB]
        /\ can_isr = "callback" => Len(pending') >= 1 /\ can_frame = pending'[1]
    BY <1>2, <1>4, <2>1, <2>2, <2>3 DEF FifoInv
  <2>10. /\ RXFUL' = {b \in Numbers : Apart(FNRB', b) < Stored'} /\ Stored' \in 0 .. Buffers
         /\ Apart(FNRB', FBP') = IF Stored' = Buffers THEN 0 ELSE Stored'
         /\ \A b \in RXFUL' : can_buf'[b] = pending'[Apart(FNRB', b) + 1 + Delivering']
    BY <1>1, <2>2, <2>4, <2>6, <2>7, <2>8, SomeBuffers
  <2>11. QED
    BY <1>1, <2>3, <2>5, <2>9, <2>10 DEF FifoInv
<1>5. QED
  BY <1>3, <1>4

LEMMA FrameRead ==
  ASSUME CanTypes, FifoInv, C!can_rx \/ C!CopyFrame \/ C!ReadFul
  PROVE  FifoInv'
<1>1. UNCHANGED <<can_buf, RXFUL, FBP, FNRB, next, pending>>
  BY DEF C!can_rx, C!CopyFrame, C!ReadFul, C!rx
<1>2. can_isr # "callback" /\ can_isr' # "callback"
  BY DEF C!can_rx, C!CopyFrame, C!ReadFul, C!At
<1>3. Delivering = 0 /\ Delivering' = 0 /\ Stored' = Stored
  BY <1>1, <1>2 DEF Delivering, Stored
<1>4. /\ can_isr' \in {"copy", "read", "write"} => bufn' = FNRB /\ FNRB \in RXFUL
      /\ can_isr' \in {"read", "write"} => can_frame' = can_buf[FNRB]
      /\ can_isr' = "write" => ful' = RXFUL \cap C!Half(bufn')
  <2>1. CASE C!can_rx
    BY <2>1 DEF C!can_rx, C!can_get_next_rx
  <2>2. CASE C!CopyFrame
    BY <2>2 DEF C!CopyFrame, C!At, FifoInv
  <2>3. CASE C!ReadFul
    BY <2>3 DEF C!ReadFul, C!At, FifoInv
  <2>4. QED
    BY <2>1, <2>2, <2>3
<1>5. QED
  BY <1>1, <1>2, <1>3, <1>4 DEF FifoInv

LEMMA BufferFreed ==
  ASSUME CanTypes, FifoInv, C!WriteFul
  PROVE  FifoInv'
<1>1. /\ can_isr = "write" /\ can_isr' = "callback" /\ FNRB' = C!NextBuffer(FNRB)
      /\ RXFUL' = (RXFUL \ C!Half(bufn)) \cup (ful \ {bufn})
      /\ UNCHANGED <<can_buf, FBP, next, pending, bufn, can_frame>>
  BY DEF C!WriteFul, C!At
<1>2. /\ FNRB \in Numbers /\ FBP \in Numbers /\ FNRB \in RXFUL /\ bufn = FNRB
      /\ ful = RXFUL \cap C!Half(bufn) /\ can_frame = can_buf[FNRB]
  BY <1>1 DEF CanTypes, FifoInv
<1>3. RXFUL' = RXFUL \ {FNRB}
  <2>1. FNRB \in C!Half(FNRB)
    BY <1>2 DEF C!Half, Numbers
  <2>2. QED
    BY <1>1, <1>2, <2>1
<1>4. Delivering = 0 /\ Delivering' = 1 /\ Len(pending) \in Nat /\ Stored = Len(pending)
      /\ Stored' = Stored - 1
  BY <1>1 DEF Delivering, Stored, FifoInv
<1>5. Stored \in 1 .. Buffers /\ Apart(FNRB, FNRB) = 0
  BY <1>2, Distances DEF FifoInv
<1>6. RXFUL' = {b \in Numbers : Apart(FNRB', b) < Stored - 1}
  <2>1. ASSUME NEW b \in Numbers PROVE b \in RXFUL' <=> Apart(FNRB', b) < Stored - 1
    <3>1. CASE b = FNRB
      BY <1>1, <1>2, <1>3, <1>5, <3>1, SomeBuffers, Distances
    <3>2. CASE b # FNRB
      <4>1. Apart(FNRB', b) = Apart(FNRB, b) - 1 /\ Apart(FNRB, b) \in Int
        BY <1>1, <1>2, <3>2, Distances
      <4>2. b \in RXFUL <=> Apart(FNRB, b) < Stored
        BY DEF FifoInv
      <4>3. QED
        BY <1>3, <1>5, <3>2, <4>1, <4>2
    <3>3. QED
      BY <3>1, <3>2
  <2>2. RXFUL' \subseteq Numbers
    BY <1>3 DEF CanTypes
  <2>3. QED
    BY <2>1, <2>2
<1>7. Apart(FNRB', FBP) = IF Stored - 1 = Buffers THEN 0 ELSE Stored - 1
  <2>1. CASE FBP = FNRB
    BY <1>1, <1>2, <1>5, <2>1, SomeBuffers, Distances DEF FifoInv
  <2>2. CASE FBP # FNRB
    BY <1>1, <1>2, <1>5, <2>2, SomeBuffers, Distances DEF FifoInv
  <2>3. QED
    BY <2>1, <2>2
<1>8. ASSUME NEW b \in RXFUL' PROVE can_buf[b] = pending[Apart(FNRB', b) + 1 + 1]
  <2>1. b \in RXFUL /\ b \in Numbers \ {FNRB} /\ Apart(FNRB', b) = Apart(FNRB, b) - 1
        /\ Apart(FNRB, b) \in Int
    BY <1>1, <1>2, <1>3, Distances DEF CanTypes
  <2>2. can_buf[b] = pending[Apart(FNRB, b) + 1 + Delivering]
    BY <2>1 DEF FifoInv
  <2>3. Apart(FNRB, b) + 1 + Delivering = Apart(FNRB', b) + 1 + 1
    BY <1>4, <2>1
  <2>4. QED
    BY <2>2, <2>3
<1>9. Len(pending) >= 1 /\ can_frame = pending[1]
  BY <1>2, <1>4, <1>5 DEF FifoInv
<1>10. /\ RXFUL' = {b \in Numbers : Apart(FNRB', b) < Stored'} /\ Stored' \in 0 .. Buffers
       /\ Apart(FNRB', FBP') = IF Stored' = Buffers THEN 0 ELSE Stored'
       /\ \A b \in RXFUL' : can_buf'[b] = pending'[Apart(FNRB', b) + 1 + Delivering']
  BY <1>1, <1>4, <1>5, <1>6, <1>7, <1>8, SomeBuffers
<1>11. QED
  BY <1>1, <1>9, <1>10 DEF FifoInv

LEMMA FrameDelivered ==
  ASSUME CanTypes, FifoInv, C!RxCallback
  PROVE  FifoInv'
<1>1. /\ can_isr = "callback" /\ can_isr' = "fifo" /\ pending' = Tail(pending)
      /\ UNCHANGED <<can_buf, RXFUL, FBP, FNRB, next>>
  BY DEF C!RxCallback, C!At, C!NextFrame
<1>2. /\ pending' \in Seq(Int) /\ Len(pending') = Len(pending) - 1 /\ Len(pending) \in Nat
      /\ \A i \in 1 .. Len(pending) - 1 : pending'[i] = pending[i + 1]
  BY <1>1, Shortened DEF FifoInv
<1>3. Delivering = 1 /\ Delivering' = 0 /\ Stored = Len(pending) - 1 /\ Stored' = Stored
  BY <1>1, <1>2 DEF Delivering, Stored
<1>4. ASSUME NEW b \in RXFUL PROVE can_buf[b] = pending'[Apart(FNRB, b) + 1]
  <2>1. b \in Numbers /\ Apart(FNRB, b) \in Nat /\ Apart(FNRB, b) < Stored
    BY Distances DEF CanTypes, FifoInv
  <2>2. can_buf[b] = pending[Apart(FNRB, b) + 2]
    <3>1. can_buf[b] = pending[Apart(FNRB, b) + 1 + Delivering]
      BY DEF FifoInv
    <3>2. Apart(FNRB, b) + 1 + Delivering = Apart(FNRB, b) + 2
      BY <1>3, <2>1
    <3>3. QED
      BY <3>1, <3>2
  <2>3. PICK i \in 1 .. Len(pending) - 1 : i = Apart(FNRB, b) + 1
    BY <1>2, <1>3, <2>1
  <2>4. i + 1 = Apart(FNRB, b) + 2
    BY <2>1, <2>3
  <2>5. pending'[i] = pending[i + 1]
    BY <1>2
  <2>6. QED
    BY <2>2, <2>3, <2>4, <2>5
<1>5. /\ RXFUL' = {b \in Numbers : Apart(FNRB', b) < Stored'} /\ Stored' \in 0 .. Buffers
      /\ Apart(FNRB', FBP') = IF Stored' = Buffers THEN 0 ELSE Stored'
      /\ \A b \in RXFUL' : can_buf'[b] = pending'[Apart(FNRB', b) + 1 + Delivering']
  <2>1. /\ RXFUL = {b \in Numbers : Apart(FNRB, b) < Stored} /\ Stored \in 0 .. Buffers
        /\ Apart(FNRB, FBP) = IF Stored = Buffers THEN 0 ELSE Stored
    BY DEF FifoInv
  <2>2. ASSUME NEW b \in RXFUL' PROVE can_buf'[b] = pending'[Apart(FNRB', b) + 1 + Delivering']
    <3>1. b \in RXFUL /\ Apart(FNRB, b) \in Int
      BY <1>1, Distances DEF CanTypes
    <3>2. Apart(FNRB', b) + 1 + Delivering' = Apart(FNRB, b) + 1
      BY <1>1, <1>3, <3>1
    <3>3. QED
      BY <1>1, <1>4, <3>1, <3>2
  <2>3. QED
    BY <1>1, <1>3, <2>1, <2>2
<1>6. QED
  BY <1>1, <1>2, <1>5 DEF FifoInv

LEMMA FifoStep ==
  ASSUME CanTypes, CanTypes', FifoInv, AtomicClear, [C!CanNext]_(C!canVars)
  PROVE  FifoInv'
<1>1. CASE C!Receive
  BY <1>1, FrameStored
<1>2. CASE C!can_rx \/ C!CopyFrame \/ C!ReadFul
  BY <1>2, FrameRead
<1>3. CASE C!WriteFul
  BY <1>3, BufferFreed
<1>4. CASE C!RxCallback
  BY <1>4, FrameDelivered
<1>5. ASSUME UNCHANGED <<can_buf, RXFUL, FBP, FNRB, next, pending, bufn, can_frame, ful>>,
             \/ can_isr' = can_isr
             \/ {can_isr, can_isr'} \cap {"copy", "read", "write", "callback"} = {}
      PROVE  FifoInv'
  <2>1. Delivering' = Delivering /\ Stored' = Stored
    BY <1>5 DEF Delivering, Stored
  <2>2. can_isr' \in {"copy", "read", "write", "callback"} => can_isr' = can_isr
    BY <1>5
  <2>3. QED
    BY <1>5, <2>1, <2>2 DEF FifoInv
<1>6. CASE C!StartOfFrame \/ C!EndOfFrame \/ C!ModeChange \/ C!can_disable \/ C!can_enable
  BY <1>5, <1>6 DEF C!StartOfFrame, C!EndOfFrame, C!ModeChange, C!can_disable, C!can_enable, C!rx,
                    C!locals
<1>7. CASE C!can_init
  <2>1. RXFUL = {} /\ RXFUL' = {} /\ OPMODE = "config"
    BY <1>7 DEF C!can_init, C!setup_can_buffers, CanTypes
  <2>2. QED
    BY <1>5, <1>7, <2>1 DEF C!can_init, C!locals
<1>8. CASE \/ C!CanSendTest \/ C!CanSendRequest
           \/ C!CanSendCopy("first", "second", 1) \/ C!CanSendCopy("second", "request", 2)
  BY <1>5, <1>8 DEF C!CanSendTest, C!CanSendCopy, C!CanSendRequest, C!rx, C!locals
<1>9. CASE C!C1Interrupt \/ C!TestRbif \/ C!TestTbif \/ C!can_tx
  BY <1>5, <1>9 DEF C!C1Interrupt, C!TestRbif, C!TestTbif, C!can_tx, C!At, C!rx, C!locals
<1>10. CASE UNCHANGED C!canVars
  BY <1>5, <1>10 DEF C!canVars, C!rx, C!locals
<1>11. QED
  BY <1>1, <1>2, <1>3, <1>4, <1>6, <1>7, <1>8, <1>9, <1>10 DEF C!CanNext

(* The sending side.                                                        *)
LEMMA CallbackSendsIntact ==
  ASSUME SendInv, OneSender, C!SendFromCallback, send' = send
  PROVE  SendInv'
<1>1. CASE TXREQ0
  BY <1>1 DEF C!SendFromCallback, C!can_is_frame_room, SendInv, Twice
<1>2. CASE ~TXREQ0
  BY <1>2 DEF C!SendFromCallback, C!can_is_frame_room, SendInv, Twice
<1>3. QED
  BY <1>1, <1>2

LEMMA SendStep ==
  ASSUME CanTypes, SendInv, OneSender, [C!CanNext]_(C!canVars)
  PROVE  SendInv'
<1>1. ASSUME UNCHANGED <<tx_buf, TXREQ0, wire, accepted, send>> PROVE SendInv'
  BY <1>1 DEF SendInv
<1>2. CASE \/ C!Receive \/ C!ModeChange \/ C!can_disable \/ C!can_enable \/ C!C1Interrupt
           \/ C!TestRbif \/ C!can_rx \/ C!CopyFrame \/ C!ReadFul \/ C!WriteFul \/ C!TestTbif
  BY <1>1, <1>2 DEF C!Receive, C!ModeChange, C!can_disable, C!can_enable, C!C1Interrupt, C!TestRbif,
                    C!can_rx, C!CopyFrame, C!ReadFul, C!WriteFul, C!TestTbif, C!tx
<1>3. CASE C!StartOfFrame
  BY <1>3 DEF C!StartOfFrame, SendInv
<1>4. CASE C!EndOfFrame
  BY <1>4 DEF C!EndOfFrame, SendInv
<1>5. CASE C!can_init
  BY <1>5 DEF C!can_init, C!setup_can_buffers, SendInv, CanTypes
<1>6. CASE C!CanSendTest
  <2>1. CASE TXREQ0
    BY <1>1, <1>6, <2>1 DEF C!CanSendTest, C!can_is_frame_room
  <2>2. CASE ~TXREQ0
    <3>1. send' = <<"first", C!NewFrame>> /\ UNCHANGED <<tx_buf, TXREQ0, wire, accepted>>
      BY <1>6, <2>2 DEF C!CanSendTest, C!can_is_frame_room
    <3>2. QED
      BY <2>2, <3>1 DEF SendInv
  <2>3. QED
    BY <2>1, <2>2
<1>7. CASE C!CanSendCopy("first", "second", 1)
  BY <1>7 DEF C!CanSendCopy, SendInv
<1>8. CASE C!CanSendCopy("second", "request", 2)
  BY <1>8 DEF C!CanSendCopy, SendInv
<1>9. CASE C!CanSendRequest
  BY <1>9 DEF C!CanSendRequest, SendInv, Twice
<1>10. CASE C!RxCallback
  <2>1. UNCHANGED C!tx \/ C!SendFromCallback
    BY <1>10 DEF C!RxCallback
  <2>2. send' = send
    BY <1>10 DEF C!RxCallback
  <2>3. QED
    BY <1>1, <2>1, <2>2, CallbackSendsIntact DEF C!tx
<1>11. CASE C!can_tx
  <2>1. UNCHANGED <<tx_buf, TXREQ0, wire, accepted>> \/ C!SendFromCallback
    BY <1>11 DEF C!can_tx, C!tx
  <2>2. send' = send
    BY <1>11 DEF C!can_tx
  <2>3. QED
    BY <1>1, <2>1, <2>2, CallbackSendsIntact
<1>12. CASE UNCHANGED C!canVars
  BY <1>1, <1>12 DEF C!canVars, C!tx
<1>13. QED
  BY <1>2, <1>3, <1>4, <1>5, <1>6, <1>7, <1>8, <1>9, <1>10, <1>11, <1>12 DEF C!CanNext

-----------------------------------------------------------------------------
LEMMA CanInvHolds == Spec => []CanInv
<1>1. CanInv /\ [Next]_vars => CanInv'
  <2> SUFFICES ASSUME CanInv, [Next]_vars PROVE CanInv'
    OBVIOUS
  <2>1. CASE C!CanNext
    BY <2>1, PeripheralAnswers, ProgramAnswers, InterruptAnswers DEF C!CanNext
  <2>2. CASE UNCHANGED C!canVars
    BY <2>2 DEF C!canVars, C!rx, C!tx, C!flags, C!mode, C!locals, CanInv, CanTypes, RxAnswered,
                TxAnswered
  <2>3. QED
    BY <2>1, <2>2, CanShare
<1>2. QED
  BY <1>1, CanInitInv, PTL DEF Spec

(* Nothing is forgotten between the flags of the interrupt and its loop     *)
(* (can.c:441-461): a frame stored is going to be delivered, and a sender   *)
(* refused is going to be told of the room.                                 *)
THEOREM NothingForgotten == Spec => []CanAnswered
<1>1. CanInv => CanAnswered
  BY DEF CanInv, RxAnswered, TxAnswered, CanAnswered, C!CanAnswered
<1>2. QED
  BY <1>1, CanInvHolds, PTL

(* Frames arrive whole and in order, in both directions (can.c:347-365,     *)
(* 415-439), when a bit of C1RXFUL is cleared by one instruction and the    *)
(* callbacks do not send while the program copies a frame.                  *)
THEOREM FramesWhole ==
  ASSUME AtomicClear, OneSender
  PROVE  Spec => []CanIntact
<1>1. CanInv /\ CanInv' /\ (FifoInv /\ SendInv) /\ [Next]_vars => (FifoInv /\ SendInv)'
  BY CanShare, FifoStep, SendStep DEF CanInv
<1>2. QED
  BY <1>1, CanInvHolds, IntactInit, FramesAreIntact, PTL DEF Spec

-----------------------------------------------------------------------------
(* The camera.  A product, and the place of a number between two multiples. *)
Times(k, m) == k * m

LEMMA TimesIs ==
  ASSUME NEW k \in Nat, NEW m \in Nat
  PROVE  /\ Times(k, m) \in Nat /\ Times(0, m) = 0
         /\ Times(k + 1, m) = Times(k, m) + m
<1>1. k * m \in Nat /\ 0 * m = 0 /\ (k + 1) * m = k * m + m
  OBVIOUS
<1>2. QED
  BY <1>1 DEF Times

LEMMA TimesOrder ==
  ASSUME NEW k \in Nat, NEW n \in Nat, NEW m \in Nat, k <= n
  PROVE  Times(k, m) <= Times(n, m)
<1>1. PICK i \in Nat : n = k + i
  <2>1. n - k \in Nat /\ n = k + (n - k)
    OBVIOUS
  <2>2. QED
    BY <2>1
<1>2. (k + i) * m = k * m + i * m /\ i * m \in Nat /\ k * m \in Nat
  OBVIOUS
<1>3. QED
  BY <1>1, <1>2 DEF Times

LEMMA Place ==
  ASSUME NEW k \in Nat, NEW m \in Nat \ {0}, NEW i \in 0 .. m - 1
  PROVE  (Times(k, m) + i) \div m = k /\ (Times(k, m) + i) % m = i
<1>1. Times(k, m) \in Nat
  BY TimesIs
<1>2. Times(k, m) + i \in Int /\ Times(k, m) + i = m * k + i
  BY <1>1 DEF Times
<1>3. QED
  BY <1>2, Divides

-----------------------------------------------------------------------------
(* The bytes the loop takes out of a line. *)
TakenIs(conf, n, g) ==
  g = [i \in 0 .. n |-> IF i = 0 THEN << >>
                        ELSE IF conf[i] = 1 THEN Append(g[i - 1], i - 1)
                        ELSE g[i - 1]]

LEMMA TakenOneMore ==
  ASSUME NEW conf, NEW n \in Nat, NEW g, TakenIs(conf, n, g)
  PROVE  \E h : TakenIs(conf, n + 1, h)
<1> DEFINE Step(h, i) == IF i = 0 THEN << >>
                         ELSE IF conf[i] = 1 THEN Append(h[i - 1], i - 1)
                         ELSE h[i - 1]
           h == [i \in 0 .. n + 1 |-> IF i = n + 1 THEN Step(g, i) ELSE g[i]]
<1>1. \A i \in 0 .. n : g[i] = Step(g, i)
  <2>1. g = [i \in 0 .. n |-> Step(g, i)]
    BY DEF TakenIs
  <2>2. QED
    BY <2>1
<1>2. ASSUME NEW i \in 0 .. n + 1 PROVE h[i] = Step(h, i)
  <2>1. i # 0 => i - 1 \in 0 .. n /\ h[i - 1] = g[i - 1]
    OBVIOUS
  <2>2. Step(h, i) = Step(g, i)
    BY <2>1
  <2>3. CASE i = n + 1
    BY <2>2, <2>3
  <2>4. CASE i # n + 1
    <3>1. i \in 0 .. n /\ h[i] = g[i]
      BY <2>4
    <3>2. QED
      BY <1>1, <2>2, <3>1
  <2>5. QED
    BY <2>3, <2>4
<1>3. h = [i \in 0 .. n + 1 |-> Step(h, i)]
  BY <1>2
<1>4. TakenIs(conf, n + 1, h)
  BY <1>3 DEF TakenIs
<1>5. QED
  BY <1>4

LEMMA TakenExists ==
  ASSUME NEW conf, NEW n \in Nat
  PROVE  \E g : TakenIs(conf, n, g)
<1> DEFINE Z == {k \in Nat : \E g : TakenIs(conf, k, g)}
<1>1. 0 \in Z
  <2> DEFINE g == [i \in 0 .. 0 |-> << >>]
  <2>1. TakenIs(conf, 0, g)
    BY DEF TakenIs
  <2>2. QED
    BY <2>1
<1>2. ASSUME NEW k \in Nat, k \in Z PROVE k + 1 \in Z
  BY <1>2, TakenOneMore
<1> HIDE DEF Z
<1>3. Nat \subseteq Z
  BY <1>1, <1>2, AllNaturals
<1>4. QED
  BY <1>3 DEF Z

LEMMA TakenStep ==
  ASSUME NEW conf, Len(conf) \in Nat
  PROVE  /\ V!BytesTaken(conf)[0] = << >>
         /\ \A i \in 1 .. Len(conf) :
              V!BytesTaken(conf)[i] = IF conf[i] = 1
                                      THEN Append(V!BytesTaken(conf)[i - 1], i - 1)
                                      ELSE V!BytesTaken(conf)[i - 1]
<1> DEFINE b == V!BytesTaken(conf)
<1>1. b = CHOOSE g : TakenIs(conf, Len(conf), g)
  BY DEF V!BytesTaken, TakenIs
<1>2. \E g : TakenIs(conf, Len(conf), g)
  BY TakenExists
<1> HIDE DEF b
<1>3. TakenIs(conf, Len(conf), b)
  BY <1>1, <1>2
<1>4. b = [i \in 0 .. Len(conf) |-> IF i = 0 THEN << >>
                                    ELSE IF conf[i] = 1 THEN Append(b[i - 1], i - 1)
                                    ELSE b[i - 1]]
  BY <1>3 DEF TakenIs
<1>5. \A i \in 0 .. Len(conf) :
        b[i] = IF i = 0 THEN << >>
               ELSE IF conf[i] = 1 THEN Append(b[i - 1], i - 1)
               ELSE b[i - 1]
  BY <1>4
<1>6. /\ b[0] = << >>
      /\ \A i \in 1 .. Len(conf) :
           b[i] = IF conf[i] = 1 THEN Append(b[i - 1], i - 1) ELSE b[i - 1]
  BY <1>5
<1>7. QED
  BY <1>6 DEF b

(* n bytes out of a line, c of them of each column and columns w apart. *)
Spread(q, n, c, w) ==
  /\ q \in Seq(Nat) /\ Len(q) = n
  /\ \A i \in 1 .. n : q[i] = Times((i - 1) \div c, w) + ((i - 1) % c)

LEMMA SpreadMore ==
  ASSUME NEW c \in Nat \ {0}, NEW w \in Nat, NEW k \in Nat, NEW i \in 0 .. c - 1,
         NEW q, NEW n \in Nat, n = Times(k, c) + i, Spread(q, n, c, w)
  PROVE  Spread(Append(q, Times(k, w) + i), n + 1, c, w)
<1>0. Times(k, w) \in Nat
  BY TimesIs
<1>1. Times(k, w) + i \in Nat
  BY <1>0
<1>2. q \in Seq(Nat) /\ Len(q) = n
  BY DEF Spread
<1> DEFINE p == Append(q, Times(k, w) + i)
<1>3. /\ p \in Seq(Nat) /\ Len(p) = n + 1 /\ p[n + 1] = Times(k, w) + i
      /\ \A j \in 1 .. n : p[j] = q[j]
  BY <1>1, <1>2, AppendProperties
<1>4. ASSUME NEW j \in 1 .. n + 1
      PROVE  p[j] = Times((j - 1) \div c, w) + ((j - 1) % c)
  <2>1. CASE j = n + 1
    <3>1. j - 1 = Times(k, c) + i
      BY <2>1, TimesIs
    <3>2. (Times(k, c) + i) \div c = k /\ (Times(k, c) + i) % c = i
      BY Place
    <3>3. QED
      BY <1>1, <1>3, <2>1, <3>1, <3>2
  <2>2. CASE j # n + 1
    <3>1. j \in 1 .. n
      BY <2>2
    <3>2. QED
      BY <1>3, <3>1 DEF Spread
  <2>3. QED
    BY <2>1, <2>2
<1> HIDE DEF p
<1>5. Spread(p, n + 1, c, w)
  BY <1>3, <1>4 DEF Spread
<1>6. QED
  BY <1>5 DEF p

(* The table of a line of n columns, of w bytes each of which c are taken. *)
LineIs(conf, n, c, w) ==
  /\ Len(conf) = Times(n, w) + 1 /\ conf[Times(n, w) + 1] = 2
  /\ \A k \in 0 .. n - 1, i \in 0 .. w - 1 :
       conf[Times(k, w) + i + 1] = IF i < c THEN 1 ELSE 0

LEMMA LineTable ==
  ASSUME NEW n \in Nat, NEW c \in Nat \ {0}, NEW p \in Nat
  PROVE  LineIs(V!Line(n, c, p), n, c, c * (1 + p))
<1> DEFINE w == c * (1 + p)
           f == [i \in 1 .. Times(n, w) |-> IF (i - 1) % w < c THEN 1 ELSE 0]
<1>1. w \in Nat \ {0}
  <2>1. c * (1 + p) = c + c * p /\ c * p \in Nat
    OBVIOUS
  <2>2. QED
    BY <2>1
<1>2. n * c * (1 + p) = Times(n, w)
  BY DEF Times
<1> HIDE DEF w
<1>3. Times(n, w) \in Nat
  BY <1>1, TimesIs
<1>4. V!Line(n, c, p) = f \o <<2>>
  BY <1>2 DEF V!Line, w
<1>5. f \in Seq({0, 1, 2}) /\ Len(f) = Times(n, w)
  BY <1>3
<1>6. <<2>> \in Seq({0, 1, 2}) /\ Len(<<2>>) = 1 /\ <<2>>[1] = 2
  OBVIOUS
<1> DEFINE g == f \o <<2>>
<1> HIDE DEF f
<1>7. /\ Len(g) = Times(n, w) + 1
      /\ \A i \in 1 .. Times(n, w) + 1 :
           g[i] = IF i <= Times(n, w) THEN f[i] ELSE <<2>>[i - Times(n, w)]
  BY <1>5, <1>6, ConcatProperties
<1> HIDE DEF g
<1>8. g[Times(n, w) + 1] = 2
  BY <1>3, <1>6, <1>7
<1>9. ASSUME NEW k \in 0 .. n - 1, NEW i \in 0 .. w - 1
      PROVE  g[Times(k, w) + i + 1] = IF i < c THEN 1 ELSE 0
  <2>1. Times(k, w) \in Nat /\ Times(k + 1, w) = Times(k, w) + w
    BY <1>1, TimesIs
  <2>2. Times(k + 1, w) <= Times(n, w)
    BY <1>1, TimesOrder
  <2>3. (Times(k, w) + i) % w = i
    BY <1>1, Place
  <2>4. PICK j \in 1 .. Times(n, w) : j = Times(k, w) + i + 1
    BY <1>1, <1>3, <2>1, <2>2
  <2>5. (j - 1) % w = i
    BY <2>1, <2>3, <2>4
  <2>6. g[j] = f[j]
    BY <1>3, <1>7, <2>4
  <2>7. f[j] = IF i < c THEN 1 ELSE 0
    BY <2>5 DEF f
  <2>8. QED
    BY <2>4, <2>6, <2>7
<1>10. LineIs(g, n, c, w)
  BY <1>7, <1>8, <1>9 DEF LineIs
<1>11. QED
  BY <1>4, <1>10 DEF g, w

(* One more column of the line. *)
LEMMA ColumnTaken ==
  ASSUME NEW conf, NEW n \in Nat, NEW c \in Nat \ {0}, NEW w \in Nat, c <= w,
         LineIs(conf, n, c, w), NEW k \in 0 .. n - 1,
         Spread(V!BytesTaken(conf)[Times(k, w)], Times(k, c), c, w)
  PROVE  Spread(V!BytesTaken(conf)[Times(k + 1, w)], Times(k + 1, c), c, w)
<1> DEFINE b == V!BytesTaken(conf)
           Some(i) == IF i < c THEN i ELSE c
           Z == {i \in Nat : i <= w =>
                   Spread(b[Times(k, w) + i], Times(k, c) + Some(i), c, w)}
<1> HIDE DEF b, Some, Z
<1>1. /\ Times(k, w) \in Nat /\ Times(k + 1, w) = Times(k, w) + w
      /\ Times(k, c) \in Nat /\ Times(k + 1, c) = Times(k, c) + c
      /\ Times(k + 1, w) <= Times(n, w) /\ Times(n, w) \in Nat
  BY TimesIs, TimesOrder
<1>2. Len(conf) = Times(n, w) + 1 /\ Len(conf) \in Nat
  BY <1>1 DEF LineIs
<1>3. ASSUME NEW i \in 0 .. w - 1
      PROVE  b[Times(k, w) + (i + 1)] =
               IF i < c THEN Append(b[Times(k, w) + i], Times(k, w) + i)
               ELSE b[Times(k, w) + i]
  <2>1. PICK a \in Nat : a = Times(k, w)
    BY <1>1
  <2>2. a + i + 1 \in 1 .. Len(conf)
    <3>1. a + w <= Times(n, w)
      BY <1>1, <2>1
    <3>2. PICK e \in Nat : e = Times(n, w) /\ a + w <= e /\ Len(conf) = e + 1
      BY <1>1, <1>2, <3>1
    <3>3. QED
      BY <3>2
  <2>3. PICK j \in 1 .. Len(conf) : j = a + i + 1
    BY <2>2
  <2>4. j = a + (i + 1) /\ j - 1 = a + i
    BY <2>1, <2>3
  <2>5. conf[j] = IF i < c THEN 1 ELSE 0
    BY <2>1, <2>3 DEF LineIs
  <2>6. b[j] = IF conf[j] = 1 THEN Append(b[j - 1], j - 1) ELSE b[j - 1]
    BY <1>2, TakenStep DEF b
  <2>7. b[a + (i + 1)] = IF i < c THEN Append(b[a + i], a + i) ELSE b[a + i]
    <3>1. conf[j] = 1 <=> i < c
      BY <2>5
    <3>2. b[j] = IF i < c THEN Append(b[j - 1], j - 1) ELSE b[j - 1]
      BY <2>6, <3>1
    <3>3. QED
      BY <2>4, <3>2
  <2>8. QED
    BY <2>1, <2>7
<1>4. 0 \in Z
  <2>1. Times(k, w) + 0 = Times(k, w) /\ Times(k, c) + Some(0) = Times(k, c)
    BY <1>1 DEF Some
  <2>2. QED
    BY <2>1 DEF b, Z
<1>5. ASSUME NEW i \in Nat, i \in Z PROVE i + 1 \in Z
  <2> SUFFICES ASSUME i + 1 <= w
               PROVE  Spread(b[Times(k, w) + (i + 1)], Times(k, c) + Some(i + 1), c, w)
    BY DEF Z
  <2> DEFINE m == Times(k, c) + Some(i)
             q == b[Times(k, w) + i]
  <2>1. Some(i) \in Nat
    BY DEF Some
  <2>2. Spread(q, m, c, w) /\ m \in Nat
    BY <1>1, <1>5, <2>1 DEF Z
  <2>3. b[Times(k, w) + (i + 1)] = IF i < c THEN Append(q, Times(k, w) + i) ELSE q
    BY <1>3
  <2>4. CASE i < c
    <3>1. Some(i) = i /\ Some(i + 1) = i + 1 /\ i \in 0 .. c - 1
      BY <2>4 DEF Some
    <3>2. m = Times(k, c) + i /\ m + 1 = Times(k, c) + Some(i + 1)
      BY <1>1, <3>1
    <3> HIDE DEF q, m
    <3>3. Spread(Append(q, Times(k, w) + i), m + 1, c, w)
      BY <2>2, <3>1, <3>2, SpreadMore
    <3>4. QED
      BY <2>3, <2>4, <3>2, <3>3
  <2>5. CASE ~ (i < c)
    <3>1. Some(i) = c /\ Some(i + 1) = c
      BY <2>5 DEF Some
    <3> HIDE DEF q
    <3>2. QED
      BY <2>2, <2>3, <2>5, <3>1
  <2>6. QED
    BY <2>4, <2>5
<1>6. Nat \subseteq Z
  BY <1>4, <1>5, AllNaturals
<1>7. Spread(b[Times(k, w) + w], Times(k, c) + Some(w), c, w)
  BY <1>6 DEF Z
<1>8. Some(w) = c
  BY DEF Some
<1>9. QED
  BY <1>1, <1>7, <1>8 DEF b

LEMMA LineTaken ==
  ASSUME NEW conf, NEW n \in Nat, NEW c \in Nat \ {0}, NEW w \in Nat, c <= w,
         LineIs(conf, n, c, w)
  PROVE  Spread(V!BytesTaken(conf)[Len(conf)], Times(n, c), c, w)
<1> DEFINE b == V!BytesTaken(conf)
           Z == {k \in Nat : k <= n => Spread(b[Times(k, w)], Times(k, c), c, w)}
<1>1. Len(conf) = Times(n, w) + 1 /\ Times(n, w) \in Nat /\ Times(0, w) = 0 /\ Times(0, c) = 0
  BY TimesIs DEF LineIs
<1>2. b[0] = << >>
  BY <1>1, TakenStep
<1>3. 0 \in Z
  <2>1. Spread(<< >>, 0, c, w)
    BY DEF Spread
  <2>2. QED
    BY <1>1, <1>2, <2>1
<1>4. ASSUME NEW k \in Nat, k \in Z PROVE k + 1 \in Z
  <2> SUFFICES ASSUME k + 1 <= n PROVE Spread(b[Times(k + 1, w)], Times(k + 1, c), c, w)
    OBVIOUS
  <2>1. k \in 0 .. n - 1 /\ Spread(b[Times(k, w)], Times(k, c), c, w)
    BY <1>4
  <2>2. QED
    BY <2>1, ColumnTaken
<1> HIDE DEF Z
<1>5. Spread(b[Times(n, w)], Times(n, c), c, w)
  <2>1. Nat \subseteq Z
    BY <1>3, <1>4, AllNaturals
  <2>2. n \in Z
    BY <2>1
  <2>3. QED
    BY <2>2 DEF Z
<1>6. PICK j \in 1 .. Len(conf) : j = Times(n, w) + 1
  BY <1>1
<1>7. conf[j] = 2 /\ j = Len(conf) /\ j - 1 = Times(n, w)
  BY <1>1, <1>6 DEF LineIs
<1>8. b[j] = b[j - 1]
  BY <1>1, <1>7, TakenStep
<1>9. QED
  BY <1>5, <1>7, <1>8

-----------------------------------------------------------------------------
(* What the windows of the program have in common. *)
Sensible(r) ==
  /\ r.x \in Nat /\ r.y \in Nat /\ r.w \in Nat /\ r.h \in Nat \ {0}
  /\ r.zoom_w \in Nat \ {0} /\ r.zoom_h \in Nat \ {0} /\ r.bpp \in {1, 2}

LEMMA RequestsSensible == \A r \in Requests : Sensible(r)
<1>1. Corners \subseteq Nat /\ Sides \subseteq Nat \ {0} /\ Zooms \subseteq Nat \ {0}
  BY DriversAssumption
<1>2. QED
  BY <1>1 DEF Requests, Sensible

LEMMA CameraSizes ==
  /\ ArrayWidth \in Nat /\ ArrayHeight \in Nat /\ OriginX \in Nat /\ OriginY \in Nat
BY DriversAssumption

(* The part of the zoom the sensor does divides it. *)
LEMMA Scale ==
  ASSUME NEW zh \in Nat \ {0}, NEW zw \in Nat \ {0}
  PROVE  /\ V!Sampling(zh, zw) \in {1, 2, 4}
         /\ zh \div V!Sampling(zh, zw) \in Nat \ {0}
         /\ zh = V!Sampling(zh, zw) * (zh \div V!Sampling(zh, zw))
         /\ zw \div V!Sampling(zh, zw) \in Nat \ {0}
         /\ zw = V!Sampling(zh, zw) * (zw \div V!Sampling(zh, zw))
<1>1. CASE zh % 4 = 0 /\ zw % 4 = 0
  <2>1. V!Sampling(zh, zw) = 4
    BY <1>1 DEF V!Sampling
  <2>2. QED
    BY <1>1, <2>1
<1>2. CASE ~ (zh % 4 = 0 /\ zw % 4 = 0) /\ zh % 2 = 0 /\ zw % 2 = 0
  <2>1. V!Sampling(zh, zw) = 2
    BY <1>2 DEF V!Sampling
  <2>2. QED
    BY <1>2, <2>1
<1>3. CASE ~ (zh % 2 = 0 /\ zw % 2 = 0)
  <2>1. ~ (zh % 4 = 0 /\ zw % 4 = 0)
    BY <1>3
  <2>2. V!Sampling(zh, zw) = 1
    BY <1>3, <2>1 DEF V!Sampling
  <2>3. QED
    BY <2>2
<1>4. QED
  BY <1>1, <1>2, <1>3

Sensed(r) == V!Sampling(r.zoom_h, r.zoom_w)
(* Lines and columns of the sensor from one that is taken to the next. *)
Across(r) == r.zoom_w \div Sensed(r)
Down(r) == r.zoom_h \div Sensed(r)
Columns(r) == r.w \div r.zoom_w
LinesOf(r) == r.h \div r.zoom_h

LEMMA ScaleOf ==
  ASSUME NEW r, Sensible(r)
  PROVE  /\ Sensed(r) \in {1, 2, 4}
         /\ Across(r) \in Nat \ {0} /\ r.zoom_w = Sensed(r) * Across(r)
         /\ Down(r) \in Nat \ {0} /\ r.zoom_h = Sensed(r) * Down(r)
         /\ Columns(r) \in Nat /\ LinesOf(r) \in Nat
<1>1. /\ r.zoom_w \in Nat \ {0} /\ r.zoom_h \in Nat \ {0} /\ r.w \in Nat /\ r.h \in Nat
  BY DEF Sensible
<1>2. Columns(r) \in Nat /\ LinesOf(r) \in Nat
  BY <1>1, Divided DEF Columns, LinesOf
<1>3. QED
  BY <1>1, <1>2, Scale DEF Sensed, Across, Down

(* What po3030k_config_cam leaves of a window. *)
Programmed(r) ==
  /\ Sensible(r) /\ V!Acceptable(r)
  /\ sampl_mode = Sensed(r)
  /\ window = <<r.x + OriginX - Sensed(r) * V!IRQ_PIX_LAT, r.y + OriginY - Sensed(r)>>
  /\ speed = V!Speed(Sensed(r), r.bpp) /\ slow_path = (r.bpp = 1 /\ Sensed(r) = 4)
  /\ line_conf = V!Line(Columns(r), r.bpp, Across(r) - 1)
  /\ blank_row_betw = Down(r) - 1 /\ row = LinesOf(r)

(* The pixel a byte belongs to, by the pace of the loop. *)
LEMMA PixelIs ==
  ASSUME NEW r, Programmed(r), NEW k \in Nat, NEW i \in 0 .. r.bpp - 1
  PROVE  V!Pixel(Times(k, r.bpp * Across(r)) + i) = Times(k, Across(r))
<1>1. /\ Sensible(r) /\ sampl_mode = Sensed(r) /\ r.bpp \in {1, 2}
      /\ speed = V!Speed(Sensed(r), r.bpp)
  BY DEF Programmed, Sensible
<1> DEFINE slow == r.bpp = 1 /\ Sensed(r) = 4
<1>0. slow_path <=> slow
  <2>1. slow_path = slow
    BY DEF Programmed
  <2> HIDE DEF slow
  <2>2. QED
    BY <2>1
<1>2. Across(r) \in Nat \ {0} /\ Sensed(r) \in {1, 2, 4}
  BY <1>1, ScaleOf
<1>3. PICK t \in Nat : t = Times(k, Across(r))
  BY <1>2, TimesIs
<1>4. Times(k, r.bpp * Across(r)) = r.bpp * t
  <2>1. k * (r.bpp * Across(r)) = r.bpp * (k * Across(r))
    BY <1>1, <1>2
  <2>2. QED
    BY <1>3, <2>1 DEF Times
<1>5. CASE r.bpp = 1
  <2>1. i = 0 /\ Times(k, r.bpp * Across(r)) + i = t
    BY <1>3, <1>4, <1>5
  <2>2. CASE Sensed(r) = 1
    <3>1. V!Loop = 8
      BY <1>0, <1>5, <2>2 DEF V!Loop
    <3>2. speed = 4 /\ 2 * speed * sampl_mode = 8
      BY <1>1, <1>5, <2>2 DEF V!Speed
    <3>3. V!Pixel(t) = (t * 8) \div 8
      BY <3>1, <3>2 DEF V!Pixel
    <3>4. QED
      BY <1>3, <2>1, <3>3
  <2>3. CASE Sensed(r) = 2
    <3>1. V!Loop = 8
      BY <1>0, <1>5, <2>3 DEF V!Loop
    <3>2. speed = 2 /\ 2 * speed * sampl_mode = 8
      BY <1>1, <1>5, <2>3 DEF V!Speed
    <3>3. V!Pixel(t) = (t * 8) \div 8
      BY <3>1, <3>2 DEF V!Pixel
    <3>4. QED
      BY <1>3, <2>1, <3>3
  <2>4. CASE Sensed(r) = 4
    <3>1. V!Loop = 16
      BY <1>0, <1>5, <2>4 DEF V!Loop
    <3>2. speed = 2 /\ 2 * speed * sampl_mode = 16
      BY <1>1, <1>5, <2>4 DEF V!Speed
    <3>3. V!Pixel(t) = (t * 16) \div 16
      BY <3>1, <3>2 DEF V!Pixel
    <3>4. QED
      BY <1>3, <2>1, <3>3
  <2>5. QED
    BY <1>2, <2>2, <2>3, <2>4
<1>6. CASE r.bpp = 2
  <2>1. PICK byte \in Nat : byte = 2 * t + i /\ byte = Times(k, r.bpp * Across(r)) + i
    BY <1>4, <1>6
  <2>2. 8 \div 1 = 8 /\ 8 \div 2 = 4 /\ 8 \div 4 = 2
    OBVIOUS
  <2>3. V!Loop = 8 /\ speed = 8 \div Sensed(r)
    BY <1>0, <1>1, <1>6 DEF V!Speed, V!Loop
  <2>4. 2 * speed * sampl_mode = 16
    BY <1>1, <1>2, <2>2, <2>3
  <2>5. V!Pixel(byte) = (byte * 8) \div 16
    BY <2>3, <2>4 DEF V!Pixel
  <2>6. (byte * 8) \div 16 = t
    BY <1>6, <2>1
  <2>7. QED
    BY <1>3, <2>1, <2>5, <2>6
<1>7. QED
  BY <1>1, <1>5, <1>6

(* The columns a line is read at. *)
ColumnTrue(r, q, n) ==
  /\ q \in Seq(Int) /\ Len(q) = n
  /\ \A i \in 1 .. n : q[i] = OriginX + r.x + r.zoom_w * ((i - 1) \div r.bpp)

LEMMA LineRead ==
  ASSUME NEW r, Programmed(r)
  PROVE  ColumnTrue(r, [i \in 1 .. Len(V!Taken) |-> V!Column(V!Taken[i])],
                    r.bpp * Columns(r))
<1>1. /\ Sensible(r) /\ r.bpp \in Nat \ {0} /\ r.x \in Nat /\ sampl_mode = Sensed(r)
      /\ window[1] = r.x + OriginX - Sensed(r) * 4
      /\ line_conf = V!Line(Columns(r), r.bpp, Across(r) - 1)
  BY DEF Programmed, Sensible, V!IRQ_PIX_LAT
<1>2. /\ Across(r) \in Nat \ {0} /\ Columns(r) \in Nat
      /\ Sensed(r) \in {1, 2, 4} /\ r.zoom_w = Sensed(r) * Across(r)
  BY <1>1, ScaleOf
<1> DEFINE w == r.bpp * Across(r)
<1>3. w \in Nat /\ r.bpp <= w /\ 1 + (Across(r) - 1) = Across(r) /\ Across(r) - 1 \in Nat
  <2>1. PICK p \in Nat : Across(r) = 1 + p
    <3>1. Across(r) - 1 \in Nat /\ Across(r) = 1 + (Across(r) - 1)
      BY <1>2
    <3>2. QED
      BY <3>1
  <2>2. r.bpp * (1 + p) = r.bpp + r.bpp * p /\ r.bpp * p \in Nat
    BY <1>1, <2>1
  <2>3. QED
    BY <1>1, <1>2, <2>1, <2>2
<1>4. LineIs(line_conf, Columns(r), r.bpp, w)
  BY <1>1, <1>2, <1>3, LineTable
<1> HIDE DEF w
<1>5. Spread(V!Taken, Times(Columns(r), r.bpp), r.bpp, w)
  BY <1>1, <1>2, <1>3, <1>4, LineTaken DEF V!Taken
<1>6. Times(Columns(r), r.bpp) = r.bpp * Columns(r)
  BY <1>1, <1>2 DEF Times
<1> DEFINE n == r.bpp * Columns(r)
<1>7. n \in Nat /\ Len(V!Taken) = n
  BY <1>1, <1>2, <1>5, <1>6 DEF Spread
<1> HIDE DEF n
<1>8. ASSUME NEW i \in 1 .. n
      PROVE  /\ V!Column(V!Taken[i]) = OriginX + r.x + r.zoom_w * ((i - 1) \div r.bpp)
             /\ V!Column(V!Taken[i]) \in Int
  <2>1. PICK k \in Nat, j \in 0 .. r.bpp - 1 : k = (i - 1) \div r.bpp /\ j = (i - 1) % r.bpp
    <3>1. i - 1 \in Nat
      BY <1>7
    <3>2. QED
      BY <1>1, <3>1, Divided
  <2>2. V!Taken[i] = Times(k, w) + j
    BY <1>5, <1>6, <2>1 DEF Spread, n
  <2>3. V!Pixel(V!Taken[i]) = Times(k, Across(r))
    BY <2>2, PixelIs DEF w
  <2>4. V!Column(V!Taken[i]) = window[1] + Sensed(r) * (4 + Times(k, Across(r)))
    BY <1>1, <2>3 DEF V!Column, V!IRQ_PIX_LAT
  <2>5. Sensed(r) * Times(k, Across(r)) = r.zoom_w * k /\ Times(k, Across(r)) \in Nat
    BY <1>2, <2>1, TimesIs DEF Times
  <2>6. r.zoom_w * k \in Nat
    BY <1>1, <2>1 DEF Sensible
  <2>7. window[1] + Sensed(r) * (4 + Times(k, Across(r))) = OriginX + r.x + r.zoom_w * k
    BY <1>1, <1>2, <2>5, <2>6, CameraSizes
  <2>8. QED
    BY <1>1, <2>1, <2>4, <2>6, <2>7, CameraSizes
<1>9. QED
  BY <1>7, <1>8 DEF ColumnTrue, n

-----------------------------------------------------------------------------
(* The lines.  All those of the window come before the frame ends. *)
LEMMA LinesEnough ==
  ASSUME NEW r, Programmed(r)
  PROVE  /\ LinesOf(r) >= 1 /\ V!Lines \in Int /\ V!Lines >= 2
         /\ Times(LinesOf(r), Down(r)) < V!Lines
<1>1. /\ r.y \in Nat /\ r.h \in Nat \ {0} /\ r.zoom_h \in Nat \ {0}
      /\ r.y + r.h <= ArrayHeight /\ r.h % r.zoom_h = 0
      /\ sampl_mode = Sensed(r) /\ window[2] = r.y + OriginY - Sensed(r)
  BY DEF Programmed, Sensible, V!Acceptable
<1>2. /\ Sensed(r) \in {1, 2, 4} /\ Down(r) \in Nat \ {0} /\ r.zoom_h = Sensed(r) * Down(r)
      /\ LinesOf(r) \in Nat
  BY ScaleOf DEF Programmed
<1>3. r.h = r.zoom_h * LinesOf(r)
  <2>1. r.h = r.zoom_h * (r.h \div r.zoom_h) + (r.h % r.zoom_h)
    BY <1>1, Divided
  <2>2. r.zoom_h * LinesOf(r) \in Nat
    BY <1>1, <1>2
  <2>3. QED
    BY <1>1, <2>1, <2>2 DEF LinesOf
<1>4. LinesOf(r) >= 1
  <2>1. r.zoom_h * 0 = 0
    BY <1>1
  <2>2. LinesOf(r) # 0
    BY <1>1, <1>3, <2>1
  <2>3. QED
    BY <1>2, <2>2
<1>5. PICK t \in Nat : t = Times(LinesOf(r), Down(r))
  BY <1>2, TimesIs
<1>6. t >= 1
  <2>1. Times(1, Down(r)) = Down(r)
    BY <1>2 DEF Times
  <2>2. Times(1, Down(r)) <= t
    BY <1>2, <1>4, <1>5, TimesOrder
  <2>3. QED
    BY <1>2, <2>1, <2>2
<1>7. r.h = Sensed(r) * t
  <2>1. Sensed(r) * Down(r) * LinesOf(r) = Sensed(r) * (LinesOf(r) * Down(r))
    BY <1>2
  <2>2. QED
    BY <1>2, <1>3, <1>5, <2>1 DEF Times
<1>8. PICK g \in Nat : ArrayHeight - r.y = r.h + g
  <2>1. ArrayHeight - r.y - r.h \in Nat
    BY <1>1, CameraSizes
  <2>2. ArrayHeight - r.y = r.h + (ArrayHeight - r.y - r.h)
    BY <1>1, CameraSizes
  <2>3. QED
    BY <2>1, <2>2
<1>9. OriginY + ArrayHeight + 1 - window[2] = Sensed(r) * t + g + 1 + Sensed(r)
  BY <1>1, <1>2, <1>7, <1>8, CameraSizes
<1>10. V!Lines = (Sensed(r) * t + g + 1 + Sensed(r)) \div Sensed(r)
  BY <1>1, <1>9 DEF V!Lines
<1>11. V!Lines \in Int /\ V!Lines > t
  <2>1. CASE Sensed(r) = 1
    BY <1>10, <2>1
  <2>2. CASE Sensed(r) = 2
    BY <1>10, <2>2
  <2>3. CASE Sensed(r) = 4
    BY <1>10, <2>3
  <2>4. QED
    BY <1>2, <2>1, <2>2, <2>3
<1>12. QED
  BY <1>4, <1>5, <1>6, <1>11

(* The line taken for a row of the image is within its band of the window. *)
LEMMA RowPlace ==
  ASSUME NEW r, Programmed(r), NEW k \in Nat
  PROVE  LET y == window[2] + Times(k + 1, Down(r)) * sampl_mode
         IN  y \in Int /\ (y - OriginY - r.y) \div r.zoom_h = k
<1>1. /\ r.y \in Nat /\ r.zoom_h \in Nat \ {0}
      /\ sampl_mode = Sensed(r) /\ window[2] = r.y + OriginY - Sensed(r)
  BY DEF Programmed, Sensible
<1>2. /\ Sensed(r) \in {1, 2, 4} /\ Down(r) \in Nat \ {0} /\ r.zoom_h = Sensed(r) * Down(r)
  BY ScaleOf DEF Programmed
<1>3. /\ Times(k + 1, Down(r)) = Times(k, Down(r)) + Down(r)
      /\ Times(k, Down(r)) \in Nat
  BY <1>2, TimesIs
<1>4. Times(k, r.zoom_h) = Sensed(r) * Times(k, Down(r))
  BY <1>2 DEF Times
<1>5. r.zoom_h - Sensed(r) \in 0 .. r.zoom_h - 1
  BY <1>2
<1>6. (Times(k, r.zoom_h) + (r.zoom_h - Sensed(r))) \div r.zoom_h = k
  BY <1>1, <1>5, Place
<1> DEFINE y == window[2] + Times(k + 1, Down(r)) * sampl_mode
<1>7. Times(k + 1, Down(r)) * sampl_mode = Times(k, r.zoom_h) + r.zoom_h
  BY <1>1, <1>2, <1>3, <1>4
<1>8. Times(k, r.zoom_h) \in Nat
  BY <1>1, TimesIs
<1>9. y \in Int /\ y - OriginY - r.y = Times(k, r.zoom_h) + (r.zoom_h - Sensed(r))
  BY <1>1, <1>2, <1>7, <1>8, CameraSizes
<1>10. QED
  BY <1>6, <1>9

-----------------------------------------------------------------------------
(* The capture. *)
Shots == [frame : Nat, y : Int, x : Seq(Int)]
RowTrue(r, shot, k) ==
  /\ shot \in Shots
  /\ (shot.y - OriginY - r.y) \div r.zoom_h = k - 1
  /\ ColumnTrue(r, shot.x, r.bpp * Columns(r))
(* The first n rows of the image, all of one frame. *)
Rows(b, r, n, f) ==
  /\ b \in Seq(Shots) /\ Len(b) = n
  /\ \A k \in 1 .. n : RowTrue(r, b[k], k) /\ b[k].frame = f

LEMMA RowsMore ==
  ASSUME NEW b, NEW r, NEW n \in Nat, NEW f, NEW shot, Rows(b, r, n, f),
         RowTrue(r, shot, n + 1), shot.frame = f
  PROVE  Rows(Append(b, shot), r, n + 1, f)
<1> DEFINE p == Append(b, shot)
<1>1. shot \in Shots /\ b \in Seq(Shots) /\ Len(b) = n
  BY DEF Rows, RowTrue
<1>2. /\ p \in Seq(Shots) /\ Len(p) = n + 1 /\ p[n + 1] = shot
      /\ \A j \in 1 .. n : p[j] = b[j]
  BY <1>1, AppendProperties
<1> HIDE DEF p
<1>3. ASSUME NEW k \in 1 .. n + 1 PROVE RowTrue(r, p[k], k) /\ p[k].frame = f
  <2>1. CASE k = n + 1
    BY <1>2, <2>1
  <2>2. CASE k # n + 1
    <3>1. k \in 1 .. n
      BY <2>2
    <3>2. QED
      BY <1>2, <3>1 DEF Rows
  <2>3. QED
    BY <2>1, <2>2
<1>4. Rows(p, r, n + 1, f)
  BY <1>2, <1>3 DEF Rows
<1>5. QED
  BY <1>4 DEF p

CameraTypes ==
  /\ line \in Nat /\ tmr \in Nat /\ current_row \in Nat /\ frame \in Nat /\ row \in Nat
  /\ synced \in BOOLEAN /\ ic \in BOOLEAN /\ vsync \in BOOLEAN /\ ton \in BOOLEAN
  /\ img_ready \in BOOLEAN
(* No capture, and the image of the last one. *)
Resting == ~ic /\ ~vsync /\ ~ton =>
  \/ buffer = << >>
  \/ img_ready /\ \E f \in Nat : Rows(buffer, request, row, f)
(* VSYNC is waited for, or its interrupt waits. *)
Waiting == ic \/ vsync =>
  /\ buffer = << >> /\ current_row = 0 /\ tmr = 0 /\ pr = Down(request)
  /\ ~img_ready /\ ~ton
  /\ vsync => line = 1 /\ synced
(* The lines are counted: the timer and the row tell the line of the frame. *)
Counting == ton =>
  /\ ~ic /\ ~vsync /\ synced /\ ~img_ready
  /\ pr = Down(request) /\ tmr < pr /\ current_row < row
  /\ line = Times(current_row, pr) + tmr + 1
  /\ Rows(buffer, request, current_row, frame)
CameraInv ==
  /\ CameraTypes /\ Resting /\ Waiting /\ Counting
  /\ IF request = None THEN ~ic /\ ~vsync /\ ~ton /\ buffer = << >> ELSE Programmed(request)

LEMMA CameraInitInv == Init => CameraInv
<1> SUFFICES ASSUME Init PROVE CameraInv
  OBVIOUS
<1>1. V!CameraInit
  BY DEF Init
<1>2. QED
  BY <1>1 DEF V!CameraInit, CameraInv, CameraTypes, Resting, Waiting, Counting

(* The program asks for a window. *)
LEMMA WindowAsked ==
  ASSUME CameraInv, V!po3030k_config_cam
  PROVE  CameraInv'
<1>1. PICK r \in Requests :
        LET s == V!Sampling(r.zoom_h, r.zoom_w)
            pbp == r.zoom_w \div s - 1
        IN  /\ V!Acceptable(r)
            /\ request' = r /\ sampl_mode' = s
            /\ window' = <<r.x + OriginX - s * V!IRQ_PIX_LAT, r.y + OriginY - s>>
            /\ speed' = V!Speed(s, r.bpp) /\ slow_path' = (r.bpp = 1 /\ s = 4)
            /\ line_conf' = V!Line(r.w \div r.zoom_w, r.bpp, pbp)
            /\ blank_row_betw' = V!BlankLines(r, s) /\ row' = r.h \div r.zoom_h
  BY DEF V!po3030k_config_cam
<1>2. Sensible(r)
  BY RequestsSensible
<1>3. Programmed(r)'
  BY <1>1, <1>2 DEF Programmed, Sensed, Columns, Across, Down, LinesOf, V!BlankLines,
                    Sensible, V!Acceptable, V!IRQ_PIX_LAT, V!Speed, V!Line
<1>4. Programmed(request)'
  BY <1>1, <1>3
<1>5. row' \in Nat
  BY <1>1, <1>2, ScaleOf DEF LinesOf
<1>6. /\ ~ic' /\ ~vsync' /\ ~ton' /\ line' = 0 /\ synced' = FALSE /\ buffer' = << >>
      /\ UNCHANGED <<tmr, current_row, frame, img_ready, ic, vsync, ton>>
  BY DEF V!po3030k_config_cam, V!Capturing, V!timer
<1>7. QED
  BY <1>4, <1>5, <1>6 DEF CameraInv, CameraTypes, Resting, Waiting, Counting

LEMMA SettingsKept ==
  ASSUME UNCHANGED V!settings
  PROVE  /\ request' = request /\ row' = row
         /\ Programmed(request) => Programmed(request)'
         /\ Down(request)' = Down(request)
         /\ \A b, n, f : Rows(b, request, n, f) => Rows(b, request, n, f)'
<1>1. UNCHANGED <<request, window, sampl_mode, speed, slow_path, line_conf, blank_row_betw, row>>
  BY DEF V!settings
<1>2. Down(request)' = Down(request)
  BY <1>1 DEF Down, Sensed, V!Sampling
<1>3. Programmed(request) => Programmed(request)'
  BY <1>1 DEF Programmed, Sensed, Columns, Across, Down, LinesOf, Sensible, V!Sampling,
              V!Acceptable, V!IRQ_PIX_LAT, V!Speed, V!Line
<1>4. \A b, n, f : Rows(b, request, n, f) => Rows(b, request, n, f)'
  BY <1>1 DEF Rows, RowTrue, ColumnTrue, Columns, Shots
<1>5. QED
  BY <1>1, <1>2, <1>3, <1>4

LEMMA CaptureLaunched ==
  ASSUME CameraInv, V!po3030k_launch_capture
  PROVE  CameraInv'
<1>1. /\ request # None /\ ~ton /\ ~vsync /\ buffer' = << >> /\ current_row' = 0 /\ tmr' = 0
      /\ ~img_ready' /\ img_ready' \in BOOLEAN /\ pr' = blank_row_betw + 1
      /\ ic' = TRUE /\ vsync' = FALSE
      /\ UNCHANGED <<ton, line, synced, frame>> /\ UNCHANGED V!settings
  BY DEF V!po3030k_launch_capture, V!Capturing, V!sensor
<1>2. Programmed(request)
  BY <1>1 DEF CameraInv
<1>3. Down(request) \in Nat \ {0} /\ blank_row_betw = Down(request) - 1
  BY <1>2, ScaleOf DEF Programmed
<1>4. Programmed(request)' /\ pr' = Down(request)' /\ row' = row /\ request' = request
  BY <1>1, <1>2, <1>3, SettingsKept
<1>5. Waiting'
  BY <1>1, <1>4 DEF Waiting, CameraInv
<1>6. QED
  BY <1>1, <1>4, <1>5 DEF CameraInv, CameraTypes, Resting, Counting

LEMMA VsyncRises ==
  ASSUME CameraInv, V!Vsync
  PROVE  CameraInv'
<1>1. /\ line = 1 /\ ~synced /\ synced' = TRUE /\ vsync' = (vsync \/ ic)
      /\ UNCHANGED <<tmr, pr, ton, ic, line, frame, current_row, buffer, img_ready>>
      /\ UNCHANGED V!settings
  BY DEF V!Vsync, V!timer, V!capture
<1> DEFINE come == vsync \/ ic
<1>2. (vsync' <=> come) /\ vsync' \in BOOLEAN
  <2>1. vsync' = come /\ come \in BOOLEAN
    BY <1>1
  <2> HIDE DEF come
  <2>2. QED
    BY <2>1
<1>3. ~ton
  BY <1>1 DEF CameraInv, Counting
<1>4. /\ request' = request /\ row' = row /\ (request # None => Programmed(request)')
      /\ Down(request)' = Down(request)
  BY <1>1, SettingsKept DEF CameraInv
<1>5. Resting'
  <2>1. SUFFICES ASSUME ~ic', ~vsync', ~ton' PROVE Resting'
    BY DEF Resting
  <2>2. ~ic /\ ~vsync
    BY <1>1, <1>2, <2>1
  <2>3. \/ buffer = << >>
        \/ img_ready /\ \E f \in Nat : Rows(buffer, request, row, f)
    BY <1>3, <2>2 DEF CameraInv, Resting
  <2>4. \A f : Rows(buffer, request, row, f) => Rows(buffer, request, row, f)'
    BY <1>1, <1>4, SettingsKept DEF Rows
  <2>5. QED
    BY <1>1, <2>3, <2>4 DEF Resting
<1>6. Waiting'
  BY <1>1, <1>2, <1>4 DEF CameraInv, Waiting
<1>7. CameraTypes'
  BY <1>1, <1>2, <1>4 DEF CameraInv, CameraTypes
<1>8. Counting'
  BY <1>1, <1>3 DEF Counting
<1>9. IF request' = None THEN ~ic' /\ ~vsync' /\ ~ton' /\ buffer' = << >> ELSE Programmed(request)'
  BY <1>1, <1>2, <1>4 DEF CameraInv
<1>10. QED
  BY <1>4, <1>5, <1>6, <1>7, <1>8, <1>9 DEF CameraInv

(* What a step leaves when no capture is on. *)
LEMMA ImageKept ==
  ASSUME CameraInv, UNCHANGED V!settings, UNCHANGED <<ic, vsync, ton, buffer, img_ready>>
  PROVE  Resting'
<1>1. request' = request /\ row' = row
  BY SettingsKept
<1>2. \A f : Rows(buffer, request, row, f) => Rows(buffer, request, row, f)'
  BY <1>1, SettingsKept DEF Rows
<1>3. QED
  BY <1>2 DEF CameraInv, Resting

LEMMA FrameEnds ==
  ASSUME CameraInv, V!NextFrame
  PROVE  CameraInv'
<1>1. /\ line = V!Lines /\ line' = 0 /\ synced' = FALSE /\ frame' = (frame + 1) % 3
      /\ UNCHANGED <<tmr, pr, ton, ic, vsync, current_row, buffer, img_ready>>
      /\ UNCHANGED V!settings
  BY DEF V!NextFrame, V!timer, V!capture
<1>2. frame' \in Nat
  BY <1>1 DEF CameraInv, CameraTypes
<1>3. ~ton /\ ~vsync
  <2> SUFFICES ASSUME request # None PROVE ~ton /\ ~vsync
    BY DEF CameraInv
  <2>1. Programmed(request)
    BY DEF CameraInv
  <2>2. V!Lines >= 2 /\ V!Lines \in Int /\ Times(LinesOf(request), Down(request)) < V!Lines
    BY <2>1, LinesEnough
  <2>3. ~vsync
    BY <1>1, <2>2 DEF CameraInv, Waiting
  <2>4. ASSUME ton PROVE FALSE
    <3>1. /\ current_row \in Nat /\ tmr \in Nat /\ row = LinesOf(request) /\ current_row < row
          /\ pr = Down(request) /\ tmr < pr /\ line = Times(current_row, pr) + tmr + 1
      BY <2>1, <2>4 DEF CameraInv, CameraTypes, Counting, Programmed
    <3>2. Down(request) \in Nat /\ row \in Nat
      BY <2>1, <3>1, ScaleOf DEF Programmed
    <3>3. Times(current_row + 1, pr) = Times(current_row, pr) + pr /\ Times(current_row, pr) \in Nat
      BY <3>1, <3>2, TimesIs
    <3>4. Times(current_row + 1, pr) <= Times(row, pr)
      BY <3>1, <3>2, TimesOrder
    <3>5. Times(row, pr) \in Nat
      BY <3>1, <3>2, TimesIs
    <3>6. QED
      BY <1>1, <2>2, <3>1, <3>2, <3>3, <3>4, <3>5
  <2>5. QED
    BY <2>3, <2>4
<1>4. /\ request' = request /\ row' = row /\ (request # None => Programmed(request)')
      /\ Down(request)' = Down(request)
  BY <1>1, SettingsKept DEF CameraInv
<1>5. Resting'
  BY <1>1, ImageKept
<1>6. Waiting'
  BY <1>1, <1>3, <1>4 DEF CameraInv, Waiting
<1>7. QED
  BY <1>1, <1>2, <1>3, <1>4, <1>5, <1>6 DEF CameraInv, CameraTypes, Counting

LEMMA CountingBegins ==
  ASSUME CameraInv, V!vsync_cb
  PROVE  CameraInv'
<1>1. /\ vsync /\ ~vsync' /\ vsync' \in BOOLEAN /\ ton' = TRUE /\ ~ic' /\ ic' \in BOOLEAN
      /\ UNCHANGED <<tmr, pr, line, synced, frame, current_row, buffer, img_ready>>
      /\ UNCHANGED V!settings
  BY DEF V!vsync_cb, V!sensor, V!capture
<1>2. /\ request # None /\ Programmed(request) /\ buffer = << >> /\ current_row = 0 /\ tmr = 0
      /\ pr = Down(request) /\ ~img_ready /\ line = 1 /\ synced
  BY <1>1 DEF CameraInv, Waiting
<1>3. Down(request) \in Nat \ {0} /\ row = LinesOf(request) /\ row \in Nat /\ row >= 1
  BY <1>2, ScaleOf, LinesEnough DEF Programmed
<1>4. /\ request' = request /\ row' = row /\ Programmed(request)'
      /\ Down(request)' = Down(request)
  BY <1>1, <1>2, SettingsKept
<1>5. Counting'
  <2>1. Times(current_row, pr) = 0
    BY <1>2, <1>3, TimesIs
  <2>2. Times(current_row, pr)' = 0
    BY <1>1, <2>1 DEF Times
  <2>3. Rows(buffer, request, current_row, frame)'
    <3>1. buffer' = << >> /\ current_row' = 0
      BY <1>1, <1>2
    <3>2. QED
      BY <3>1 DEF Rows
  <2>4. QED
    BY <1>1, <1>2, <1>3, <1>4, <2>2, <2>3 DEF Counting
<1>6. QED
  BY <1>1, <1>2, <1>4, <1>5 DEF CameraInv, CameraTypes, Resting, Waiting

(* A line is taken. *)
LEMMA RowTaken ==
  ASSUME CameraInv, V!Hsync, ton, tmr + 1 = pr, V!T4Interrupt
  PROVE  CameraInv'
<1> DEFINE xs == [i \in 1 .. Len(V!Taken) |-> V!Column(V!Taken[i])]
           shot == [frame |-> frame, y |-> window[2] + line * sampl_mode, x |-> xs]
           done == current_row + 1 = row
<1>1. /\ line' = line + 1 /\ tmr' = 0 /\ current_row' = current_row + 1
      /\ buffer' = Append(buffer, shot)
      /\ UNCHANGED <<pr, ic, vsync, synced, frame>> /\ UNCHANGED V!settings
  BY DEF V!Hsync, V!T4Interrupt
<1>2. /\ (img_ready' <=> done) /\ (ton' <=> ~done)
      /\ img_ready' \in BOOLEAN /\ ton' \in BOOLEAN
  <2>1. img_ready' = (current_row' = row) /\ ton' = (current_row' # row)
    BY DEF V!T4Interrupt
  <2> DEFINE full == current_row' = row
  <2>2. img_ready' = full /\ ton' = (~full) /\ full \in BOOLEAN
    BY <2>1
  <2>3. full <=> done
    BY <1>1
  <2> HIDE DEF full, done
  <2>4. QED
    BY <2>2, <2>3
<1>3. /\ request # None /\ Programmed(request)
      /\ ~ic /\ ~vsync /\ synced /\ pr = Down(request) /\ current_row < row
      /\ line = Times(current_row, pr) + tmr + 1 /\ Rows(buffer, request, current_row, frame)
      /\ current_row \in Nat /\ tmr \in Nat /\ line \in Nat /\ frame \in Nat /\ row \in Nat
  BY DEF CameraInv, CameraTypes, Counting
<1>4. /\ pr \in Nat \ {0} /\ row = LinesOf(request)
      /\ Times(current_row + 1, pr) = Times(current_row, pr) + pr
      /\ Times(current_row, pr) \in Nat
  BY <1>3, ScaleOf, TimesIs DEF Programmed
<1>5. line = Times(current_row + 1, Down(request))
  BY <1>3, <1>4
<1>6. shot.y \in Int /\ (shot.y - OriginY - request.y) \div request.zoom_h = current_row
  BY <1>3, <1>5, RowPlace
<1>7. ColumnTrue(request, xs, request.bpp * Columns(request))
  BY <1>3, LineRead
<1> HIDE DEF xs
<1>8. RowTrue(request, shot, current_row + 1) /\ shot.frame = frame
  <2>1. xs \in Seq(Int)
    BY <1>7 DEF ColumnTrue
  <2>2. shot \in Shots /\ shot.x = xs /\ shot.frame = frame
    BY <1>3, <1>6, <2>1 DEF Shots
  <2>3. (current_row + 1) - 1 = current_row
    BY <1>3
  <2> HIDE DEF shot
  <2>4. QED
    BY <1>6, <1>7, <2>2, <2>3 DEF RowTrue
<1> HIDE DEF shot
<1>9. Rows(Append(buffer, shot), request, current_row + 1, frame)
  BY <1>3, <1>8, RowsMore
<1>10. Rows(buffer', request', current_row', frame')
  <2>1. request' = request
    BY <1>1, SettingsKept
  <2>2. QED
    BY <1>1, <1>9, <2>1
<1>11. /\ request' = request /\ row' = row /\ Programmed(request)'
       /\ Down(request)' = Down(request)
  BY <1>1, <1>3, SettingsKept
<1>12. Counting'
  <2>1. SUFFICES ASSUME ~done PROVE Counting'
    BY <1>2 DEF Counting
  <2>2. current_row' < row' /\ ~img_ready'
    BY <1>1, <1>2, <1>3, <1>11, <2>1
  <2>3. line' = Times(current_row', pr') + tmr' + 1
    BY <1>1, <1>3, <1>4, <1>5
  <2>4. tmr' < pr' /\ pr' = Down(request)'
    BY <1>1, <1>3, <1>4, <1>11
  <2>5. QED
    BY <1>1, <1>3, <1>10, <2>2, <2>3, <2>4 DEF Counting
<1>13. Resting'
  <2>1. SUFFICES ASSUME done PROVE Resting'
    BY <1>2 DEF Resting
  <2>2. row' = current_row' /\ img_ready' /\ frame' \in Nat
    BY <1>1, <1>2, <1>3, <1>11, <2>1
  <2>3. QED
    BY <1>10, <2>2 DEF Resting
<1>14. Waiting'
  BY <1>1, <1>3 DEF Waiting
<1>15. CameraTypes'
  BY <1>1, <1>2, <1>3, <1>11 DEF CameraInv, CameraTypes
<1>16. QED
  BY <1>3, <1>11, <1>12, <1>13, <1>14, <1>15 DEF CameraInv

(* A line is left out, or comes when none is counted. *)
LEMMA LineLeftOut ==
  ASSUME CameraInv, V!Hsync, UNCHANGED <<ton, current_row, buffer, img_ready>>,
         \/ ton /\ tmr + 1 # pr /\ tmr' = tmr + 1
         \/ ~ton /\ tmr' = tmr,
         PromptVsync
  PROVE  CameraInv'
<1>1. /\ request # None /\ ~vsync /\ line' = line + 1
      /\ UNCHANGED <<pr, ic, vsync, synced, frame>> /\ UNCHANGED V!settings
  BY DEF V!Hsync
<1>2. /\ request' = request /\ row' = row /\ Programmed(request) /\ Programmed(request)'
      /\ Down(request)' = Down(request)
  BY <1>1, SettingsKept DEF CameraInv
<1>3. CameraTypes'
  BY <1>1, <1>2 DEF CameraInv, CameraTypes
<1>4. Resting'
  BY <1>1, ImageKept
<1>5. Waiting'
  BY <1>1, <1>2 DEF CameraInv, Waiting
<1>6. Counting'
  <2> SUFFICES ASSUME ton PROVE Counting'
    BY DEF Counting
  <2>1. /\ ~ic /\ ~vsync /\ synced /\ ~img_ready /\ pr = Down(request) /\ tmr < pr
        /\ current_row < row /\ line = Times(current_row, pr) + tmr + 1
        /\ Rows(buffer, request, current_row, frame)
        /\ current_row \in Nat /\ tmr \in Nat
    BY DEF CameraInv, CameraTypes, Counting
  <2>2. tmr' = tmr + 1 /\ tmr + 1 # pr
    OBVIOUS
  <2>3. Down(request) \in Nat
    BY <1>2, ScaleOf DEF Programmed
  <2>4. Times(current_row, pr) \in Nat
    BY <2>1, <2>3, TimesIs
  <2>5. tmr' < pr' /\ line' = Times(current_row', pr') + tmr' + 1
    BY <1>1, <2>1, <2>2, <2>3, <2>4
  <2>6. Rows(buffer', request', current_row', frame')
    BY <1>1, <1>2, <2>1
  <2>7. QED
    BY <1>1, <1>2, <2>1, <2>5, <2>6 DEF Counting
<1>7. QED
  BY <1>1, <1>2, <1>3, <1>4, <1>5, <1>6 DEF CameraInv

LEMMA CameraStep ==
  ASSUME PromptVsync, CameraInv, V!CameraNext \/ UNCHANGED camera
  PROVE  CameraInv'
<1>1. CASE V!Hsync
  <2>1. CASE ton /\ tmr + 1 = pr /\ V!T4Interrupt
    BY <1>1, <2>1, RowTaken
  <2>2. CASE \/ ton /\ tmr + 1 # pr /\ tmr' = tmr + 1 /\ UNCHANGED <<ton, V!capture>>
             \/ ~ton /\ UNCHANGED <<tmr, ton, V!capture>>
    <3>1. UNCHANGED <<ton, current_row, buffer, img_ready>>
      BY <2>2 DEF V!capture
    <3>2. QED
      BY <1>1, <2>2, <3>1, LineLeftOut
  <2>3. QED
    BY <1>1, <2>1, <2>2 DEF V!Hsync
<1>2. CASE UNCHANGED camera
  <2>1. UNCHANGED V!settings
    BY <1>2 DEF camera, V!settings
  <2>2. /\ request' = request /\ row' = row /\ Down(request)' = Down(request)
        /\ Programmed(request) => Programmed(request)'
    BY <2>1, SettingsKept
  <2>3. /\ UNCHANGED <<ic, vsync, ton, buffer, img_ready>>
        /\ UNCHANGED <<line, tmr, pr, current_row, frame, synced>>
    BY <1>2 DEF camera
  <2>4. Resting'
    BY <2>1, <2>3, ImageKept
  <2>5. Rows(buffer, request, current_row, frame) => Rows(buffer', request', current_row', frame')
    BY <2>2, <2>3
  <2>6. QED
    BY <2>2, <2>3, <2>4, <2>5 DEF CameraInv, CameraTypes, Waiting, Counting
<1>3. QED
  BY <1>1, <1>2, WindowAsked, CaptureLaunched, VsyncRises, FrameEnds, CountingBegins
     DEF V!CameraNext

LEMMA CameraShare == [Next]_vars => V!CameraNext \/ UNCHANGED camera
BY DEF Next, vars

(* When the VSYNC interrupt is served before the next line, the image is    *)
(* the window asked for, whatever the window, the zoom and the bytes of a   *)
(* pixel: the scales of the sensor, of the timer and of the table multiply  *)
(* to the zoom, and the phases of the first line and column are made up for *)
(* (calc.c:58-186, timers.c:58-132, interrupt.s).                           *)
THEOREM WindowCaptured ==
  ASSUME PromptVsync
  PROVE  Spec => []CaptureTrue
<1>1. CameraInv => CaptureTrue
  <2> SUFFICES ASSUME CameraInv PROVE V!CaptureTrue
    BY DEF CaptureTrue
  <2>1. row \in Nat
    BY DEF CameraInv, CameraTypes
  <2>2. CASE buffer = << >>
    BY <2>1, <2>2 DEF V!CaptureTrue
  <2>3. CASE buffer # << >>
    <3>1. request # None /\ Programmed(request) /\ ~ (ic \/ vsync)
      BY <2>3 DEF CameraInv, Waiting
    <3>2. row = request.h \div request.zoom_h
      BY <3>1 DEF Programmed, LinesOf
    <3>3. CASE ton
      <4>1. ~img_ready /\ Len(buffer) < row /\ Len(buffer) \in Nat
        BY <3>3 DEF CameraInv, CameraTypes, Counting, Rows
      <4>2. QED
        BY <2>1, <4>1 DEF V!CaptureTrue
    <3>4. CASE ~ton
      <4>1. PICK f \in Nat : Rows(buffer, request, row, f)
        BY <2>3, <3>1, <3>4 DEF CameraInv, Resting
      <4>2. Len(buffer) = row
        BY <4>1 DEF Rows
      <4>3. ASSUME NEW k \in 1 .. Len(buffer)
            PROVE  /\ buffer[k].frame = buffer[1].frame
                   /\ (buffer[k].y - OriginY - request.y) \div request.zoom_h = k - 1
                   /\ Len(buffer[k].x) = request.bpp * (request.w \div request.zoom_w)
                   /\ \A i \in 1 .. Len(buffer[k].x) :
                        buffer[k].x[i] =
                          OriginX + request.x + request.zoom_w * ((i - 1) \div request.bpp)
        <5>1. 1 \in 1 .. Len(buffer)
          BY <2>1, <4>2
        <5>2. RowTrue(request, buffer[k], k) /\ buffer[k].frame = f /\ buffer[1].frame = f
          BY <4>1, <4>2, <5>1 DEF Rows
        <5>3. ColumnTrue(request, buffer[k].x, request.bpp * Columns(request))
          BY <5>2 DEF RowTrue
        <5>4. QED
          BY <5>2, <5>3 DEF RowTrue, ColumnTrue, Columns
      <4>4. QED
        BY <2>1, <3>2, <4>2, <4>3 DEF V!CaptureTrue
    <3>5. QED
      BY <3>3, <3>4
  <2>4. QED
    BY <2>2, <2>3
<1>2. Init => CameraInv
  BY CameraInitInv
<1>3. CameraInv /\ [Next]_vars => CameraInv'
  BY CameraShare, CameraStep
<1>4. QED
  BY <1>1, <1>2, <1>3, PTL DEF Spec
=============================================================================
