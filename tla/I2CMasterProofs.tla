-------------------------- MODULE I2CMasterProofs --------------------------
(***************************************************************************)
(* Theorems about I2CMaster for every set of requests and every buffer.    *)
(*                                                                         *)
(* The first holds whatever the priority of the timer interrupt.  The      *)
(* others are about the main program and the result callback as the only   *)
(* callers, and requests of at least one byte: for an empty one the state  *)
(* machine addresses the device for reading and stops before it reads.     *)
(***************************************************************************)
EXTENDS I2CMaster, FiniteSetTheorems, TLAPS

(* The interrupt has taken an operation's completion and not yet started   *)
(* the next operation or freed the master.                                 *)
Handling == isr \in {"op", "reset"} \/ (isr = "apply" /\ nextOp # "quit")

(* Why the interrupt finds its pointer set: the master stays claimed while *)
(* an operation is under way, completed or handled, and these exclude one  *)
(* another, so that a reset leaves no completion behind.  After the reset  *)
(* the interrupt only reports and returns, whatever a restart has begun.   *)
OwnInv ==
  /\ hw # "none" \/ mi2cif \/ Handling => busy
  /\ hw # "none" => ~mi2cif
  /\ Handling => hw = "none" /\ ~mi2cif
  /\ isr \in {"reset", "report", "callback"} => nextOp = "quit"

-----------------------------------------------------------------------------
LEMMA OwnInit == Init => OwnInv
BY DEF Init, OwnInv, Handling

(* Operations complete only while one is under way. *)
LEMMA BusKeepsOwn == OwnInv /\ Bus => OwnInv'
BY DEF OwnInv, Handling, Bus, BusStart, BusAddress, BusWrite, BusRead, BusAck, BusStop,
       Complete, masterVars, isrVars

(* A caller starts the hardware only where the master is free. *)
LEMMA TransfertKeepsOwn ==
  ASSUME NEW who \in Caller, OwnInv, Transfert(who)
  PROVE  OwnInv'
<1>1. CASE Ask(who)
  BY <1>1 DEF OwnInv, Handling, Ask, masterVars, wireVars, isrVars
<1>2. CASE CheckIdle(who)
  BY <1>2 DEF OwnInv, Handling, CheckIdle, masterVars, wireVars, isrVars
<1>3. CASE Fill(who)
  <2>1. UNCHANGED <<masterVars, wireVars, isrVars>>
    BY <1>3, Zenon DEF Fill
  <2>2. QED
    BY <2>1 DEF OwnInv, Handling, masterVars, wireVars, isrVars
<1>4. CASE StartOperations(who)
  <2>1. ~busy /\ busy' /\ UNCHANGED <<mi2cif, isrVars>>
    BY <1>4, Zenon DEF StartOperations
  <2>2. QED
    BY <2>1 DEF OwnInv, Handling, isrVars
<1>5. CASE StartBusy(who)
  <2>1. UNCHANGED <<masterVars, wireVars, isrVars>>
    BY <1>5, Zenon DEF StartBusy
  <2>2. QED
    BY <2>1 DEF OwnInv, Handling, masterVars, wireVars, isrVars
<1>6. QED
  BY <1>1, <1>2, <1>3, <1>4, <1>5 DEF Transfert

(* Whatever the state machine answers, the interrupt still has the master. *)
LEMMA OpKeepsOwn ==
  ASSUME NEW s, NEW op, NEW s2, OwnInv, Op(s, op, s2)
  PROVE  OwnInv'
BY DEF OwnInv, Handling, Op, masterVars, wireVars

LEMMA TransfertOpKeepsOwn == OwnInv /\ TransfertOp => OwnInv'
<1> SUFFICES ASSUME OwnInv, TransfertOp PROVE OwnInv'
  OBVIOUS
<1>1. CASE OpInternalError
  BY <1>1 DEF OwnInv, Handling, OpInternalError, masterVars, wireVars
<1>2. CASE ~OpInternalError
  <2>1. \E s, op, s2 : Op(s, op, s2)
    BY <1>2 DEF TransfertOp, OpAddress, OpRefused, Give, OpWrite, OpFirstRead, OpRestart,
                OpNothingLeft, OpAck, OpNack, OpNextRead, OpStop, OpDone
  <2>2. QED
    BY <2>1, OpKeepsOwn
<1>3. QED
  BY <1>1, <1>2

LEMMA IsrKeepsOwn == OwnInv /\ Isr => OwnInv'
<1> SUFFICES ASSUME OwnInv, Isr PROVE OwnInv'
  OBVIOUS
<1>1. CASE IsrEnter
  BY <1>1 DEF OwnInv, Handling, IsrEnter, masterVars
<1>2. CASE TransfertOp
  BY <1>2, TransfertOpKeepsOwn
<1>3. CASE IsrReset
  BY <1>3 DEF OwnInv, Handling, IsrReset, wireVars
<1>4. CASE IsrReport
  BY <1>4 DEF OwnInv, Handling, IsrReport, masterVars, wireVars
<1>5. CASE IsrQuit
  BY <1>5 DEF OwnInv, Handling, IsrQuit, masterVars, wireVars
<1>6. CASE IsrApply
  BY <1>6 DEF OwnInv, Handling, IsrApply
<1>7. QED
  BY <1>1, <1>2, <1>3, <1>4, <1>5, <1>6 DEF Isr

LEMMA OwnStep == OwnInv /\ [Next]_vars => OwnInv'
<1> SUFFICES ASSUME OwnInv, [Next]_vars PROVE OwnInv'
  OBVIOUS
<1>1. CASE Bus
  BY <1>1, BusKeepsOwn
<1>2. CASE Isr
  BY <1>2, IsrKeepsOwn
<1>3. CASE Called
  BY <1>3, TransfertKeepsOwn DEF Called
<1>4. CASE Main
  <2>1. UNCHANGED <<masterVars, wireVars, isrVars>>
    BY <1>4, Zenon DEF Main, BlockEnds, BlockReturns, MainGoesOn
  <2>2. QED
    BY <2>1 DEF OwnInv, Handling, masterVars, wireVars, isrVars
<1>5. CASE CallbackAsks \/ MainAsks \/ TimerFires
  BY <1>5 DEF OwnInv, Handling, CallbackAsks, MainAsks, TimerFires, masterVars, wireVars,
              isrVars
<1>6. CASE CallbackEnds
  BY <1>6 DEF OwnInv, Handling, CallbackEnds, masterVars, wireVars
<1>7. CASE UNCHANGED vars
  BY <1>7 DEF OwnInv, Handling, vars, masterVars, wireVars, isrVars
<1>8. QED
  BY <1>1, <1>2, <1>3, <1>4, <1>5, <1>6, <1>7 DEF Next

(* The master interrupt never calls a null operation_completed_callback,   *)
(* whoever asks for transfers and when (master.c:215).                      *)
THEOREM InterruptAlwaysOwned == Spec => []InterruptOwned
<1>1. OwnInv => InterruptOwned
  BY DEF OwnInv, Handling, InterruptOwned
<1>2. QED
  BY <1>1, OwnInit, OwnStep, PTL DEF Spec

-----------------------------------------------------------------------------
(* What follows is about the main program and the result callback alone.   *)
(* An operation is asked for, then under way, then completed.              *)
Asked == isr = "apply" /\ nextOp # "quit"
UnderWay == hw # "none"
Coming == Asked \/ UnderWay
Completed == mi2cif \/ isr = "op"
Reporting == isr \in {"reset", "report"}

(* Which operation each state of i2c_master_transfert_op waits for, with   *)
(* which byte, and what the bus must be for it.                            *)
Awaits(op, byte) ==
  \/ state = "start_done" /\ op = "start" /\ bus = "free"
  \/ state = "start_done" /\ op = "restart" /\ bus = "writing"
  \/ state = "address_done" /\ op = "write" /\ byte = Address /\ bus = "address"
  \/ state = "write_in_progress" /\ op = "write" /\ byte = writePtr - 1 /\ bus = "writing"
  \/ state = "read_in_progress" /\ op = "read" /\ bus = "reading"
  \/ state = "ack_done" /\ op = "ack" /\ bus = "acking"
  \/ state = "nack_done" /\ op = "nack" /\ bus = "acking"
  \/ state = "stop_done" /\ op = "stop" /\ bus \in {"writing", "quiet"}

(* ... and what the bus is once it is completed. *)
Leaves ==
  \/ state = "start_done" /\ bus = "address"
  \/ state = "address_done"
     /\ bus = (IF ackstat THEN "quiet" ELSE IF forRead THEN "reading" ELSE "writing")
  \/ state = "write_in_progress" /\ bus = (IF ackstat THEN "quiet" ELSE "writing")
  \/ state = "read_in_progress" /\ bus = "acking"
  \/ state = "ack_done" /\ bus = "reading"
  \/ state = "nack_done" /\ bus = "quiet"
  \/ state = "stop_done" /\ bus = "free"

(* The operation asked for, under way or completed is the one its state    *)
(* awaits, and while the master is free the bus is too.                    *)
StepsInv ==
  /\ Asked => Awaits(nextOp, data)
  /\ UnderWay => Awaits(hw, trn)
  /\ Completed => Leaves
  /\ mi2cif => isr # "op"
  /\ UnderWay \/ mi2cif => (prevOp = "read" <=> state = "read_in_progress")
  /\ busy => Coming \/ Completed \/ isr = "reset"
  /\ isr = "reset" => bus = "free"
  /\ ~busy => bus = "free"

(* Who may start a transfer, and when. *)
Takes(c) == at[c] \in {"check", "fill", "start", "start_block"}
Started(c) == at[c] \in {"start", "start_block"}

(* A caller between the test of state and the start has the master for     *)
(* itself: the main program because no interrupt can start a transfer, the *)
(* callback because the interrupt that runs it has just reset the master.  *)
CallersInv ==
  /\ at["timer"] = "out"
  /\ at["callback"] \in {"out", "check", "fill", "start", "done"}
  /\ at["main"] \in {"out", "ask", "check", "fill", "start", "start_block", "wait", "return",
                    "check_result"}
  /\ at["callback"] # "out" => isr = "callback"
  /\ Takes("main") \/ at["main"] \in {"return", "check_result"} => isr = "off" /\ ~busy
  /\ Takes("callback") => ~busy
  /\ isr # "error"
  /\ ~busy => (state = IF Started("main") \/ Started("callback") THEN "start_done" ELSE "idle")
  /\ state = "idle" => ~busy \/ isr = "reset"
  /\ isr = "reset" => state = "idle"
  /\ job = Nobody <=> state = "idle" /\ ~Reporting
  /\ job # Nobody => job.who = "main"
  /\ callback # "timer"
  /\ at["main"] = "start_block" => callback = "null"
  /\ at["main"] = "wait" => callback = "null"
  /\ isr = "callback" => callback = "main"
  /\ isr = "report" \/ (isr = "callback" /\ at["callback"] = "out") => ~busy

(* What is left of the request, and what the device has. *)
InFlight == state = "read_in_progress" /\ isr # "op"
SizesInv ==
  job # Nobody =>
    /\ job.r <= Places
    /\ job.w = writePtr + writeSize /\ job.r = readPtr + readSize
    /\ state \in {"start_done", "address_done"} =>
         readPtr = 0 /\ (writeSize = 0 => readSize > 0) /\ Len(device) = writePtr
    /\ state = "address_done" => (forRead <=> writeSize = 0)
    /\ state = "write_in_progress" =>
         readPtr = 0 /\ writePtr > 0
         /\ Len(device) = (IF Coming \/ refused THEN writePtr - 1 ELSE writePtr)
    /\ state \in {"read_in_progress", "ack_done", "nack_done"} =>
         readPtr > 0 /\ writeSize = 0 /\ Len(device) = writePtr
    /\ state = "ack_done" => readSize > 0
    /\ state = "nack_done" => readSize = 0
    /\ state = "stop_done" \/ Reporting =>
         refused \/ (writeSize = 0 /\ readSize = 0 /\ Len(device) = writePtr)

(* The buffer holds the bytes read so far but the one in flight, which     *)
(* goes to the place it was asked for (prevData) at the next interrupt.    *)
Stored(k) == [i \in Index |-> IF i < k THEN i ELSE Empty]
DataInv ==
  /\ job # Nobody => buffer = Stored(IF InFlight THEN readPtr - 1 ELSE readPtr)
  /\ state = "read_in_progress" =>
       /\ Asked => data = readPtr - 1
       /\ UnderWay \/ mi2cif => prevData = readPtr - 1
       /\ served = IF Coming THEN readPtr - 1 ELSE readPtr
       /\ mi2cif => rcv = readPtr - 1
  /\ state \in {"ack_done", "nack_done"} => served = readPtr
  /\ state = "address_done" \/ (state = "start_done" /\ Completed) => served = 0

(* A refusal is the last thing that happens before the stop, and result is *)
(* what happened from the decision to stop until the caller looks at it.   *)
AnswerInv ==
  /\ state \in {"address_done", "write_in_progress"} /\ Completed => (refused <=> ackstat)
  /\ state = "nack_done" => result
  /\ state = "stop_done" \/ Reporting => (result <=> ~refused)
  /\ (state = "stop_done" /\ Completed) \/ Reporting => (outcome["main"] <=> ~refused)
  /\ refused /\ job # Nobody =>
       /\ readPtr = 0
       /\ \/ state \in {"address_done", "write_in_progress"} /\ Completed
          \/ state \in {"idle", "stop_done"}
  /\ (at["main"] = "wait" /\ ~busy) \/ at["main"] = "return" => (result <=> outcome["main"])
  /\ at["main"] = "check_result" => (returned <=> outcome["main"])

(* What the callback was told stays true while it starts another transfer. *)
ToldInv ==
  isr = "callback" =>
    /\ state \in {"idle", "start_done"}
    /\ told.to = "main" /\ (told.result <=> outcome["main"])

(* What the actions with a choice do, whatever they choose. *)
LEMMA FillDoes ==
  ASSUME TypeOK, NEW c \in {"main", "callback"}, Fill(c)
  PROVE  /\ Runs(c) /\ at[c] = "fill"
         /\ at'[c] \in {"start", "start_block"} /\ \A d \in Caller \ {c} : at'[d] = at[d]
         /\ at'[c] = "start_block" => c = "main" /\ callback' = "null"
         /\ at'[c] = "start" => callback' = "main"
         /\ callback' \in {"null", "main"}
         /\ state' = "start_done" /\ forRead' = FALSE /\ result' = TRUE
         /\ writePtr' = 0 /\ readPtr' = 0
         /\ [w |-> writeSize', r |-> readSize'] \in Requests
         /\ job' = [who |-> "main", w |-> writeSize', r |-> readSize']
         /\ device' = << >> /\ buffer' = [i \in Index |-> Empty] /\ refused' = FALSE
         /\ UNCHANGED <<masterVars, wireVars, isrVars, told, outcome, returned>>
<1>1. PICK q \in Requests, block \in BOOLEAN :
        /\ block => c = "main"
        /\ Step(c, "fill", IF block THEN "start_block" ELSE "start")
        /\ callback' = IF block THEN "null" ELSE Who(c)
        /\ writeSize' = q.w /\ readSize' = q.r
        /\ job' = [who |-> Who(c), w |-> q.w, r |-> q.r]
  BY Zenon DEF Fill
<1>2. /\ state' = "start_done" /\ forRead' = FALSE /\ result' = TRUE
      /\ writePtr' = 0 /\ readPtr' = 0
      /\ device' = << >> /\ buffer' = [i \in Index |-> Empty] /\ refused' = FALSE
      /\ UNCHANGED <<masterVars, wireVars, isrVars, told, outcome, returned>>
  BY Zenon DEF Fill
<1>3. Who(c) = "main"
  BY DEF Who
<1>4. q = [w |-> q.w, r |-> q.r]
  BY I2CAssumption
<1>5. /\ Runs(c) /\ at[c] = "fill"
      /\ at'[c] \in {"start", "start_block"} /\ \A d \in Caller \ {c} : at'[d] = at[d]
      /\ at'[c] = "start_block" => c = "main" /\ callback' = "null"
      /\ at'[c] = "start" => callback' = "main"
      /\ callback' \in {"null", "main"}
  BY <1>1, <1>3 DEF Step, TypeOK, Caller
<1>6. QED
  BY <1>1, <1>2, <1>3, <1>4, <1>5

LEMMA StartDoes ==
  ASSUME TypeOK, NEW c \in {"main", "callback"}, StartOperations(c)
  PROVE  /\ Runs(c) /\ ~busy /\ busy' = TRUE
         /\ at[c] \in {"start", "start_block"} /\ at'[c] \in {"wait", "out", "done"}
         /\ at'[c] = "wait" <=> at[c] = "start_block"
         /\ at'[c] = "done" => c = "callback"
         /\ at'[c] = "out" => c = "main"
         /\ \A d \in Caller \ {c} : at'[d] = at[d]
         /\ prevOp' = "none" /\ hw' = "start"
         /\ UNCHANGED <<protocolVars, prevData, trn, mi2cif, ackstat, rcv, bus, served,
                        isrVars, ghostVars, returned>>
<1>1. PICK block \in BOOLEAN :
        Step(c, IF block THEN "start_block" ELSE "start",
                IF block THEN "wait" ELSE IF c = "callback" THEN "done" ELSE "out")
  BY Zenon DEF StartOperations
<1>2. /\ ~busy /\ busy' = TRUE /\ prevOp' = "none" /\ hw' = "start"
      /\ UNCHANGED <<protocolVars, prevData, trn, mi2cif, ackstat, rcv, bus, served,
                     isrVars, ghostVars, returned>>
  BY Zenon DEF StartOperations
<1>3. QED
  BY <1>1, <1>2 DEF Step, TypeOK, Caller

LEMMA OpDoes ==
  ASSUME NEW s, NEW op, NEW s2, Op(s, op, s2)
  PROVE  /\ at["timer"] = "out" /\ isr = "op" /\ state = s /\ nextOp' = op /\ state' = s2
         /\ isr' = (IF op = "quit" THEN "reset" ELSE "apply")
         /\ UNCHANGED <<callback, masterVars, wireVars, at, ghostVars, returned>>
BY Zenon DEF Op, IsrRuns, TimerRuns

LEMMA OnlyTwo ==
  ASSUME CallersInv, NEW c \in Caller, Transfert(c)
  PROVE  c \in {"main", "callback"}
<1>1. ASSUME c = "timer" PROVE FALSE
  <2>1. at["timer"] # "out"
    BY <1>1, Zenon DEF Transfert, Ask, CheckIdle, Fill, StartOperations, StartBusy, Step, Runs,
                       TimerRuns
  <2>2. QED
    BY <2>1 DEF CallersInv
<1>2. QED
  BY <1>1 DEF Caller

LEMMA GiveDoes ==
  ASSUME OpRefused \/ OpNothingLeft
  PROVE  /\ state \in {"address_done", "write_in_progress"} /\ state' = "stop_done"
         /\ isr = "op" /\ isr' = "apply" /\ nextOp' = "stop"
         /\ OpRefused => ackstat /\ result' = FALSE
         /\ OpNothingLeft => ~ackstat /\ writeSize = 0 /\ readSize = 0 /\ result' = TRUE
         /\ ackstat <=> OpRefused
         /\ callback' = callback /\ forRead' = forRead /\ data' = data /\ writePtr' = writePtr
         /\ writeSize' = writeSize /\ readPtr' = readPtr /\ readSize' = readSize
         /\ busy' = busy /\ prevOp' = prevOp /\ prevData' = prevData /\ hw' = hw /\ trn' = trn
         /\ mi2cif' = mi2cif /\ ackstat' = ackstat /\ rcv' = rcv /\ bus' = bus
         /\ served' = served
         /\ at' = at /\ job' = job /\ device' = device /\ buffer' = buffer
         /\ refused' = refused /\ told' = told /\ outcome' = outcome /\ returned' = returned
<1>1. PICK s \in {"address_done", "write_in_progress"} : Give(FALSE, s) \/ Give(TRUE, s)
  BY DEF OpRefused, OpNothingLeft
<1>2. Op(s, "stop", "stop_done") /\ NoByte /\ UNCHANGED forRead
  BY <1>1 DEF Give
<1>3. OpRefused => ackstat /\ result' = FALSE
  BY DEF OpRefused, Give
<1>4. OpNothingLeft => ~ackstat /\ writeSize = 0 /\ readSize = 0 /\ result' = TRUE
  BY DEF OpNothingLeft, Give
<1>5. /\ state = s /\ state' = "stop_done" /\ isr = "op" /\ isr' = "apply" /\ nextOp' = "stop"
      /\ UNCHANGED <<callback, masterVars, wireVars, at, ghostVars, returned>>
  BY <1>2, Zenon DEF Op
<1>6. ackstat <=> OpRefused
  BY <1>3, <1>4
<1>7. UNCHANGED <<forRead, data, writePtr, writeSize, readPtr, readSize>>
  BY <1>2 DEF NoByte
<1>8. QED
  BY <1>3, <1>4, <1>5, <1>6, <1>7 DEF masterVars, wireVars, ghostVars

LEMMA WriteDoes ==
  ASSUME OpWrite
  PROVE  /\ state \in {"address_done", "write_in_progress"} /\ state' = "write_in_progress"
         /\ isr = "op" /\ isr' = "apply" /\ nextOp' = "write"
         /\ ~ackstat /\ writeSize > 0
         /\ data' = writePtr /\ writePtr' = writePtr + 1 /\ writeSize' = writeSize - 1
         /\ callback' = callback /\ forRead' = forRead /\ result' = result
         /\ readPtr' = readPtr /\ readSize' = readSize
         /\ busy' = busy /\ prevOp' = prevOp /\ prevData' = prevData /\ hw' = hw /\ trn' = trn
         /\ mi2cif' = mi2cif /\ ackstat' = ackstat /\ rcv' = rcv /\ bus' = bus
         /\ served' = served
         /\ at' = at /\ job' = job /\ device' = device /\ buffer' = buffer
         /\ refused' = refused /\ told' = told /\ outcome' = outcome /\ returned' = returned
<1>1. PICK s \in {"address_done", "write_in_progress"} : Op(s, "write", "write_in_progress")
  BY DEF OpWrite
<1>2. ~ackstat /\ writeSize > 0 /\ NextByteToWrite /\ UNCHANGED <<result, forRead>>
  BY DEF OpWrite
<1>3. /\ state = s /\ state' = "write_in_progress" /\ isr = "op" /\ isr' = "apply"
      /\ nextOp' = "write"
      /\ UNCHANGED <<callback, masterVars, wireVars, at, ghostVars, returned>>
  BY <1>1, Zenon DEF Op
<1>4. QED
  BY <1>1, <1>2, <1>3 DEF NextByteToWrite, masterVars, wireVars, ghostVars

LEMMA AddressDoes ==
  ASSUME BusAddress
  PROVE  /\ hw = "write" /\ trn = Address /\ hw' = "none" /\ mi2cif' = TRUE
         /\ ackstat' \in BOOLEAN /\ refused' = (refused \/ ackstat')
         /\ bus' = IF ackstat' THEN "quiet" ELSE IF forRead THEN "reading" ELSE "writing"
         /\ UNCHANGED <<protocolVars, masterVars, trn, rcv, served, at, isrVars, job, device,
                        buffer, told, outcome, returned>>
<1>1. PICK ack \in BOOLEAN :
        /\ ackstat' = ~ack
        /\ refused' = (refused \/ ~ack)
        /\ Complete(IF ~ack THEN "quiet" ELSE IF forRead THEN "reading" ELSE "writing")
  BY Zenon DEF BusAddress
<1>2. /\ hw = "write" /\ trn = Address
      /\ UNCHANGED <<protocolVars, masterVars, trn, rcv, served, at, isrVars, job, device,
                     buffer, told, outcome, returned>>
  BY Zenon DEF BusAddress
<1>3. QED
  BY <1>1, <1>2 DEF Complete

LEMMA ByteDoes ==
  ASSUME BusWrite
  PROVE  /\ hw = "write" /\ trn # Address /\ hw' = "none" /\ mi2cif' = TRUE
         /\ ackstat' \in BOOLEAN /\ refused' = (refused \/ ackstat')
         /\ device' = IF ackstat' THEN device ELSE Append(device, trn)
         /\ bus' = IF ackstat' THEN "quiet" ELSE "writing"
         /\ UNCHANGED <<protocolVars, masterVars, trn, rcv, served, at, isrVars, job, buffer,
                        told, outcome, returned>>
<1>1. PICK ack \in BOOLEAN :
        /\ ackstat' = ~ack
        /\ refused' = (refused \/ ~ack)
        /\ device' = IF ack THEN Append(device, trn) ELSE device
        /\ Complete(IF ack THEN "writing" ELSE "quiet")
  BY Zenon DEF BusWrite
<1>2. /\ hw = "write" /\ trn # Address
      /\ UNCHANGED <<protocolVars, masterVars, trn, rcv, served, at, isrVars, job, buffer,
                     told, outcome, returned>>
  BY Zenon DEF BusWrite
<1>3. QED
  BY <1>1, <1>2 DEF Complete

-----------------------------------------------------------------------------
(* What the interrupt finds when it asks the state machine. *)
Counts == writePtr \in Nat /\ writeSize \in Nat /\ readPtr \in Nat /\ readSize \in Nat
LEMMA CountsTyped == TypeOK => Counts
BY Zenon DEF TypeOK, Counts

(* A new request: the caller has the master, nothing is done yet. *)
LEMMA FillKeepsCallers ==
  ASSUME TypeOK, CallersInv, NEW c \in {"main", "callback"}, Fill(c)
  PROVE  CallersInv'
<1>1. /\ isr = "off" \/ isr = "callback"
      /\ isr = "off" => c = "main" /\ at["callback"] = "out"
      /\ isr = "callback" => c = "callback" /\ ~Takes("main") /\ at["main"] \notin {"return",
        "check_result"}
      /\ ~busy /\ Takes(c)
  BY FillDoes DEF Runs, MainRuns, IsrRuns, TimerRuns, CallersInv, Takes
<1>2. /\ state' = "start_done" /\ UNCHANGED <<isr, busy>>
  BY FillDoes DEF masterVars, isrVars
<1>9a. job' # Nobody /\ job'.who = "main"
  <2>1. job' = [who |-> "main", w |-> writeSize', r |-> readSize']
    BY FillDoes
  <2>2. QED
    BY <2>1 DEF Nobody
<1>3. /\ callback' \in {"null", "main"} /\ (at'[c] = "start" => callback' = "main")
      /\ at'[c] = "start_block" => c = "main" /\ callback' = "null"
  BY FillDoes
<1>4. at'[c] \in {"start", "start_block"} /\ \A d \in Caller \ {c} : at'[d] = at[d]
  BY FillDoes
<1>5. CASE c = "main"
  <2>1. isr' = "off" /\ at'["callback"] = "out" /\ at'["timer"] = at["timer"]
    BY <1>1, <1>2, <1>4, <1>5 DEF Caller, CallersInv
  <2>2. /\ isr' # "error" /\ ~Reporting' /\ isr' # "callback"  /\ ~busy'
        /\ at'["timer"] = "out" /\ at'["callback"] = "out" /\ at'["main"] \in {"start",
          "start_block"}
        /\ at'["main"] = "start_block" => callback' = "null"
    BY <1>1, <1>2, <1>3, <1>4, <1>5, <2>1 DEF CallersInv, Reporting
  <2>3. QED
    BY <1>2, <1>9a, <1>3, <2>1, <2>2 DEF CallersInv, Takes, Started, Reporting
<1>6. CASE c = "callback"
  <2>1. /\ isr' = "callback" /\ at'["main"] = at["main"] /\ at'["timer"] = at["timer"]
        /\ at'["callback"] = "start" /\ callback = "main"
    BY <1>1, <1>2, <1>3, <1>4, <1>6 DEF Caller, CallersInv
  <2>2. /\ ~Reporting' /\ ~busy' /\ at'["timer"] = "out" /\ ~Takes("main")'
        /\ callback' = "main"
        /\ at'["main"] \in {"out", "ask"}
    BY <1>1, <1>2, <1>3, <1>4, <1>6, <2>1 DEF CallersInv, Reporting, Takes
  <2>3. QED
    BY <1>2, <1>9a, <2>1, <2>2 DEF CallersInv, Takes, Started, Reporting
<1>7. QED
  BY <1>5, <1>6

LEMMA ZeroPlus == \A n \in Nat : 0 + n = n
OBVIOUS

LEMMA FillKeepsSizes ==
  ASSUME TypeOK, \A q \in Requests : q.w > 0 \/ q.r > 0, NEW c \in {"main", "callback"}, Fill(c)
  PROVE  SizesInv'
<1>1. /\ [w |-> writeSize', r |-> readSize'] \in Requests
      /\ job' = [who |-> "main", w |-> writeSize', r |-> readSize'] /\ device' = << >>
  BY FillDoes
<1>2. state' = "start_done" /\ writePtr' = 0 /\ readPtr' = 0
  BY FillDoes
<1>3. writeSize' \in Nat /\ readSize' \in Nat
  BY <1>1, I2CAssumption
<1>3a. readSize' <= Places /\ (writeSize' > 0 \/ readSize' > 0)
  BY <1>1, I2CAssumption
<1>4. isr' \in {"off", "callback"}
  BY FillDoes DEF isrVars, Runs, MainRuns, IsrRuns, TimerRuns
<1>5. Len(device') = 0 /\ job'.w = writeSize' /\ job'.r = readSize'
  BY <1>1
<1>6. /\ job'.r <= Places
      /\ job'.w = writePtr' + writeSize' /\ job'.r = readPtr' + readSize'
  <2>1. job'.r <= Places
    BY <1>3a, <1>5
  <2>2. 0 + writeSize' = writeSize' /\ 0 + readSize' = readSize'
    BY <1>3, ZeroPlus
  <2>3. job'.w = 0 + writeSize' /\ job'.r = 0 + readSize'
    BY <1>5, <2>2
  <2>4. QED
    BY <1>2, <2>1, <2>3, Zenon
<1>7. (writeSize' = 0 => readSize' > 0) /\ Len(device') = writePtr'
  BY <1>2, <1>3, <1>3a, <1>5
<1>8. ~Reporting'
  BY <1>4 DEF Reporting
<1>9. QED
  BY <1>2, <1>6, <1>7, <1>8 DEF SizesInv

LEMMA StoredNone == Stored(0) = [i \in Index |-> Empty]
BY I2CAssumption DEF Stored, Index

(* Storing byte k at place k is storing one byte more. *)
LEMMA StoreOne == \A k \in Index : [Stored(k) EXCEPT ![k] = k] = Stored(k + 1)
<1> SUFFICES ASSUME NEW k \in Index PROVE [Stored(k) EXCEPT ![k] = k] = Stored(k + 1)
  OBVIOUS
<1>1. \A i \in Index : i < k + 1 <=> i < k \/ i = k
  BY I2CAssumption DEF Index
<1>2. \A i \in Index : [Stored(k) EXCEPT ![k] = k][i] = Stored(k + 1)[i]
  BY <1>1, Zenon DEF Stored
<1>3. QED
  BY <1>2, Zenon DEF Stored

(* The interrupt stores the byte read before it asks for the next operation. *)
LEMMA EnterKeepsData ==
  ASSUME TypeOK, CallersInv, SizesInv, StepsInv, DataInv, OwnInv, IsrEnter
  PROVE  DataInv'
<1>1. /\ isr = "off" /\ mi2cif /\ isr' = "op" /\ ~mi2cif' /\ hw = "none"
      /\ buffer' = IF prevOp = "read" THEN [buffer EXCEPT ![prevData] = rcv] ELSE buffer
      /\ UNCHANGED <<state, readPtr, hw, served, job>>
  BY DEF IsrEnter, protocolVars, OwnInv
<1>2. job # Nobody => buffer' = Stored(readPtr)
  <2>1. CASE job # Nobody /\ state = "read_in_progress"
    <3>1. prevOp = "read" /\ prevData = readPtr - 1 /\ rcv = readPtr - 1 /\ InFlight
      BY <1>1, <2>1 DEF StepsInv, DataInv, InFlight, UnderWay
    <3>2. readPtr > 0 /\ readPtr \in Nat /\ readSize \in Nat /\ Places \in Nat
      BY <2>1, I2CAssumption DEF SizesInv, TypeOK
    <3>3. readPtr + readSize <= Places
      BY <2>1 DEF SizesInv
    <3>4. readPtr - 1 \in Index /\ (readPtr - 1) + 1 = readPtr
      BY <3>2, <3>3 DEF Index
    <3>5. buffer = Stored(readPtr - 1)
      BY <2>1, <3>1 DEF DataInv
    <3>6. buffer' = [Stored(readPtr - 1) EXCEPT ![readPtr - 1] = readPtr - 1]
      BY <1>1, <3>1, <3>5
    <3>7. QED
      BY <3>4, <3>6, StoreOne
  <2>2. CASE job # Nobody /\ state # "read_in_progress"
    BY <1>1, <2>2 DEF StepsInv, DataInv, InFlight, UnderWay
  <2>3. QED
    BY <2>1, <2>2
<1>3. QED
  BY <1>1, <1>2 DEF DataInv, StepsInv, InFlight, Asked, UnderWay, Coming, Completed

-----------------------------------------------------------------------------
(* Preservation, action by action.  The counts stay natural because a byte *)
(* is only taken where one is left, and places stay in the buffer because   *)
(* the counts add up to the request.                                        *)
LEMMA TypeStep ==
  ASSUME Timer = "none", TypeOK, OwnInv, StepsInv, CallersInv, SizesInv, DataInv, AnswerInv,
         Next
  PROVE  TypeOK'
<1> USE DEF TypeOK, State, Operation, Place
<1>1. CASE BusStart
  BY <1>1 DEF BusStart, Complete, protocolVars, masterVars, isrVars, ghostVars
<1>2. CASE BusAddress
  BY <1>2 DEF BusAddress, Complete, protocolVars, masterVars, isrVars, ghostVars
<1>3. CASE BusWrite
  BY <1>3 DEF BusWrite, Complete, protocolVars, masterVars, isrVars, ghostVars
<1>4. CASE BusRead
  BY <1>4 DEF BusRead, Complete, protocolVars, masterVars, isrVars, ghostVars
<1>5. CASE BusAck
  BY <1>5 DEF BusAck, Complete, protocolVars, masterVars, isrVars, ghostVars
<1>6. CASE BusStop
  <2>1. outcome' \in [Caller -> BOOLEAN]
    BY <1>6 DEF BusStop
  <2>2. QED
    BY <1>6, <2>1 DEF BusStop, Complete, protocolVars, masterVars, isrVars
<1>7. ASSUME NEW c \in {"main", "callback"}, Ask(c)
      PROVE  TypeOK'
  BY <1>7 DEF Ask, Step, Runs, MainRuns, TimerRuns, IsrRuns, Caller, protocolVars, masterVars,
         wireVars, isrVars, ghostVars
<1>8. ASSUME NEW c \in {"main", "callback"}, CheckIdle(c)
      PROVE  TypeOK'
  BY <1>8 DEF CheckIdle, Step, Runs, MainRuns, TimerRuns, IsrRuns, Caller, protocolVars,
         masterVars, wireVars, isrVars, ghostVars
<1>9. ASSUME NEW c \in {"main", "callback"}, StartBusy(c)
      PROVE  TypeOK'
  BY <1>9 DEF StartBusy, Step, Runs, MainRuns, TimerRuns, IsrRuns, Caller, protocolVars,
         masterVars, wireVars, isrVars, ghostVars
<1>10. ASSUME NEW c \in {"main", "callback"}, Fill(c)
      PROVE  TypeOK'
  <2>1. writeSize' \in Nat /\ readSize' \in Nat
    BY <1>10, FillDoes, I2CAssumption
  <2>2. job' = [who |-> "main", w |-> writeSize', r |-> readSize']
    BY <1>10, FillDoes
  <2>3. job' \in [who : {"main", "timer"}, w : Nat, r : Nat]
    BY <2>1, <2>2
  <2>4. at' \in [Caller -> Place]
    BY <1>10, Zenon DEF Fill, Step
  <2>5. buffer' \in [Index -> Nat \cup {Empty}]
    BY <1>10, FillDoes
  <2>6. /\ state' = "start_done" /\ forRead' = FALSE /\ result' = TRUE /\ refused' = FALSE
        /\ writePtr' = 0 /\ readPtr' = 0 /\ device' = << >>
        /\ callback' \in {"null", "main"}
        /\ UNCHANGED <<masterVars, wireVars, isrVars, told, outcome, returned>>
    BY <1>10, FillDoes, Zenon
  <2>7. /\ forRead' \in BOOLEAN /\ result' \in BOOLEAN /\ refused' \in BOOLEAN
        /\ writePtr' \in Nat /\ readPtr' \in Nat
    BY <2>6
  <2>7a. device' \in Seq(Nat)
    BY <2>6
  <2>8. state' = "start_done" /\ callback' \in {"null", "main"}
    BY <2>6
  <2>9. UNCHANGED <<masterVars, wireVars, isrVars, told, outcome, returned>>
    BY <2>6
  <2>10. QED
    BY <2>1, <2>3, <2>4, <2>5, <2>7, <2>7a, <2>8, <2>9
    DEF masterVars, wireVars, isrVars
<1>11. ASSUME NEW c \in {"main", "callback"}, StartOperations(c)
      PROVE  TypeOK'
  <2>1. at' \in [Caller -> Place]
    BY <1>11, Zenon DEF StartOperations, Step
  <2>2. /\ busy' \in BOOLEAN /\ prevOp' = "none" /\ hw' = "start"
        /\ UNCHANGED <<protocolVars, prevData, trn, mi2cif, ackstat, rcv, bus, served,
                       isrVars, ghostVars, returned>>
    BY <1>11, StartDoes
  <2>3. QED
    BY <2>1, <2>2 DEF protocolVars, isrVars, ghostVars
<1>12. CASE Called
  <2>1. PICK c \in Caller : Transfert(c)
    BY <1>12 DEF Called
  <2>2. c \in {"main", "callback"}
    BY <2>1, OnlyTwo
  <2>3. QED
    BY <2>1, <2>2, <1>7, <1>8, <1>9, <1>10, <1>11 DEF Transfert
<1>13. CASE OpAddress
  BY <1>13 DEF OpAddress, Op, IsrRuns, TimerRuns, masterVars, wireVars, ghostVars
<1>14. CASE OpFirstRead
  BY <1>14 DEF OpFirstRead, Op, IsrRuns, TimerRuns, masterVars, wireVars, ghostVars,
         NextByteToRead
<1>15. CASE OpRestart
  BY <1>15 DEF OpRestart, Op, IsrRuns, TimerRuns, masterVars, wireVars, ghostVars, NoByte
<1>16. CASE OpAck
  BY <1>16 DEF OpAck, Op, IsrRuns, TimerRuns, masterVars, wireVars, ghostVars, NoByte
<1>17. CASE OpNack
  BY <1>17 DEF OpNack, Op, IsrRuns, TimerRuns, masterVars, wireVars, ghostVars, NoByte
<1>18. CASE OpNextRead
  <2>1. readSize > 0 /\ readSize - 1 \in Nat
    BY <1>18 DEF OpNextRead, Op, SizesInv, CallersInv, Reporting, Nobody
  <2>2. QED
    BY <1>18, <2>1 DEF OpNextRead, Op, NextByteToRead, masterVars, wireVars, ghostVars
<1>19. CASE OpStop
  BY <1>19 DEF OpStop, Op, IsrRuns, TimerRuns, masterVars, wireVars, ghostVars, NoByte
<1>20. CASE OpDone
  BY <1>20 DEF OpDone, Op, IsrRuns, TimerRuns, masterVars, wireVars, ghostVars, NoByte
<1>21. CASE OpRefused
  BY <1>21, GiveDoes DEF masterVars, wireVars, ghostVars
<1>22. CASE OpWrite
  BY <1>22, WriteDoes DEF masterVars, wireVars, ghostVars
<1>23. CASE OpNothingLeft
  BY <1>23, GiveDoes DEF masterVars, wireVars, ghostVars
<1>24. CASE OpInternalError
  BY <1>24 DEF OpInternalError, IsrRuns, TimerRuns, protocolVars, masterVars, wireVars, isrVars,
         ghostVars
<1>25. CASE IsrEnter
  <2>1. buffer' \in [Index -> Nat \cup {Empty}]
    BY <1>25 DEF IsrEnter
  <2>2. /\ mi2cif' \in BOOLEAN /\ isr' = "op"
        /\ UNCHANGED <<protocolVars, masterVars, hw, trn, ackstat, rcv, bus, served, at, nextOp,
                       data, job, device, refused, told, outcome, returned>>
    BY <1>25 DEF IsrEnter
  <2>3. QED
    BY <2>1, <2>2 DEF protocolVars, masterVars
<1>26. CASE IsrReset
  <2>1. UNCHANGED <<protocolVars, prevOp, prevData, wireVars, at, ghostVars, nextOp, data,
        returned>>
    BY <1>26 DEF IsrReset
  <2>2. busy' \in BOOLEAN /\ isr' = "report"
    BY <1>26 DEF IsrReset
  <2>3. QED
    BY <2>1, <2>2 DEF protocolVars, wireVars, ghostVars
<1>27. CASE IsrReport
  BY <1>27 DEF IsrReport, IsrRuns, TimerRuns, protocolVars, masterVars, wireVars, isrVars,
         ghostVars
<1>28. CASE IsrQuit
  BY <1>28 DEF IsrQuit, IsrRuns, TimerRuns, protocolVars, masterVars, wireVars, isrVars,
         ghostVars
<1>29. CASE IsrApply
  <2>1. Awaits(nextOp, data)
    BY <1>29 DEF IsrApply, StepsInv, Asked
  <2>2. nextOp \in Operation
    BY <2>1 DEF Awaits
  <2>3. nextOp = "read" => data \in Index
    <3>1. SUFFICES ASSUME nextOp = "read" PROVE data \in Index
      OBVIOUS
    <3>2. state = "read_in_progress" /\ job # Nobody
      BY <2>1, <3>1 DEF Awaits, CallersInv
    <3>3. data = readPtr - 1
      BY <1>29, <3>2 DEF DataInv, Asked, IsrApply
    <3>4. readPtr > 0 /\ job.r <= Places /\ job.r = readPtr + readSize
      BY <3>2 DEF SizesInv
    <3>5. QED
      BY <3>3, <3>4, I2CAssumption DEF Index
  <2>4. QED
    BY <1>29, <2>2, <2>3 DEF IsrApply, protocolVars, ghostVars
<1>30. CASE MainAsks \/ BlockEnds \/ BlockReturns \/ MainGoesOn
           \/ TimerFires \/ CallbackAsks \/ CallbackEnds
  BY <1>30 DEF MainAsks, Step, Runs, MainRuns, TimerRuns, IsrRuns, Caller, protocolVars,
         masterVars, wireVars, isrVars, ghostVars, BlockEnds, BlockReturns, MainGoesOn,
         TimerFires, CallbackAsks, CallbackEnds
<1>31. QED
  BY <1>1, <1>2, <1>3, <1>4, <1>5, <1>6, <1>12, <1>13, <1>14, <1>15, <1>16, <1>17, <1>18,
     <1>19, <1>20, <1>21, <1>22, <1>23, <1>24, <1>25, <1>26, <1>27, <1>28, <1>29, <1>30
  DEF Next, Bus, Isr, TransfertOp, Main

(* The interrupt answers each state with the operation the bus can take.    *)
LEMMA StepsStep ==
  ASSUME Timer = "none", TypeOK, OwnInv, StepsInv, CallersInv, SizesInv, Next
  PROVE  StepsInv'
<1> USE DEF StepsInv, CallersInv, SizesInv, Address, Awaits, Leaves, Asked, UnderWay,
          Coming, Completed, Reporting, Takes, Started, OwnInv, Handling
<1>t. writePtr \in Nat
  BY DEF TypeOK
<1> USE <1>t
<1>1. CASE BusAddress
  BY <1>1, AddressDoes DEF protocolVars, masterVars, isrVars
<1>2. CASE BusWrite
  BY <1>2, ByteDoes DEF protocolVars, masterVars, isrVars
<1>3. CASE BusStart \/ BusRead \/ BusAck \/ BusStop
  BY <1>3 DEF BusStart, Complete, protocolVars, masterVars, isrVars, ghostVars, BusRead,
         BusAck, BusStop
<1>4. ASSUME NEW c \in {"main", "callback"}, Ask(c) \/ CheckIdle(c) \/ StartBusy(c)
      PROVE  StepsInv'
  <2>1. UNCHANGED <<protocolVars, masterVars, wireVars, isrVars, ghostVars>>
    BY <1>4, Zenon
       DEF Ask, CheckIdle, StartBusy, MainAsks, BlockEnds, BlockReturns, MainGoesOn,
         TimerFires, CallbackAsks
  <2>2. QED
    BY <2>1 DEF protocolVars, masterVars, wireVars, isrVars, ghostVars
<1>5. ASSUME NEW c \in {"main", "callback"}, Fill(c)
      PROVE  StepsInv'
  BY <1>5, FillDoes
     DEF Runs, MainRuns, IsrRuns, TimerRuns, protocolVars, masterVars, wireVars, isrVars,
       ghostVars, Caller
<1>6. ASSUME NEW c \in {"main", "callback"}, StartOperations(c)
      PROVE  StepsInv'
  BY <1>6, StartDoes
     DEF Runs, MainRuns, IsrRuns, TimerRuns, protocolVars, masterVars, wireVars, isrVars,
       ghostVars, Caller
<1>7. CASE Called
  <2>1. PICK c \in Caller : Transfert(c)
    BY <1>7 DEF Called
  <2>2. c \in {"main", "callback"}
    BY <2>1, OnlyTwo
  <2>3. QED
    BY <2>1, <2>2, <1>4, <1>5, <1>6 DEF Transfert
<1>8. CASE OpAddress \/ OpFirstRead \/ OpRestart \/ OpAck
           \/ OpNack \/ OpNextRead \/ OpStop \/ OpDone
  BY <1>8 DEF OpAddress, Op, IsrRuns, TimerRuns, masterVars, wireVars, ghostVars, OpFirstRead,
         NextByteToRead, OpRestart, NoByte, OpAck, OpNack, OpNextRead, OpStop, OpDone
<1>9. CASE OpRefused
  <2>1. bus \in {"writing", "quiet"} /\ hw = "none" /\ ~mi2cif
    BY <1>9, GiveDoes
  <2>2. bus' = bus /\ hw' = "none" /\ ~mi2cif' /\ busy' = busy /\ busy
    BY <1>9, <2>1, GiveDoes DEF masterVars, wireVars
  <2>3. QED
    BY <1>9, <2>1, <2>2, GiveDoes
<1>10. CASE OpWrite
  <2>1. bus = "writing" /\ hw = "none" /\ ~mi2cif
    BY <1>10, WriteDoes
  <2>2. bus' = "writing" /\ hw' = "none" /\ ~mi2cif' /\ busy' = busy /\ busy
    BY <1>10, <2>1, WriteDoes DEF masterVars, wireVars
  <2>3. QED
    BY <1>10, <2>2, WriteDoes
<1>11. CASE OpNothingLeft
  <2>1. bus \in {"writing", "quiet"} /\ hw = "none" /\ ~mi2cif
    BY <1>11, GiveDoes
  <2>2. bus' = bus /\ hw' = "none" /\ ~mi2cif' /\ busy' = busy /\ busy
    BY <1>11, <2>1, GiveDoes DEF masterVars, wireVars
  <2>3. QED
    BY <1>11, <2>1, <2>2, GiveDoes
<1>12. CASE OpInternalError \/ IsrEnter \/ IsrReset \/ IsrReport \/ IsrQuit \/ IsrApply
  BY <1>12 DEF OpInternalError, IsrRuns, TimerRuns, protocolVars, masterVars, wireVars, isrVars,
         ghostVars, IsrEnter, IsrReset, IsrReport, IsrQuit, IsrApply
<1>13. CASE MainAsks \/ BlockEnds \/ BlockReturns \/ MainGoesOn \/ TimerFires \/ CallbackAsks
  <2>1. UNCHANGED <<protocolVars, masterVars, wireVars, isrVars, ghostVars>>
    BY <1>13, Zenon
       DEF Ask, CheckIdle, StartBusy, MainAsks, BlockEnds, BlockReturns, MainGoesOn,
         TimerFires, CallbackAsks
  <2>2. QED
    BY <2>1 DEF protocolVars, masterVars, wireVars, isrVars, ghostVars
<1>14. CASE CallbackEnds
  BY <1>14 DEF CallbackEnds, Step, Runs, MainRuns, TimerRuns, IsrRuns, Caller, protocolVars,
         masterVars, wireVars, isrVars, ghostVars
<1>15. QED
  BY <1>1, <1>2, <1>3, <1>7, <1>8, <1>9, <1>10, <1>11, <1>12, <1>13, <1>14
  DEF Next, Bus, Isr, TransfertOp, Main

(* The callers claim the master one at a time.                              *)
LEMMA CallersStep ==
  ASSUME Timer = "none", TypeOK, OwnInv, StepsInv, CallersInv, SizesInv, Next
  PROVE  CallersInv'
<1> USE DEF StepsInv, CallersInv, Nobody, Awaits, Leaves, Asked, UnderWay, Coming,
          Completed, Reporting, Takes, Started, OwnInv, Handling
<1>t. at \in [Caller -> Place] /\ callback \in {"null", "main", "timer"}
  BY DEF TypeOK
<1> USE <1>t
<1>1. CASE BusStart \/ BusAddress \/ BusWrite \/ BusRead \/ BusAck \/ BusStop
  BY <1>1 DEF BusStart, Complete, protocolVars, masterVars, isrVars, ghostVars, BusAddress,
         BusWrite, BusRead, BusAck, BusStop
<1>2. ASSUME NEW c \in {"main", "callback"}, Ask(c)
      PROVE  CallersInv'
  BY <1>2 DEF Ask, Step, Runs, MainRuns, TimerRuns, IsrRuns, Caller, protocolVars, masterVars,
         wireVars, isrVars, ghostVars
<1>3. ASSUME NEW c \in {"main", "callback"}, CheckIdle(c)
      PROVE  CallersInv'
  BY <1>3 DEF CheckIdle, Step, Runs, MainRuns, TimerRuns, IsrRuns, Caller, protocolVars,
         masterVars, wireVars, isrVars, ghostVars
<1>4. ASSUME NEW c \in {"main", "callback"}, StartBusy(c)
      PROVE  CallersInv'
  BY <1>4 DEF StartBusy, Step, Runs, MainRuns, TimerRuns, IsrRuns, Caller, protocolVars,
         masterVars, wireVars, isrVars, ghostVars
<1>5. ASSUME NEW c \in {"main", "callback"}, Fill(c)
      PROVE  CallersInv'
  BY <1>5, FillKeepsCallers
<1>6. ASSUME NEW c \in {"main", "callback"}, StartOperations(c)
      PROVE  CallersInv'
  BY <1>6, StartDoes
     DEF Runs, MainRuns, IsrRuns, TimerRuns, protocolVars, masterVars, wireVars, isrVars,
       ghostVars, Caller
<1>7. CASE Called
  <2>1. PICK c \in Caller : Transfert(c)
    BY <1>7 DEF Called
  <2>2. c \in {"main", "callback"}
    BY <2>1, OnlyTwo
  <2>3. QED
    BY <2>1, <2>2, <1>2, <1>3, <1>4, <1>5, <1>6 DEF Transfert
<1>8. CASE OpAddress \/ OpFirstRead \/ OpRestart \/ OpAck
           \/ OpNack \/ OpNextRead \/ OpStop \/ OpDone
  BY <1>8 DEF OpAddress, Op, IsrRuns, TimerRuns, masterVars, wireVars, ghostVars, OpFirstRead,
         NextByteToRead, OpRestart, NoByte, OpAck, OpNack, OpNextRead, OpStop, OpDone
<1>9. CASE OpRefused
  BY <1>9, GiveDoes DEF masterVars, wireVars, ghostVars
<1>10. CASE OpWrite
  BY <1>10, WriteDoes DEF masterVars, wireVars, ghostVars
<1>11. CASE OpNothingLeft
  BY <1>11, GiveDoes DEF masterVars, wireVars, ghostVars
<1>12. CASE OpInternalError \/ IsrEnter \/ IsrReset \/ IsrReport \/ IsrQuit \/ IsrApply
  BY <1>12 DEF OpInternalError, IsrRuns, TimerRuns, protocolVars, masterVars, wireVars, isrVars,
         ghostVars, IsrEnter, IsrReset, IsrReport, IsrQuit, IsrApply
<1>13. CASE MainAsks \/ BlockEnds \/ BlockReturns \/ MainGoesOn
           \/ TimerFires \/ CallbackAsks \/ CallbackEnds
  BY <1>13 DEF MainAsks, Step, Runs, MainRuns, TimerRuns, IsrRuns, Caller, protocolVars,
         masterVars, wireVars, isrVars, ghostVars, BlockEnds, BlockReturns, MainGoesOn,
         TimerFires, CallbackAsks, CallbackEnds
<1>14. QED
  BY <1>1, <1>7, <1>8, <1>9, <1>10, <1>11, <1>12, <1>13
  DEF Next, Bus, Isr, TransfertOp, Main

(* What was done and what is left add up to the request.                    *)
LEMMA SizesStep ==
  ASSUME Timer = "none", \A q \in Requests : q.w > 0 \/ q.r > 0, TypeOK, OwnInv, StepsInv,
         CallersInv, SizesInv, DataInv, AnswerInv, Next
  PROVE  SizesInv'
<1> USE DEF StepsInv, CallersInv, SizesInv, AnswerInv, Nobody, Address, Awaits, Leaves,
          Asked, UnderWay, Coming, Completed, Reporting, Takes, Started, OwnInv, Handling
<1>t. writePtr \in Nat /\ writeSize \in Nat /\ readPtr \in Nat /\ readSize \in Nat
      /\ device \in Seq(Nat)
  BY DEF TypeOK
<1> USE <1>t
<1>1. CASE BusAddress
  BY <1>1, AddressDoes DEF protocolVars, masterVars, isrVars
<1>2. CASE BusWrite
  <2>1. /\ state = "write_in_progress" /\ trn = writePtr - 1 /\ job # Nobody /\ isr # "op"
        /\ ~refused /\ ~Asked /\ ~Reporting
    BY <1>2, ByteDoes
  <2>2. device' = device \/ device' = Append(device, trn)
    BY <1>2, ByteDoes
  <2>3. Len(device') = (IF refused' THEN writePtr - 1 ELSE writePtr)
    BY <1>2, <2>1, <2>2, ByteDoes
  <2>4. /\ UNCHANGED <<protocolVars, isrVars, job>> /\ mi2cif' /\ hw' = "none"
    BY <1>2, ByteDoes
  <2>5. QED
    BY <2>1, <2>3, <2>4 DEF protocolVars, isrVars
<1>3. CASE BusStart \/ BusRead \/ BusAck \/ BusStop
  BY <1>3 DEF BusStart, Complete, protocolVars, masterVars, isrVars, ghostVars, BusRead,
         BusAck, BusStop
<1>4. ASSUME NEW c \in {"main", "callback"}, Ask(c) \/ CheckIdle(c) \/ StartBusy(c)
      PROVE  SizesInv'
  <2>1. UNCHANGED <<protocolVars, masterVars, wireVars, isrVars, ghostVars>>
    BY <1>4, Zenon
       DEF Ask, CheckIdle, StartBusy, MainAsks, BlockEnds, BlockReturns, MainGoesOn,
         TimerFires, CallbackAsks
  <2>2. QED
    BY <2>1 DEF protocolVars, masterVars, wireVars, isrVars, ghostVars
<1>5. ASSUME NEW c \in {"main", "callback"}, Fill(c)
      PROVE  SizesInv'
  BY <1>5, FillKeepsSizes
<1>6. ASSUME NEW c \in {"main", "callback"}, StartOperations(c)
      PROVE  SizesInv'
  BY <1>6, StartDoes
     DEF Runs, MainRuns, IsrRuns, TimerRuns, protocolVars, masterVars, wireVars, isrVars,
       ghostVars, Caller
<1>7. CASE Called
  <2>1. PICK c \in Caller : Transfert(c)
    BY <1>7 DEF Called
  <2>2. c \in {"main", "callback"}
    BY <2>1, OnlyTwo
  <2>3. QED
    BY <2>1, <2>2, <1>4, <1>5, <1>6 DEF Transfert
<1>8. CASE OpAddress
  BY <1>8 DEF OpAddress, Op, IsrRuns, TimerRuns, masterVars, wireVars, ghostVars
<1>9. CASE OpFirstRead
  BY <1>9 DEF OpFirstRead, Op, IsrRuns, TimerRuns, masterVars, wireVars, ghostVars,
         NextByteToRead
<1>10. CASE OpRestart
  BY <1>10 DEF OpRestart, Op, IsrRuns, TimerRuns, masterVars, wireVars, ghostVars, NoByte
<1>11. CASE OpAck
  BY <1>11 DEF OpAck, Op, IsrRuns, TimerRuns, masterVars, wireVars, ghostVars, NoByte
<1>12. CASE OpNack
  BY <1>12 DEF OpNack, Op, IsrRuns, TimerRuns, masterVars, wireVars, ghostVars, NoByte
<1>13. CASE OpNextRead
  BY <1>13 DEF OpNextRead, Op, IsrRuns, TimerRuns, masterVars, wireVars, ghostVars,
         NextByteToRead
<1>14. CASE OpStop
  BY <1>14 DEF OpStop, Op, IsrRuns, TimerRuns, masterVars, wireVars, ghostVars, NoByte
<1>15. CASE OpDone
  BY <1>15 DEF OpDone, Op, IsrRuns, TimerRuns, masterVars, wireVars, ghostVars, NoByte
<1>16. CASE OpRefused
  BY <1>16, GiveDoes DEF masterVars, wireVars, ghostVars
<1>17. CASE OpWrite
  BY <1>17, WriteDoes DEF masterVars, wireVars, ghostVars
<1>18. CASE OpNothingLeft
  BY <1>18, GiveDoes DEF masterVars, wireVars, ghostVars
<1>19. CASE OpInternalError \/ IsrEnter \/ IsrReset \/ IsrReport \/ IsrQuit \/ IsrApply
  BY <1>19 DEF OpInternalError, IsrRuns, TimerRuns, protocolVars, masterVars, wireVars, isrVars,
         ghostVars, IsrEnter, IsrReset, IsrReport, IsrQuit, IsrApply
<1>20. CASE MainAsks \/ BlockEnds \/ BlockReturns \/ MainGoesOn \/ TimerFires \/ CallbackAsks
  <2>1. UNCHANGED <<protocolVars, masterVars, wireVars, isrVars, ghostVars>>
    BY <1>20, Zenon
       DEF Ask, CheckIdle, StartBusy, MainAsks, BlockEnds, BlockReturns, MainGoesOn,
         TimerFires, CallbackAsks
  <2>2. QED
    BY <2>1 DEF protocolVars, masterVars, wireVars, isrVars, ghostVars
<1>21. CASE CallbackEnds
  BY <1>21 DEF CallbackEnds, Step, Runs, MainRuns, TimerRuns, IsrRuns, Caller, protocolVars,
         masterVars, wireVars, isrVars, ghostVars
<1>22. QED
  BY <1>1, <1>2, <1>3, <1>7, <1>8, <1>9, <1>10, <1>11, <1>12, <1>13, <1>14, <1>15, <1>16,
     <1>17, <1>18, <1>19, <1>20, <1>21
  DEF Next, Bus, Isr, TransfertOp, Main

(* The bytes read are in the buffer, in order, once each.                   *)
LEMMA DataStep ==
  ASSUME Timer = "none", TypeOK, OwnInv, StepsInv, CallersInv, SizesInv, DataInv, AnswerInv,
         Next
  PROVE  DataInv'
<1> USE DEF StepsInv, CallersInv, SizesInv, DataInv, InFlight, Nobody, Awaits, Leaves,
          Asked, UnderWay, Coming, Completed, Reporting, Takes, Started, OwnInv, Handling
<1>t. writePtr \in Nat /\ writeSize \in Nat /\ readPtr \in Nat /\ readSize \in Nat
      /\ device \in Seq(Nat) /\ buffer \in [Index -> Nat \cup {Empty}]
  BY DEF TypeOK
<1> USE <1>t
<1>1. CASE BusStart \/ BusAddress \/ BusWrite \/ BusRead \/ BusAck \/ BusStop
  BY <1>1 DEF BusStart, Complete, protocolVars, masterVars, isrVars, ghostVars, BusAddress,
         BusWrite, BusRead, BusAck, BusStop
<1>2. ASSUME NEW c \in {"main", "callback"}, Ask(c) \/ CheckIdle(c) \/ StartBusy(c)
      PROVE  DataInv'
  <2>1. UNCHANGED <<protocolVars, masterVars, wireVars, isrVars, ghostVars>>
    BY <1>2, Zenon
       DEF Ask, CheckIdle, StartBusy, MainAsks, BlockEnds, BlockReturns, MainGoesOn,
         TimerFires, CallbackAsks
  <2>2. QED
    BY <2>1 DEF protocolVars, masterVars, wireVars, isrVars, ghostVars
<1>3. ASSUME NEW c \in {"main", "callback"}, Fill(c)
      PROVE  DataInv'
  BY <1>3, FillDoes, StoredNone DEF Runs, MainRuns, IsrRuns, TimerRuns, isrVars, wireVars
<1>4. ASSUME NEW c \in {"main", "callback"}, StartOperations(c)
      PROVE  DataInv'
  BY <1>4, StartDoes DEF isrVars, protocolVars, ghostVars
<1>5. CASE Called
  <2>1. PICK c \in Caller : Transfert(c)
    BY <1>5 DEF Called
  <2>2. c \in {"main", "callback"}
    BY <2>1, OnlyTwo
  <2>3. QED
    BY <2>1, <2>2, <1>2, <1>3, <1>4 DEF Transfert
<1>6. CASE OpAddress
  BY <1>6 DEF OpAddress, Op, IsrRuns, TimerRuns, masterVars, wireVars, ghostVars
<1>7. CASE OpFirstRead
  BY <1>7 DEF OpFirstRead, Op, IsrRuns, TimerRuns, masterVars, wireVars, ghostVars,
         NextByteToRead
<1>8. CASE OpRestart
  BY <1>8 DEF OpRestart, Op, IsrRuns, TimerRuns, masterVars, wireVars, ghostVars, NoByte
<1>9. CASE OpAck
  BY <1>9 DEF OpAck, Op, IsrRuns, TimerRuns, masterVars, wireVars, ghostVars, NoByte
<1>10. CASE OpNack
  BY <1>10 DEF OpNack, Op, IsrRuns, TimerRuns, masterVars, wireVars, ghostVars, NoByte
<1>11. CASE OpNextRead
  BY <1>11 DEF OpNextRead, Op, IsrRuns, TimerRuns, masterVars, wireVars, ghostVars,
         NextByteToRead
<1>12. CASE OpStop
  BY <1>12 DEF OpStop, Op, IsrRuns, TimerRuns, masterVars, wireVars, ghostVars, NoByte
<1>13. CASE OpDone
  BY <1>13 DEF OpDone, Op, IsrRuns, TimerRuns, masterVars, wireVars, ghostVars, NoByte
<1>14. CASE OpRefused
  BY <1>14, GiveDoes DEF masterVars, wireVars, ghostVars
<1>15. CASE OpWrite
  BY <1>15, WriteDoes DEF masterVars, wireVars, ghostVars
<1>16. CASE OpNothingLeft
  BY <1>16, GiveDoes DEF masterVars, wireVars, ghostVars
<1>17. CASE IsrEnter
  BY <1>17, EnterKeepsData
<1>18. CASE OpInternalError \/ IsrReset \/ IsrReport \/ IsrQuit \/ IsrApply
  BY <1>18 DEF OpInternalError, IsrRuns, TimerRuns, protocolVars, masterVars, wireVars, isrVars,
         ghostVars, IsrReset, IsrReport, IsrQuit, IsrApply
<1>19. CASE MainAsks \/ BlockEnds \/ BlockReturns \/ MainGoesOn \/ TimerFires \/ CallbackAsks
  <2>1. UNCHANGED <<protocolVars, masterVars, wireVars, isrVars, ghostVars>>
    BY <1>19, Zenon
       DEF Ask, CheckIdle, StartBusy, MainAsks, BlockEnds, BlockReturns, MainGoesOn,
         TimerFires, CallbackAsks
  <2>2. QED
    BY <2>1 DEF protocolVars, masterVars, wireVars, isrVars, ghostVars
<1>20. CASE CallbackEnds
  BY <1>20 DEF CallbackEnds, Step, Runs, MainRuns, TimerRuns, IsrRuns, Caller, protocolVars,
         masterVars, wireVars, isrVars, ghostVars
<1>21. QED
  BY <1>1, <1>5, <1>6, <1>7, <1>8, <1>9, <1>10, <1>11, <1>12, <1>13, <1>14, <1>15, <1>16,
     <1>17, <1>18, <1>19, <1>20
  DEF Next, Bus, Isr, TransfertOp, Main

(* What is reported is what happened on the bus.                            *)
LEMMA AnswerStep ==
  ASSUME Timer = "none", TypeOK, OwnInv, StepsInv, CallersInv, SizesInv, DataInv, AnswerInv,
         Next
  PROVE  AnswerInv'
<1> USE DEF StepsInv, CallersInv, SizesInv, AnswerInv, Nobody, Address, Awaits, Leaves,
          Asked, UnderWay, Coming, Completed, Reporting, Takes, Started, OwnInv, Handling
<1>t. readPtr \in Nat /\ readSize \in Nat /\ outcome \in [Caller -> BOOLEAN]
      /\ refused \in BOOLEAN /\ result \in BOOLEAN /\ ackstat \in BOOLEAN
  BY DEF TypeOK
<1> USE <1>t
<1>1. CASE BusStop
  <2>1. job.who = "main" /\ state = "stop_done" /\ isr # "op"
    BY <1>1 DEF BusStop
  <2>2. outcome'["main"] = ~refused
    BY <1>1, <2>1 DEF BusStop, Caller
  <2>3. QED
    BY <1>1, <2>1, <2>2 DEF BusStop, Complete, protocolVars, masterVars, isrVars
<1>2. CASE BusStart \/ BusAddress \/ BusWrite \/ BusRead \/ BusAck
  BY <1>2 DEF BusStart, Complete, protocolVars, masterVars, isrVars, ghostVars, BusAddress,
         BusWrite, BusRead, BusAck
<1>3. ASSUME NEW c \in {"main", "callback"}, Ask(c)
      PROVE  AnswerInv'
  BY <1>3 DEF Ask, Step, Runs, MainRuns, TimerRuns, IsrRuns, Caller, protocolVars, masterVars,
         wireVars, isrVars, ghostVars
<1>4. ASSUME NEW c \in {"main", "callback"}, CheckIdle(c)
      PROVE  AnswerInv'
  BY <1>4 DEF CheckIdle, Step, Runs, MainRuns, TimerRuns, IsrRuns, Caller, protocolVars,
         masterVars, wireVars, isrVars, ghostVars
<1>5. ASSUME NEW c \in {"main", "callback"}, StartBusy(c)
      PROVE  AnswerInv'
  BY <1>5 DEF StartBusy, Step, Runs, MainRuns, TimerRuns, IsrRuns, Caller, protocolVars,
         masterVars, wireVars, isrVars, ghostVars
<1>6. ASSUME NEW c \in {"main", "callback"}, Fill(c)
      PROVE  AnswerInv'
  BY <1>6, FillDoes
     DEF Runs, MainRuns, IsrRuns, TimerRuns, protocolVars, masterVars, wireVars, isrVars,
       ghostVars, Caller
<1>7. ASSUME NEW c \in {"main", "callback"}, StartOperations(c)
      PROVE  AnswerInv'
  BY <1>7, StartDoes
     DEF Runs, MainRuns, IsrRuns, TimerRuns, protocolVars, masterVars, wireVars, isrVars,
       ghostVars, Caller
<1>8. CASE Called
  <2>1. PICK c \in Caller : Transfert(c)
    BY <1>8 DEF Called
  <2>2. c \in {"main", "callback"}
    BY <2>1, OnlyTwo
  <2>3. QED
    BY <2>1, <2>2, <1>3, <1>4, <1>5, <1>6, <1>7 DEF Transfert
<1>9. CASE OpAddress \/ OpFirstRead \/ OpRestart \/ OpAck
           \/ OpNack \/ OpNextRead \/ OpStop \/ OpDone
  BY <1>9 DEF OpAddress, Op, IsrRuns, TimerRuns, masterVars, wireVars, ghostVars, OpFirstRead,
         NextByteToRead, OpRestart, NoByte, OpAck, OpNack, OpNextRead, OpStop, OpDone
<1>10. CASE OpRefused
  BY <1>10, GiveDoes DEF masterVars, wireVars, ghostVars
<1>11. CASE OpWrite
  BY <1>11, WriteDoes DEF masterVars, wireVars, ghostVars
<1>12. CASE OpNothingLeft
  BY <1>12, GiveDoes DEF masterVars, wireVars, ghostVars
<1>13. CASE OpInternalError \/ IsrEnter \/ IsrReset \/ IsrReport \/ IsrQuit \/ IsrApply
  BY <1>13 DEF OpInternalError, IsrRuns, TimerRuns, protocolVars, masterVars, wireVars, isrVars,
         ghostVars, IsrEnter, IsrReset, IsrReport, IsrQuit, IsrApply
<1>14. CASE MainAsks
  BY <1>14 DEF MainAsks, Step, Runs, MainRuns, TimerRuns, IsrRuns, Caller, protocolVars,
         masterVars, wireVars, isrVars, ghostVars
<1>15. CASE BlockEnds
  BY <1>15 DEF BlockEnds, Step, Runs, MainRuns, TimerRuns, IsrRuns, Caller, protocolVars,
         masterVars, wireVars, isrVars, ghostVars
<1>16. CASE BlockReturns
  BY <1>16 DEF BlockReturns, Step, Runs, MainRuns, TimerRuns, IsrRuns, Caller, protocolVars,
         masterVars, wireVars, isrVars, ghostVars
<1>17. CASE MainGoesOn
  BY <1>17 DEF MainGoesOn, Step, Runs, MainRuns, TimerRuns, IsrRuns, Caller, protocolVars,
         masterVars, wireVars, isrVars, ghostVars
<1>18. CASE TimerFires
  BY <1>18 DEF TimerFires, Step, Runs, MainRuns, TimerRuns, IsrRuns, Caller, protocolVars,
         masterVars, wireVars, isrVars, ghostVars
<1>19. CASE CallbackAsks
  BY <1>19 DEF CallbackAsks, Step, Runs, MainRuns, TimerRuns, IsrRuns, Caller, protocolVars,
         masterVars, wireVars, isrVars, ghostVars
<1>20. CASE CallbackEnds
  BY <1>20 DEF CallbackEnds, Step, Runs, MainRuns, TimerRuns, IsrRuns, Caller, protocolVars,
         masterVars, wireVars, isrVars, ghostVars
<1>21. QED
  BY <1>1, <1>2, <1>8, <1>9, <1>10, <1>11, <1>12, <1>13, <1>14, <1>15, <1>16, <1>17, <1>18,
     <1>19, <1>20
  DEF Next, Bus, Isr, TransfertOp, Main

(* A restart by the callback does not change what the callback was told.    *)
LEMMA ToldStep ==
  ASSUME Timer = "none", TypeOK, OwnInv, StepsInv, CallersInv, SizesInv, DataInv, AnswerInv,
         ToldInv, Next
  PROVE  ToldInv'
<1> USE DEF StepsInv, CallersInv, AnswerInv, ToldInv, Awaits, Leaves, Asked, UnderWay,
          Coming, Completed, Reporting, Takes, Started, OwnInv, Handling
<1>t. callback \in {"null", "main", "timer"} /\ told \in [to : {"nobody", "null", "main",
      "timer"}, result : BOOLEAN] /\ outcome \in [Caller -> BOOLEAN]
  BY DEF TypeOK
<1> USE <1>t
<1>1. CASE BusStart \/ BusAddress \/ BusWrite \/ BusRead \/ BusAck \/ BusStop
  BY <1>1 DEF BusStart, Complete, protocolVars, masterVars, isrVars, ghostVars, BusAddress,
         BusWrite, BusRead, BusAck, BusStop
<1>2. ASSUME NEW c \in {"main", "callback"}, Ask(c) \/ CheckIdle(c) \/ StartBusy(c)
      PROVE  ToldInv'
  BY <1>2 DEF Ask, Step, Runs, MainRuns, TimerRuns, IsrRuns, Caller, protocolVars, masterVars,
         wireVars, isrVars, ghostVars, CheckIdle, StartBusy
<1>3. ASSUME NEW c \in {"main", "callback"}, Fill(c)
      PROVE  ToldInv'
  BY <1>3, FillDoes
     DEF Runs, MainRuns, IsrRuns, TimerRuns, protocolVars, masterVars, wireVars, isrVars,
       ghostVars, Caller
<1>4. ASSUME NEW c \in {"main", "callback"}, StartOperations(c)
      PROVE  ToldInv'
  BY <1>4, StartDoes
     DEF Runs, MainRuns, IsrRuns, TimerRuns, protocolVars, masterVars, wireVars, isrVars,
       ghostVars, Caller
<1>5. CASE Called
  <2>1. PICK c \in Caller : Transfert(c)
    BY <1>5 DEF Called
  <2>2. c \in {"main", "callback"}
    BY <2>1, OnlyTwo
  <2>3. QED
    BY <2>1, <2>2, <1>2, <1>3, <1>4 DEF Transfert
<1>6. CASE OpAddress \/ OpFirstRead \/ OpRestart \/ OpAck
           \/ OpNack \/ OpNextRead \/ OpStop \/ OpDone
  BY <1>6 DEF OpAddress, Op, IsrRuns, TimerRuns, masterVars, wireVars, ghostVars, OpFirstRead,
         NextByteToRead, OpRestart, NoByte, OpAck, OpNack, OpNextRead, OpStop, OpDone
<1>7. CASE OpRefused
  BY <1>7, GiveDoes DEF masterVars, wireVars, ghostVars
<1>8. CASE OpWrite
  BY <1>8, WriteDoes DEF masterVars, wireVars, ghostVars
<1>9. CASE OpNothingLeft
  BY <1>9, GiveDoes DEF masterVars, wireVars, ghostVars
<1>10. CASE IsrReport
  <2>1. state = "idle" /\ (result <=> outcome["main"])
    BY <1>10 DEF IsrReport
  <2>2. isr' = "callback" => callback = "main"
    BY <1>10 DEF IsrReport
  <2>3. told' = [to |-> callback, result |-> result]
    BY <1>10 DEF IsrReport
  <2>4. state' = state /\ outcome' = outcome
    BY <1>10 DEF IsrReport, protocolVars
  <2>5. told'.to = callback /\ (told'.result <=> result)
    BY <2>3
  <2>6. QED
    BY <2>1, <2>2, <2>4, <2>5
<1>11. CASE OpInternalError \/ IsrEnter \/ IsrReset \/ IsrQuit \/ IsrApply
  BY <1>11 DEF OpInternalError, IsrRuns, TimerRuns, protocolVars, masterVars, wireVars, isrVars,
         ghostVars, IsrEnter, IsrReset, IsrQuit, IsrApply
<1>12. CASE MainAsks \/ BlockEnds \/ BlockReturns \/ MainGoesOn
           \/ TimerFires \/ CallbackAsks \/ CallbackEnds
  BY <1>12 DEF MainAsks, Step, Runs, MainRuns, TimerRuns, IsrRuns, Caller, protocolVars,
         masterVars, wireVars, isrVars, ghostVars, BlockEnds, BlockReturns, MainGoesOn,
         TimerFires, CallbackAsks, CallbackEnds
<1>13. QED
  BY <1>1, <1>5, <1>6, <1>7, <1>8, <1>9, <1>10, <1>11, <1>12
  DEF Next, Bus, Isr, TransfertOp, Main
-----------------------------------------------------------------------------
TransferInv ==
  /\ TypeOK /\ OwnInv /\ StepsInv /\ CallersInv /\ SizesInv /\ DataInv /\ AnswerInv
  /\ ToldInv

LEMMA TransferInit == Timer = "none" /\ Init => TransferInv
<1> SUFFICES ASSUME Timer = "none", Init PROVE TransferInv
  OBVIOUS
<1>1. TypeOK
  <2>1. at \in [Caller -> Place] /\ outcome \in [Caller -> BOOLEAN]
    BY DEF Init, Place
  <2>2. buffer \in [Index -> Nat \cup {Empty}] /\ told \in [to : {"nobody", "null", "main",
        "timer"}, result : BOOLEAN]
    BY DEF Init
  <2>3. prevData \in Index
    BY I2CAssumption DEF Init, Index
  <2>4. QED
    BY <2>1, <2>2, <2>3 DEF Init, TypeOK, State
<1>2. CallersInv
  BY DEF Init, CallersInv, Caller, Takes, Started, Reporting
<1>3. OwnInv /\ StepsInv /\ ToldInv
  BY DEF Init, OwnInv, Handling, StepsInv, Asked, UnderWay, Coming, Completed, ToldInv
<1>4. SizesInv /\ DataInv /\ AnswerInv
  BY DEF Init, SizesInv, DataInv, AnswerInv, Completed, Reporting, Caller
<1>5. QED
  BY <1>1, <1>2, <1>3, <1>4 DEF TransferInv

LEMMA TransferStutters == TransferInv /\ UNCHANGED vars => TransferInv'
<1> SUFFICES ASSUME TransferInv, UNCHANGED vars PROVE TransferInv'
  OBVIOUS
<1> USE DEF TransferInv, vars, protocolVars, masterVars, wireVars, isrVars, ghostVars
<1>1. TypeOK'
  BY DEF TypeOK
<1>2. OwnInv' /\ ToldInv'
  BY DEF OwnInv, Handling, ToldInv
<1>3. StepsInv'
  BY DEF StepsInv, Awaits, Leaves, Asked, UnderWay, Coming, Completed
<1>4. CallersInv'
  BY DEF CallersInv, Takes, Started, Reporting
<1>5. SizesInv'
  BY DEF SizesInv, Reporting, Coming, Asked, UnderWay
<1>6. DataInv'
  BY DEF DataInv, InFlight, Coming, Asked, UnderWay, Completed
<1>7. AnswerInv'
  BY DEF AnswerInv, Completed, Reporting
<1>8. QED
  BY <1>1, <1>2, <1>3, <1>4, <1>5, <1>6, <1>7

LEMMA TransferStep ==
  ASSUME Timer = "none", \A q \in Requests : q.w > 0 \/ q.r > 0
  PROVE  TransferInv /\ [Next]_vars => TransferInv'
<1>1. ASSUME TransferInv, Next PROVE TransferInv'
  <2>1. TypeOK' /\ OwnInv' /\ StepsInv' /\ CallersInv'
    BY <1>1, TypeStep, OwnStep, StepsStep, CallersStep DEF TransferInv
  <2>2. SizesInv' /\ DataInv' /\ AnswerInv' /\ ToldInv'
    BY <1>1, SizesStep, DataStep, AnswerStep, ToldStep DEF TransferInv
  <2>3. QED
    BY <2>1, <2>2 DEF TransferInv
<1>2. QED
  BY <1>1, TransferStutters

(* No count of bytes left is decremented at 0 and no byte is stored outside *)
(* the caller's buffer, however many bytes the requests ask for.            *)
THEOREM MasterTypeCorrect ==
  ASSUME Timer = "none", \A q \in Requests : q.w > 0 \/ q.r > 0
  PROVE  Spec => []TypeOK
<1>1. TransferInv => TypeOK
  BY DEF TransferInv
<1>2. QED
  BY <1>1, TransferInit, TransferStep, PTL DEF Spec

(* Every operation the state machine asks for is one the bus can take then. *)
THEOREM BusAlwaysLegal ==
  ASSUME Timer = "none", \A q \in Requests : q.w > 0 \/ q.r > 0
  PROVE  Spec => []BusLegal
<1>1. TransferInv => BusLegal
  <2> SUFFICES ASSUME TransferInv, hw # "none" PROVE BusLegal
    BY DEF BusLegal
  <2>1. Awaits(hw, trn)
    BY DEF TransferInv, StepsInv, UnderWay
  <2>2. state = "write_in_progress" => writePtr > 0 /\ writePtr \in Nat
    BY DEF TransferInv, SizesInv, CallersInv, TypeOK
  <2>3. hw = "write" => bus = IF trn = Address THEN "address" ELSE "writing"
    BY <2>1, <2>2 DEF Awaits, Address
  <2>4. /\ hw = "start" => bus = "free"
        /\ hw = "read" => bus = "reading"
        /\ hw \in {"ack", "nack"} => bus = "acking"
        /\ hw \in {"restart", "stop"} => bus \in {"writing", "quiet"}
        /\ hw \in Operation
    BY <2>1 DEF Awaits, Operation
  <2>5. QED
    BY <2>3, <2>4 DEF BusLegal, Operation
<1>2. QED
  BY <1>1, TransferInit, TransferStep, PTL DEF Spec

(* i2c_master_transfert_block returns how its own transfer ended.           *)
THEOREM BlockTellsTheTruth ==
  ASSUME Timer = "none", \A q \in Requests : q.w > 0 \/ q.r > 0
  PROVE  Spec => []BlockTruth
<1>1. TransferInv => BlockTruth
  <2>1. TransferInv => returned \in BOOLEAN /\ outcome["main"] \in BOOLEAN
    BY DEF TransferInv, TypeOK, Caller
  <2>2. QED
    BY <2>1 DEF TransferInv, AnswerInv, BlockTruth
<1>2. QED
  BY <1>1, TransferInit, TransferStep, PTL DEF Spec

(* Without an interrupt that preempts it, the result callback is told how   *)
(* the transfer of its caller ended.                                        *)
THEOREM CallbackToldTheTruth ==
  ASSUME Timer = "none", \A q \in Requests : q.w > 0 \/ q.r > 0
  PROVE  Spec => []CallbackTruth
<1>1. TransferInv => CallbackTruth
  BY DEF TransferInv, ToldInv, TypeOK, CallbackTruth, Caller
<1>2. QED
  BY <1>1, TransferInit, TransferStep, PTL DEF Spec

-----------------------------------------------------------------------------
(* The transfers as I2CTransfer sees them. *)
Request == [w |-> job.w, r |-> job.r]
Bytes   == [i \in 1 .. Filled |-> buffer[i - 1]]
Prefix(k) == [i \in 1 .. k |-> i - 1]

LEMMA StoredCount == \A k \in 0 .. Places : Cardinality({i \in Index : Stored(k)[i] # Empty}) = k
<1> SUFFICES ASSUME NEW k \in 0 .. Places
             PROVE  Cardinality({i \in Index : Stored(k)[i] # Empty}) = k
  OBVIOUS
<1>1. {i \in Index : Stored(k)[i] # Empty} = 0 .. k - 1
  BY I2CAssumption DEF Stored, Index, Empty
<1>2. Cardinality(0 .. k - 1) = k
  BY FS_Interval, I2CAssumption
<1>3. QED
  BY <1>1, <1>2

LEMMA StoredBytes == \A k \in 0 .. Places : [i \in 1 .. k |-> Stored(k)[i - 1]] = Prefix(k)
BY I2CAssumption DEF Stored, Index, Prefix

(* As many places are filled as bytes are stored. *)
LEMMA BytesAre ==
  ASSUME NEW k \in 0 .. Places, buffer = Stored(k)
  PROVE  Bytes = Prefix(k)
<1>1. Filled = k
  BY StoredCount DEF Filled
<1>2. QED
  BY <1>1, StoredBytes DEF Bytes

LEMMA BytesWillBe ==
  ASSUME NEW k \in 0 .. Places, buffer' = Stored(k)
  PROVE  Bytes' = Prefix(k)
<1>1. Filled' = k
  BY StoredCount DEF Filled
<1>2. QED
  BY <1>1, StoredBytes DEF Bytes

LEMMA PrefixGrows == \A k \in Nat : Prefix(k + 1) = Append(Prefix(k), Len(Prefix(k)))
  /\ Len(Prefix(k)) = k
BY DEF Prefix

(* Every step but these five is invisible to I2CTransfer. *)
LEMMA OtherStepsHidden ==
  ASSUME TransferInv, Next, ~BusAddress, ~BusWrite, ~IsrEnter, ~IsrReport,
         \A c \in Caller : ~Fill(c)
  PROVE  UNCHANGED <<job, device, buffer, refused, told>>
<1>1. CASE Bus
  BY <1>1 DEF Bus, BusStart, BusRead, BusAck, BusStop, ghostVars
<1>2. CASE Isr
  <2>1. CASE TransfertOp
    <3>1. UNCHANGED ghostVars
      BY <2>1, Zenon
         DEF TransfertOp, OpAddress, OpRefused, Give, OpWrite, OpFirstRead, OpRestart,
                  OpNothingLeft, OpAck, OpNack, OpNextRead, OpStop, OpDone, OpInternalError, Op
    <3>2. QED
      BY <3>1 DEF ghostVars
  <2>2. CASE IsrReset \/ IsrQuit \/ IsrApply
    BY <2>2 DEF IsrReset, IsrQuit, IsrApply, ghostVars
  <2>3. QED
    BY <1>2, <2>1, <2>2 DEF Isr
<1>3. CASE Called
  <2>1. PICK c \in Caller : Transfert(c)
    BY <1>3 DEF Called
  <2>2. UNCHANGED ghostVars
    BY <2>1, Zenon DEF Transfert, Ask, CheckIdle, StartOperations, StartBusy
  <2>3. QED
    BY <2>2 DEF ghostVars
<1>4. CASE Main \/ CallbackAsks \/ CallbackEnds \/ MainAsks \/ TimerFires
  BY <1>4 DEF Main, BlockEnds, BlockReturns, MainGoesOn, CallbackAsks, CallbackEnds, MainAsks,
              TimerFires, ghostVars
<1>5. QED
  BY <1>1, <1>2, <1>3, <1>4 DEF Next

(* Each visible step is a step of I2CTransfer. *)
LEMMA FillBegins ==
  ASSUME TransferInv, NEW c \in {"main", "callback"}, Fill(c)
  PROVE  Transfer!Begin
<1>1. job = Nobody
  <2>1. Takes(c) /\ at[c] = "fill" /\ isr \in {"off", "callback"}
    BY FillDoes DEF Takes, Runs, MainRuns, IsrRuns, TimerRuns, TransferInv
  <2>2. ~busy /\ ~Started("main") /\ ~Started("callback") /\ ~Reporting
    BY <2>1 DEF TransferInv, CallersInv, Takes, Started, Reporting
  <2>3. QED
    BY <2>2 DEF TransferInv, CallersInv
<1>2. Request = Transfer!NoJob
  BY <1>1 DEF Request, Nobody, Transfer!NoJob
<1>3. Request' \in Requests /\ device' = << >> /\ refused' = FALSE /\ told' = told
  <2>1. /\ [w |-> writeSize', r |-> readSize'] \in Requests
        /\ job' = [who |-> "main", w |-> writeSize', r |-> readSize']
        /\ device' = << >> /\ refused' = FALSE /\ told' = told
    BY FillDoes DEF TransferInv
  <2>2. Request' = [w |-> writeSize', r |-> readSize']
    BY <2>1 DEF Request
  <2>3. QED
    BY <2>1, <2>2, Zenon
<1>4. Bytes' = << >>
  <2>1. buffer' = Stored(0)
    BY FillDoes, StoredNone DEF TransferInv
  <2>2. Bytes' = Prefix(0)
    BY <2>1, BytesWillBe, I2CAssumption
  <2>3. QED
    BY <2>2 DEF Prefix
<1>5. QED
  BY <1>2, <1>3, <1>4 DEF Transfer!Begin, Request, Bytes

LEMMA WriteWritesOrRefuses ==
  ASSUME TransferInv, BusWrite
  PROVE  Transfer!Write \/ Transfer!Refuse
<1>1. /\ state = "write_in_progress" /\ trn = writePtr - 1 /\ job # Nobody /\ ~refused
      /\ Coming /\ ~Completed
  BY ByteDoes DEF TransferInv, StepsInv, UnderWay, Coming, Awaits, CallersInv, AnswerInv,
     Completed, OwnInv, Handling
<1>2. job.w = writePtr + writeSize /\ readPtr = 0 /\ Len(device) = writePtr - 1
  BY <1>1 DEF TransferInv, SizesInv
<1>3. writePtr \in Nat /\ writeSize \in Nat
  BY DEF TransferInv, TypeOK
<1>4. Request # Transfer!NoJob /\ trn = Len(device) /\ Len(device) < Request.w
  BY <1>1, <1>2, <1>3 DEF Request, Transfer!NoJob
<1>5. Bytes = << >>
  <2>1. buffer = Stored(0)
    BY <1>1, <1>2 DEF TransferInv, DataInv, InFlight
  <2>2. Bytes = Prefix(0)
    BY <2>1, BytesAre, I2CAssumption
  <2>3. QED
    BY <2>2 DEF Prefix
<1>6. UNCHANGED <<Request, Bytes, told>>
  BY ByteDoes DEF Request, Bytes, Filled
<1>7. CASE ackstat'
  <2>1. refused' = TRUE /\ device' = device
    BY <1>7, ByteDoes
  <2>2. QED
    BY <1>1, <1>4, <1>5, <1>6, <2>1
    DEF Transfer!Refuse, Transfer!Serving, Request, Bytes
<1>8. CASE ~ackstat'
  <2>1. refused' = refused /\ device' = Append(device, Len(device))
    BY <1>1, <1>4, <1>8, ByteDoes DEF TransferInv, TypeOK
  <2>2. QED
    BY <1>1, <1>4, <1>6, <2>1
    DEF Transfer!Write, Transfer!Serving, Request, Bytes
<1>9. QED
  BY <1>7, <1>8

LEMMA AddressRefusesOrHidden ==
  ASSUME TransferInv, BusAddress
  PROVE  Transfer!Refuse \/ UNCHANGED <<job, device, buffer, refused, told>>
<1>1. /\ state = "address_done" /\ job # Nobody /\ ~refused
  <2>1. state = "write_in_progress" => writePtr > 0 /\ writePtr \in Nat
    BY DEF TransferInv, SizesInv, CallersInv, TypeOK
  <2>2. QED
    BY <2>1, AddressDoes
       DEF TransferInv, StepsInv, UnderWay, Awaits, CallersInv, AnswerInv, Completed, OwnInv,
         Handling, Address
<1>2. readPtr = 0 /\ job.w \in Nat
  BY <1>1 DEF TransferInv, SizesInv, TypeOK
<1>3. Request # Transfer!NoJob
  BY <1>1, <1>2 DEF Request, Transfer!NoJob
<1>4. Bytes = << >>
  <2>1. buffer = Stored(0)
    BY <1>1, <1>2 DEF TransferInv, DataInv, InFlight
  <2>2. Bytes = Prefix(0)
    BY <2>1, BytesAre, I2CAssumption
  <2>3. QED
    BY <2>2 DEF Prefix
<1>5. UNCHANGED <<job, device, buffer, told>>
  BY AddressDoes
<1>6. CASE ackstat'
  <2>1. refused' = TRUE
    BY <1>6, AddressDoes
  <2>2. UNCHANGED <<Request, Bytes>>
    BY <1>5 DEF Request, Bytes, Filled
  <2>3. QED
    BY <1>1, <1>3, <1>4, <1>5, <2>1, <2>2
    DEF Transfer!Refuse, Transfer!Serving, Request, Bytes
<1>7. CASE ~ackstat'
  BY <1>5, <1>7, AddressDoes DEF TransferInv, TypeOK
<1>8. QED
  BY <1>6, <1>7

LEMMA EnterReadsOrHidden ==
  ASSUME TransferInv, IsrEnter
  PROVE  Transfer!Read \/ UNCHANGED <<job, device, buffer, refused, told>>
<1>1. UNCHANGED <<job, device, refused, told, state, readPtr>> /\ mi2cif /\ isr = "off"
      /\ isr' = "op"
  BY DEF IsrEnter, protocolVars
<1>2. CASE prevOp # "read"
  BY <1>1, <1>2 DEF IsrEnter
<1>3. CASE prevOp = "read"
  <2>1. state = "read_in_progress" /\ job # Nobody /\ InFlight
    BY <1>1, <1>3 DEF TransferInv, StepsInv, CallersInv, InFlight
  <2>2. /\ readPtr > 0 /\ writeSize = 0 /\ Len(device) = writePtr
        /\ job.w = writePtr + writeSize /\ job.r = readPtr + readSize /\ job.r <= Places
    BY <2>1 DEF TransferInv, SizesInv
  <2>3. writePtr \in Nat /\ writeSize \in Nat /\ readPtr \in Nat /\ readSize \in Nat
    BY DEF TransferInv, TypeOK
  <2>4. ~refused
    <3>1. readPtr # 0
      BY <2>2, <2>3
    <3>2. QED
      BY <2>1, <3>1 DEF TransferInv, AnswerInv
  <2>5. Bytes = Prefix(readPtr - 1)
    <3>1. buffer = Stored(readPtr - 1)
      BY <2>1 DEF TransferInv, DataInv
    <3>2. readPtr - 1 \in 0 .. Places
      BY <2>2, <2>3, I2CAssumption
    <3>3. QED
      BY <3>1, <3>2, BytesAre
  <2>6. Bytes' = Prefix(readPtr)
    <3>1. DataInv' /\ ~InFlight' /\ job' # Nobody
      BY <1>1, <2>1, EnterKeepsData DEF TransferInv, InFlight
    <3>2. buffer' = Stored(readPtr)
      BY <1>1, <3>1 DEF DataInv
    <3>3. readPtr \in 0 .. Places
      BY <2>2, <2>3, I2CAssumption
    <3>4. QED
      BY <3>2, <3>3, BytesWillBe
  <2>7. Len(Bytes) = readPtr - 1 /\ Bytes' = Append(Bytes, Len(Bytes))
    <3>1. readPtr - 1 \in Nat /\ (readPtr - 1) + 1 = readPtr
      BY <2>2, <2>3
    <3>2. QED
      BY <2>5, <2>6, <3>1, PrefixGrows
  <2>8. Request.w = writePtr /\ readPtr - 1 < Request.r
    BY <2>2, <2>3 DEF Request
  <2>9. Request # Transfer!NoJob /\ Request' = Request
    BY <1>1, <2>3, <2>8 DEF Request, Transfer!NoJob
  <2>10. Len(device) = Request.w /\ Len(Bytes) < Request.r
    BY <2>2, <2>7, <2>8
  <2>11. QED
    BY <1>1, <2>4, <2>7, <2>9, <2>10 DEF Transfer!Read, Transfer!Serving, Request, Bytes
<1>4. QED
  BY <1>2, <1>3

LEMMA ReportReports ==
  ASSUME TransferInv, IsrReport
  PROVE  Transfer!Report
<1>1. isr = "report" /\ UNCHANGED <<device, buffer, refused>>
  BY DEF IsrReport
<1>2. ~busy /\ job # Nobody /\ (result <=> ~refused)
  BY <1>1 DEF TransferInv, CallersInv, AnswerInv, Reporting
<1>3. job' = Nobody /\ told' = [to |-> callback, result |-> result]
  BY <1>2 DEF IsrReport
<1>4. refused \/ (writeSize = 0 /\ readSize = 0 /\ Len(device) = writePtr)
  BY <1>1, <1>2 DEF TransferInv, SizesInv, Reporting
<1>5. /\ job.w = writePtr + writeSize /\ job.r = readPtr + readSize /\ job.r <= Places
      /\ writePtr \in Nat /\ writeSize \in Nat /\ readPtr \in Nat /\ readSize \in Nat
  BY <1>2 DEF TransferInv, SizesInv, TypeOK
<1>6. Len(Bytes) = readPtr
  <2>1. buffer = Stored(readPtr)
    BY <1>1, <1>2 DEF TransferInv, CallersInv, DataInv, InFlight, StepsInv
  <2>2. readPtr \in 0 .. Places
    BY <1>5, I2CAssumption
  <2>3. QED
    BY <2>1, <2>2, BytesAre, PrefixGrows
<1>7. refused \/ (Len(device) = Request.w /\ Len(Bytes) = Request.r)
  BY <1>4, <1>5, <1>6 DEF Request
<1>8. Request # Transfer!NoJob
  BY <1>5 DEF Request, Transfer!NoJob
<1>9. Request' = Transfer!NoJob
  BY <1>3 DEF Request, Nobody, Transfer!NoJob
<1>10. told'.result = ~refused
  BY <1>2, <1>3 DEF TransferInv, TypeOK
<1>11. Bytes' = Bytes
  BY <1>1 DEF Bytes, Filled
<1>12. QED
  BY <1>1, <1>7, <1>8, <1>9, <1>10, <1>11 DEF Transfer!Report, Request, Bytes

LEMMA HiddenStutters ==
  UNCHANGED <<job, device, buffer, refused, told>> => UNCHANGED Transfer!transferVars
BY DEF Transfer!transferVars, Filled

(* All callers together see one transfer at a time: the device accepts the  *)
(* bytes to write once, in order and before any is read, the bytes read are *)
(* stored once and in order, and success is reported exactly when nothing   *)
(* was refused and all was transferred (I2CTransfer).                        *)
THEOREM MasterTransfers ==
  ASSUME Timer = "none", \A q \in Requests : q.w > 0 \/ q.r > 0
  PROVE  Spec => Transfers
<1>1. Init => Transfer!Init
  <2> SUFFICES ASSUME Init PROVE Transfer!Init
    OBVIOUS
  <2>1. Request = Transfer!NoJob
    BY DEF Init, Request, Nobody, Transfer!NoJob
  <2>2. Bytes = << >>
    <3>1. buffer = Stored(0)
      BY StoredNone DEF Init
    <3>2. Bytes = Prefix(0)
      BY <3>1, BytesAre, I2CAssumption
    <3>3. QED
      BY <3>2 DEF Prefix
  <2>3. device = << >> /\ refused = FALSE /\ told.result = FALSE
    BY DEF Init
  <2>4. QED
    BY <2>1, <2>2, <2>3 DEF Transfer!Init, Request, Bytes
<1>2. ASSUME TransferInv, [Next]_vars PROVE [Transfer!Next]_(Transfer!transferVars)
  <2>1. CASE UNCHANGED vars
    <3>1. UNCHANGED <<job, device, buffer, refused, told>>
      BY <2>1 DEF vars, ghostVars
    <3>2. QED
      BY <3>1, HiddenStutters
  <2>2. ASSUME NEW c \in Caller, Fill(c) PROVE Transfer!Next
    <3>1. Fill(c) => Transfert(c)
      BY DEF Transfert
    <3>2. c \in {"main", "callback"}
      BY <2>2, <3>1, <1>2, OnlyTwo DEF TransferInv
    <3>3. QED
      BY <2>2, <3>2, <1>2, FillBegins DEF Transfer!Next
  <2>3. CASE BusAddress \/ BusWrite
    BY <1>2, <2>3, AddressRefusesOrHidden, WriteWritesOrRefuses, HiddenStutters
       DEF Transfer!Next
  <2>4. CASE IsrEnter \/ IsrReport
    BY <1>2, <2>4, EnterReadsOrHidden, ReportReports, HiddenStutters DEF Transfer!Next
  <2>5. CASE /\ Next /\ ~BusAddress /\ ~BusWrite /\ ~IsrEnter /\ ~IsrReport
             /\ \A c \in Caller : ~Fill(c)
    BY <1>2, <2>5, OtherStepsHidden, HiddenStutters
  <2>6. QED
    BY <1>2, <2>1, <2>2, <2>3, <2>4, <2>5
<1>3. QED
  BY <1>1, <1>2, TransferInit, TransferStep, PTL DEF Spec, Transfers, Transfer!Spec
=============================================================================
