----------------------------- MODULE I2CMaster -----------------------------
(***************************************************************************)
(* The I2C master: i2c_master_transfert_async / _block with their state    *)
(* machine i2c_master_transfert_op, the low-level layer under it           *)
(* (i2c_master_start_operations, i2c_master_reset and the master           *)
(* interrupt), the bus operations of the hardware and the device.          *)
(*                                                                         *)
(* Three callers ask for transfers: the main program (blocking or not),    *)
(* the result callback, which the code lets restart a transfer, and, if    *)
(* Timer # "none", a timer interrupt that asks i2c_master_is_busy first.   *)
(* It has the priority of the I2C interrupt ("same": the two do not        *)
(* preempt one another) or a higher one ("higher").                        *)
(***************************************************************************)
EXTENDS Integers, Sequences, FiniteSets

CONSTANTS
  Requests,  \* the transfers asked for: [w |-> write_count, r |-> read_count]
  Places,    \* the size of the callers' buffers
  Timer      \* "none", "same" or "higher"

ASSUME I2CAssumption ==
  /\ Requests \subseteq [w : Nat, r : Nat]
  /\ Places \in Nat \ {0} /\ \A q \in Requests : q.r <= Places
  /\ Timer \in {"none", "same", "higher"}

VARIABLES
  (* I2C_master_transfert_datas[i2c_id] *)
  state, result,
  callback,      \* who is behind result_callback: "null", "main" or "timer"
  forRead,       \* bit 0 of address
  writePtr, writeSize, readPtr, readSize,
  (* I2C_Master_Data[i2c_id] *)
  busy,          \* operation_completed_callback # 0
  prevOp, prevData,
  (* the hardware *)
  hw,            \* the bus operation under way, "none" between two
  trn,           \* what it transmits: Address or the number of a byte
  mi2cif, ackstat, rcv,
  (* the bus and the device *)
  bus,           \* "free", "address", "writing", "reading", "acking", "quiet"
  served,        \* bytes the device has sent since it was addressed
  (* the callers and the interrupt *)
  at,            \* where each caller is
  isr,           \* where the I2C interrupt is
  nextOp, data,  \* its local variables
  (* what the properties look at *)
  job,           \* the request being served and who made it
  device,        \* the bytes the device has accepted
  buffer,        \* the caller's buffer, Empty where nothing was stored
  refused,       \* the device has refused its address or a byte
  told,          \* the last report: to whom, of what
  outcome,       \* how the last transfer of each caller ended on the bus
  returned       \* what i2c_master_transfert_block returned last

protocolVars == <<state, result, callback, forRead, writePtr, writeSize, readPtr, readSize>>
masterVars   == <<busy, prevOp, prevData>>
wireVars     == <<hw, trn, mi2cif, ackstat, rcv, bus, served>>
isrVars      == <<isr, nextOp, data>>
ghostVars    == <<job, device, buffer, refused, told, outcome>>
vars == <<protocolVars, masterVars, wireVars, at, isrVars, ghostVars, returned>>

Caller == {"main", "callback", "timer"}
Nobody == [who |-> "nobody", w |-> -1, r |-> -1]
Empty  == -1
Address == -1
Index  == 0 .. Places - 1

Init ==
  /\ state = "idle" /\ result = FALSE /\ callback = "null" /\ forRead = FALSE
  /\ writePtr = 0 /\ writeSize = 0 /\ readPtr = 0 /\ readSize = 0
  /\ busy = FALSE /\ prevOp = "none" /\ prevData = 0
  /\ hw = "none" /\ trn = Address /\ mi2cif = FALSE /\ ackstat = FALSE /\ rcv = 0
  /\ bus = "free" /\ served = 0
  /\ at = [c \in Caller |-> "out"]
  /\ isr = "off" /\ nextOp = "none" /\ data = 0
  /\ job = Nobody /\ device = << >> /\ buffer = [i \in Index |-> Empty]
  /\ refused = FALSE /\ told = [to |-> "nobody", result |-> FALSE]
  /\ outcome = [c \in Caller |-> FALSE] /\ returned = FALSE

-----------------------------------------------------------------------------
(* Who runs.  The I2C interrupt preempts the main program, not the timer's. *)
TimerRuns == at["timer"] # "out"
MainRuns  == ~TimerRuns /\ isr = "off" /\ ~mi2cif
IsrRuns   == ~TimerRuns /\ isr # "off"
Runs(c) == CASE c = "main"     -> MainRuns
             [] c = "callback" -> IsrRuns /\ isr = "callback"
             [] c = "timer"    -> TimerRuns

Step(c, from, to) ==
  /\ Runs(c) /\ at[c] = from
  /\ at' = [at EXCEPT ![c] = to]

-----------------------------------------------------------------------------
(* The hardware completes an operation and raises the master interrupt.     *)
Complete(newBus) == hw' = "none" /\ mi2cif' = TRUE /\ bus' = newBus

BusStart ==
  /\ hw = "start" \/ hw = "restart"
  /\ Complete("address")
  /\ served' = 0
  /\ UNCHANGED <<protocolVars, masterVars, trn, ackstat, rcv, at, isrVars, ghostVars, returned>>

BusAddress ==
  /\ hw = "write" /\ trn = Address
  /\ \E ack \in BOOLEAN :
       /\ ackstat' = ~ack
       /\ refused' = (refused \/ ~ack)
       /\ Complete(IF ~ack THEN "quiet" ELSE IF forRead THEN "reading" ELSE "writing")
  /\ UNCHANGED <<protocolVars, masterVars, trn, rcv, served, at, isrVars, job, device,
                 buffer, told, outcome, returned>>

BusWrite ==
  /\ hw = "write" /\ trn # Address
  /\ \E ack \in BOOLEAN :
       /\ ackstat' = ~ack
       /\ refused' = (refused \/ ~ack)
       /\ device' = IF ack THEN Append(device, trn) ELSE device
       /\ Complete(IF ack THEN "writing" ELSE "quiet")
  /\ UNCHANGED <<protocolVars, masterVars, trn, rcv, served, at, isrVars, job, buffer,
                 told, outcome, returned>>

BusRead ==
  /\ hw = "read"
  /\ rcv' = served /\ served' = served + 1
  /\ Complete("acking")
  /\ UNCHANGED <<protocolVars, masterVars, trn, ackstat, at, isrVars, ghostVars, returned>>

BusAck ==
  /\ hw = "ack" \/ hw = "nack"
  /\ Complete(IF hw = "ack" THEN "reading" ELSE "quiet")
  /\ UNCHANGED <<protocolVars, masterVars, trn, ackstat, rcv, served, at, isrVars,
                 ghostVars, returned>>

BusStop ==
  /\ hw = "stop"
  /\ Complete("free")
  /\ outcome' = [outcome EXCEPT ![job.who] = ~refused]
  /\ UNCHANGED <<protocolVars, masterVars, trn, ackstat, rcv, served, at, isrVars,
                 job, device, buffer, refused, told, returned>>

-----------------------------------------------------------------------------
(* A caller. *)

(* if (!i2c_master_is_busy(id)) *)
Ask(c) ==
  /\ Step(c, "ask", IF busy THEN "out" ELSE "check")
  /\ UNCHANGED <<protocolVars, masterVars, wireVars, isrVars, ghostVars, returned>>

(* i2c_master_transfert_async: the test of state. *)
CheckIdle(c) ==
  /\ Step(c, "check", IF state = "idle" THEN "fill" ELSE "error")
  /\ UNCHANGED <<protocolVars, masterVars, wireVars, isrVars, ghostVars, returned>>

(* ... the description of the transfer, with a result callback or without. *)
Who(c) == IF c = "callback" THEN "main" ELSE c
Fill(c) ==
  \E q \in Requests, block \in BOOLEAN :
    /\ block => c = "main"
    /\ Step(c, "fill", IF block THEN "start_block" ELSE "start")
    /\ result' = TRUE
    /\ callback' = IF block THEN "null" ELSE Who(c)
    /\ state' = "start_done"
    /\ forRead' = FALSE
    /\ writePtr' = 0 /\ writeSize' = q.w
    /\ readPtr' = 0 /\ readSize' = q.r
    /\ job' = [who |-> Who(c), w |-> q.w, r |-> q.r]
    /\ device' = << >> /\ buffer' = [i \in Index |-> Empty] /\ refused' = FALSE
    /\ UNCHANGED <<masterVars, wireVars, isrVars, told, outcome, returned>>

(* i2c_master_start_operations *)
StartOperations(c) ==
  \E block \in BOOLEAN :
    /\ ~busy
    /\ Step(c, IF block THEN "start_block" ELSE "start",
               IF block THEN "wait" ELSE IF c = "callback" THEN "done" ELSE "out")
    /\ busy' = TRUE /\ prevOp' = "none"
    /\ hw' = "start"
    /\ UNCHANGED <<protocolVars, prevData, trn, mi2cif, ackstat, rcv, bus, served,
                   isrVars, ghostVars, returned>>

StartBusy(c) ==
  \E from \in {"start", "start_block"} :
    /\ busy
    /\ Step(c, from, "error")
    /\ UNCHANGED <<protocolVars, masterVars, wireVars, isrVars, ghostVars, returned>>

MainAsks ==
  /\ Step("main", "out", "ask")
  /\ UNCHANGED <<protocolVars, masterVars, wireVars, isrVars, ghostVars, returned>>

(* i2c_master_transfert_block: while (i2c_master_is_busy(id)) barrier(); *)
BlockEndsAtOnce ==
  /\ Step("main", "wait", "return")
  /\ UNCHANGED <<protocolVars, masterVars, wireVars, isrVars, ghostVars, returned>>

BlockEnds ==
  /\ ~busy
  /\ Step("main", "wait", "return")
  /\ UNCHANGED <<protocolVars, masterVars, wireVars, isrVars, ghostVars, returned>>

BlockReturns ==
  /\ Step("main", "return", "check_result")
  /\ returned' = result
  /\ UNCHANGED <<protocolVars, masterVars, wireVars, isrVars, ghostVars>>

MainGoesOn ==
  /\ Step("main", "check_result", "out")
  /\ UNCHANGED <<protocolVars, masterVars, wireVars, isrVars, ghostVars, returned>>

TimerFires ==
  /\ Timer # "none" /\ at["timer"] = "out"
  /\ Timer = "same" => isr = "off"
  /\ at' = [at EXCEPT !["timer"] = "ask"]
  /\ UNCHANGED <<protocolVars, masterVars, wireVars, isrVars, ghostVars, returned>>

-----------------------------------------------------------------------------
(* The master interrupt. *)

IsrEnter ==
  /\ ~TimerRuns /\ isr = "off" /\ mi2cif
  /\ mi2cif' = FALSE
  /\ isr' = "op"
  /\ buffer' = IF prevOp = "read" THEN [buffer EXCEPT ![prevData] = rcv] ELSE buffer
  /\ UNCHANGED <<protocolVars, masterVars, hw, trn, ackstat, rcv, bus, served, at,
                 nextOp, data, job, device, refused, told, outcome, returned>>

(* i2c_master_transfert_op: in state s, return op and go to state s2.       *)
Op(s, op, s2) ==
  /\ IsrRuns /\ isr = "op" /\ state = s
  /\ nextOp' = op /\ state' = s2
  /\ isr' = IF op = "quit" THEN "reset" ELSE "apply"
  /\ UNCHANGED <<callback, masterVars, wireVars, at, ghostVars, returned>>

NextByteToWrite ==
  /\ data' = writePtr /\ writePtr' = writePtr + 1 /\ writeSize' = writeSize - 1
  /\ UNCHANGED <<readPtr, readSize>>
NextByteToRead ==
  /\ data' = readPtr /\ readPtr' = readPtr + 1 /\ readSize' = readSize - 1
  /\ UNCHANGED <<writePtr, writeSize>>
NoByte == UNCHANGED <<data, writePtr, writeSize, readPtr, readSize>>

OpAddress ==
  /\ Op("start_done", "write", "address_done")
  /\ forRead' = (writeSize = 0)
  /\ data' = Address
  /\ UNCHANGED <<result, writePtr, writeSize, readPtr, readSize>>

Give(value, s) ==
  /\ Op(s, "stop", "stop_done")
  /\ result' = value
  /\ NoByte /\ UNCHANGED forRead

OpRefusedSilently ==
  /\ ackstat
  /\ \E s \in {"address_done", "write_in_progress"} : Give(result, s)

OpRefused ==
  /\ ackstat
  /\ \E s \in {"address_done", "write_in_progress"} : Give(FALSE, s)

OpWriteOneMore ==
  /\ ~ackstat
  /\ \E s \in {"address_done", "write_in_progress"} : Op(s, "write", "write_in_progress")
  /\ NextByteToWrite /\ UNCHANGED <<result, forRead>>

OpWrite ==
  /\ ~ackstat /\ writeSize > 0
  /\ \E s \in {"address_done", "write_in_progress"} : Op(s, "write", "write_in_progress")
  /\ NextByteToWrite /\ UNCHANGED <<result, forRead>>

OpFirstRead ==
  /\ ~ackstat /\ writeSize = 0 /\ readSize > 0
  /\ Op("address_done", "read", "read_in_progress")
  /\ NextByteToRead /\ UNCHANGED <<result, forRead>>

OpRestartToItsOwnState ==
  /\ ~ackstat /\ writeSize = 0 /\ readSize > 0
  /\ Op("write_in_progress", "restart", "restart_done")
  /\ NoByte /\ UNCHANGED <<result, forRead>>

OpRestart ==
  /\ ~ackstat /\ writeSize = 0 /\ readSize > 0
  /\ Op("write_in_progress", "restart", "start_done")
  /\ NoByte /\ UNCHANGED <<result, forRead>>

OpNothingLeft ==
  /\ ~ackstat /\ writeSize = 0 /\ readSize = 0
  /\ \E s \in {"address_done", "write_in_progress"} : Give(TRUE, s)

OpAck ==
  /\ readSize > 0
  /\ Op("read_in_progress", "ack", "ack_done")
  /\ NoByte /\ UNCHANGED <<result, forRead>>

OpStopAtOnce ==
  /\ readSize = 0
  /\ Op("read_in_progress", "stop", "stop_done")
  /\ result' = TRUE
  /\ NoByte /\ UNCHANGED forRead

OpNack ==
  /\ readSize = 0
  /\ Op("read_in_progress", "nack", "nack_done")
  /\ result' = TRUE
  /\ NoByte /\ UNCHANGED forRead

OpNextRead ==
  /\ Op("ack_done", "read", "read_in_progress")
  /\ NextByteToRead /\ UNCHANGED <<result, forRead>>

OpStop ==
  /\ Op("nack_done", "stop", "stop_done")
  /\ NoByte /\ UNCHANGED <<result, forRead>>

(* ERROR(I2C_PROTOCOL_INTERNAL_ERROR): the interrupt does not go on. *)
OpInternalError ==
  /\ IsrRuns /\ isr = "op" /\ state \in {"idle", "restart_done"}
  /\ isr' = "error"
  /\ UNCHANGED <<protocolVars, masterVars, wireVars, at, nextOp, data, ghostVars, returned>>

OpDone ==
  /\ Op("stop_done", "quit", "idle")
  /\ NoByte /\ UNCHANGED <<result, forRead>>

(* i2c_master_reset, then the result callback, which may ask for a transfer *)
IsrNoReset ==
  /\ IsrRuns /\ isr = "reset"
  /\ isr' = "report"
  /\ UNCHANGED <<protocolVars, masterVars, wireVars, at, nextOp, data, ghostVars, returned>>

IsrReset ==
  /\ IsrRuns /\ isr = "reset"
  /\ busy' = FALSE
  /\ isr' = "report"
  /\ UNCHANGED <<protocolVars, prevOp, prevData, wireVars, at, nextOp, data, ghostVars,
                 returned>>

IsrReport ==
  /\ IsrRuns /\ isr = "report"
  /\ told' = [to |-> callback, result |-> result]
  /\ job' = IF busy THEN job ELSE Nobody
  /\ isr' = IF callback = "null" THEN "apply" ELSE "callback"
  /\ UNCHANGED <<protocolVars, masterVars, wireVars, at, nextOp, data, device, buffer,
                 refused, outcome, returned>>

(* The callback asks for at most one transfer, without asking first whether *)
(* the master is busy: the code has reset it for that purpose.              *)
CallbackAsks ==
  /\ told.to = "main"
  /\ Step("callback", "out", "check")
  /\ UNCHANGED <<protocolVars, masterVars, wireVars, isrVars, ghostVars, returned>>

CallbackEnds ==
  /\ IsrRuns /\ isr = "callback" /\ at["callback"] \in {"out", "done"}
  /\ isr' = "apply"
  /\ at' = [at EXCEPT !["callback"] = "out"]
  /\ UNCHANGED <<protocolVars, masterVars, wireVars, nextOp, data, ghostVars, returned>>

(* The switch on next_op: I2C_MASTER_QUIT leaves all as the callback left   *)
(* it, any other one starts an operation and is remembered.                 *)
IsrDone ==
  /\ IsrRuns /\ isr = "apply" /\ nextOp = "quit"
  /\ isr' = "off"
  /\ busy' = FALSE /\ prevOp' = "done"
  /\ UNCHANGED <<protocolVars, prevData, wireVars, at, nextOp, data, ghostVars, returned>>

IsrQuit ==
  /\ IsrRuns /\ isr = "apply" /\ nextOp = "quit"
  /\ isr' = "off"
  /\ UNCHANGED <<protocolVars, masterVars, wireVars, at, nextOp, data, ghostVars, returned>>

IsrApply ==
  /\ IsrRuns /\ isr = "apply" /\ nextOp # "quit"
  /\ hw' = nextOp /\ prevOp' = nextOp
  /\ trn' = IF nextOp = "write" THEN data ELSE trn
  /\ prevData' = IF nextOp = "read" THEN data ELSE prevData
  /\ isr' = "off"
  /\ UNCHANGED <<protocolVars, busy, mi2cif, ackstat, rcv, bus, served, at, nextOp, data,
                 ghostVars, returned>>

-----------------------------------------------------------------------------
Bus == BusStart \/ BusAddress \/ BusWrite \/ BusRead \/ BusAck \/ BusStop
Transfert(c) == Ask(c) \/ CheckIdle(c) \/ Fill(c) \/ StartOperations(c) \/ StartBusy(c)
TransfertOp == \/ OpAddress \/ OpRefused \/ OpWrite \/ OpFirstRead \/ OpRestart
               \/ OpNothingLeft \/ OpAck \/ OpNack \/ OpNextRead \/ OpStop \/ OpDone
               \/ OpInternalError
Isr == IsrEnter \/ TransfertOp \/ IsrReset \/ IsrReport \/ IsrQuit \/ IsrApply
Called == \E c \in Caller : Transfert(c)
Main == BlockEnds \/ BlockReturns \/ MainGoesOn

Next == Bus \/ Isr \/ Called \/ Main \/ CallbackAsks \/ CallbackEnds \/ MainAsks \/ TimerFires

(* The hardware finishes what it was asked, the processor executes, a      *)
(* result callback ends; nobody has to ask for a transfer.                 *)
Spec == /\ Init /\ [][Next]_vars
        /\ WF_vars(Bus) /\ WF_vars(Isr) /\ WF_vars(Called) /\ WF_vars(Main)
        /\ WF_vars(CallbackEnds)

-----------------------------------------------------------------------------
State == {"idle", "start_done", "address_done", "write_in_progress", "restart_done",
          "read_in_progress", "ack_done", "nack_done", "stop_done"}
Operation == {"start", "restart", "write", "read", "ack", "nack", "stop"}
Place == {"out", "ask", "check", "fill", "start", "start_block", "wait", "return",
          "check_result", "done", "error"}

(* The types of the variables: in particular the counts of bytes left,      *)
(* unsigned in the code, are never decremented at 0 (master_protocol.c:115, *)
(* 120, 139, 174), and no byte is stored outside the caller's buffer.       *)
TypeOK ==
  /\ state \in State /\ result \in BOOLEAN /\ callback \in {"null", "main", "timer"}
  /\ forRead \in BOOLEAN
  /\ writePtr \in Nat /\ writeSize \in Nat /\ readPtr \in Nat /\ readSize \in Nat
  /\ busy \in BOOLEAN /\ prevOp \in Operation \cup {"none"} /\ prevData \in Index
  /\ hw \in Operation \cup {"none"} /\ trn \in Nat \cup {Address}
  /\ mi2cif \in BOOLEAN /\ ackstat \in BOOLEAN /\ rcv \in Nat
  /\ bus \in {"free", "address", "writing", "reading", "acking", "quiet"}
  /\ served \in Nat
  /\ at \in [Caller -> Place]
  /\ isr \in {"off", "op", "reset", "report", "callback", "apply", "error"}
  /\ nextOp \in Operation \cup {"none", "quit"} /\ data \in Nat \cup {Address}
  /\ job = Nobody \/ job \in [who : {"main", "timer"}, w : Nat, r : Nat]
  /\ device \in Seq(Nat) /\ buffer \in [Index -> Nat \cup {Empty}]
  /\ refused \in BOOLEAN
  /\ told \in [to : {"nobody", "null", "main", "timer"}, result : BOOLEAN]
  /\ outcome \in [Caller -> BOOLEAN] /\ returned \in BOOLEAN

(* Each operation the state machine asks of the hardware is one the bus can *)
(* take at that moment: a start on a free bus, a byte to a device that      *)
(* listens, a read from one that sends, an acknowledgement after a byte     *)
(* read, a restart or a stop when nobody else holds the data line.          *)
BusLegal ==
  CASE hw = "none"               -> TRUE
    [] hw = "start"              -> bus = "free"
    [] hw = "write"              -> bus = IF trn = Address THEN "address" ELSE "writing"
    [] hw = "read"               -> bus = "reading"
    [] hw \in {"ack", "nack"}    -> bus = "acking"
    [] hw \in {"restart", "stop"} -> bus \in {"writing", "quiet"}

(* The interrupt calls operation_completed_callback without a test: it must *)
(* never come while the pointer is null, whoever resets and restarts the    *)
(* master in the callback or in a timer interrupt (master.c:215).           *)
InterruptOwned == hw # "none" \/ mi2cif \/ isr = "op" => busy

(* A blocking transfer returns how that very transfer ended on the bus      *)
(* (master_protocol.c:259, "true if transfert was successful").             *)
BlockTruth == at["main"] = "check_result" => returned = outcome["main"]

(* The result callback of a caller is called when that caller's transfer    *)
(* has ended, with its result (master_protocol.c:221-222).                  *)
CallbackTruth == isr = "callback" => told.result = outcome[told.to]

(* i2c_master_transfert_block returns, although only interrupts change what *)
(* it waits for.                                                            *)
BlockComesBack == at["main"] = "wait" ~> at["main"] = "check_result"

(* A transfer that was asked for ends and is reported, whatever the device  *)
(* answers.                                                                 *)
EveryTransferEnds == job # Nobody ~> job = Nobody

(* All the callers together see what I2CTransfer promises: bytes written    *)
(* and stored once, in order and in full, one report per transfer, and a    *)
(* report of success exactly when nothing was refused.                      *)
Filled == Cardinality({i \in Index : buffer[i] # Empty})
Transfer == INSTANCE I2CTransfer WITH
  job    <- [w |-> job.w, r |-> job.r],
  stored <- [i \in 1 .. Filled |-> buffer[i - 1]],
  told   <- told.result
Transfers == Transfer!Spec
=============================================================================
