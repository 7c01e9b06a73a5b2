------------------------------ MODULE I2CSlave ------------------------------
(***************************************************************************)
(* The I2C slave (i2c/slave.c): one interrupt for the address and one for  *)
(* each byte, nothing for a stop, and a state machine that follows the     *)
(* master by counting, through the callbacks that tell the last byte.      *)
(***************************************************************************)
EXTENDS Naturals

CONSTANTS
  Lengths,     \* agreed number of bytes of a message, per direction
  PromptSlave, \* an interrupt is served before the next byte of a write has come in
  NoEvent

I2CIds == {"I2C_1", "I2C_2", "I2C_3"}

VARIABLES
  i2c_id,    \* the peripheral in use
  state,     \* I2C_n_Slave_Data.state
  ie,        \* _SI2CnIE
  bus,       \* what the master does: "idle", or the direction of its message
  left,      \* bytes it has still to move in this message
  R_W,       \* direction of the last address, I2CnSTATbits.R_W
  SCLREL,    \* the clock is not held
  event,     \* interrupt waiting: "address", "byte" (of a write), "ack" (of a read)
  given,     \* bytes the data callbacks have handled in the message they are in
  broken     \* the agreed lengths were not kept, or the slave was forced or off, since the
             \* last time both were idle

wire == <<bus, left, R_W>>
slaveVars == <<i2c_id, state, ie, wire, SCLREL, event, given, broken>>

SlaveInit ==
  /\ i2c_id \in I2CIds
  /\ state = "I2C_IDLE" /\ ie = FALSE /\ bus = "idle" /\ left = 0 /\ R_W = "write"
  /\ SCLREL = TRUE /\ event = NoEvent /\ given = 0 /\ broken = TRUE

(* i2c_init_slave, i2c_slave_return_to_idle and i2c_disable_slave, by the   *)
(* program while no interrupt waits.  Only on an idle bus do the first two  *)
(* bring the two sides together.                                            *)
i2c_init_slave ==
  /\ ie => event = NoEvent
  /\ bus = "idle" /\ state' = "I2C_IDLE" /\ ie' = TRUE /\ event' = NoEvent
  /\ broken' = FALSE
  /\ UNCHANGED <<i2c_id, wire, SCLREL, given>>
i2c_slave_return_to_idle ==
  /\ ie => event = NoEvent
  /\ state' = "I2C_IDLE" /\ broken' = (bus # "idle" \/ ~ie)
  /\ UNCHANGED <<i2c_id, ie, wire, SCLREL, event, given>>
i2c_disable_slave ==
  /\ ie /\ event = NoEvent /\ ie' = FALSE /\ broken' = TRUE
  /\ UNCHANGED <<i2c_id, state, wire, SCLREL, event, given>>

(* The master: a message of the agreed length, or one it gives up.  The     *)
(* peripheral holds the clock in a read only (i2c.c:75, STREN = 0): a byte  *)
(* of a write that finds the one before still there is lost.                *)
Room == SCLREL /\ (event = NoEvent \/ ~PromptSlave)
MasterAddress(rw) ==
  /\ bus = "idle" /\ Room
  /\ bus' = rw /\ left' = Lengths[rw] /\ R_W' = rw /\ SCLREL' = (rw = "write")
  /\ event' = (IF event = NoEvent THEN "address" ELSE event)
  /\ UNCHANGED <<i2c_id, state, ie, given, broken>>
MasterByte ==
  /\ bus # "idle" /\ Room /\ left > 0 /\ left' = left - 1 /\ SCLREL' = (bus = "write")
  /\ event' = IF event # NoEvent THEN event ELSE IF bus = "write" THEN "byte" ELSE "ack"
  /\ UNCHANGED <<i2c_id, state, ie, bus, R_W, given, broken>>
MasterStop ==
  /\ bus # "idle" /\ (SCLREL \/ ~ie) /\ bus' = "idle" /\ SCLREL' = TRUE
  /\ broken' = (broken \/ left > 0)
  /\ UNCHANGED <<i2c_id, state, ie, left, R_W, event, given>>

(* The interrupt.  The callbacks of the application count the bytes of the  *)
(* message and report its last one.                                         *)
\* mutant: the interrupt of the acknowledge of the last byte is not waited for
DataToMasterThenIdle(count) ==
  /\ given' = count + 1
  /\ state' = IF count + 1 >= Lengths["read"] THEN "I2C_IDLE" ELSE "I2C_TO_MASTER"
data_to_master(count) ==
  /\ given' = count + 1
  /\ state' = IF count + 1 >= Lengths["read"] THEN "I2C_END_TO_MASTER" ELSE "I2C_TO_MASTER"
data_from_master(count) ==
  /\ given' = count + 1
  /\ state' = IF count + 1 >= Lengths["write"] THEN "I2C_IDLE" ELSE "I2C_FROM_MASTER"

ToMaster ==
  \/ state = "I2C_IDLE" /\ R_W = "read" /\ data_to_master(0)   \* message_to_master_callback
  \/ state = "I2C_TO_MASTER" /\ data_to_master(given)
FromMaster ==
  \/ state = "I2C_IDLE" /\ R_W = "write" /\ state' = "I2C_FROM_MASTER" /\ given' = 0
  \/ state = "I2C_FROM_MASTER" /\ data_from_master(given)
EndToMaster == state = "I2C_END_TO_MASTER" /\ state' = "I2C_IDLE" /\ UNCHANGED given

Interrupt(id) ==
  /\ i2c_id = id /\ ie /\ event # NoEvent
  /\ event' = NoEvent /\ SCLREL' = TRUE
  /\ ToMaster \/ FromMaster \/ EndToMaster
  /\ UNCHANGED <<i2c_id, ie, wire, broken>>
SI2C1Interrupt == Interrupt("I2C_1")
SI2C2Interrupt == Interrupt("I2C_2")
SI2C3Interrupt == Interrupt("I2C_3")

SlaveNext ==
  \/ i2c_init_slave \/ i2c_slave_return_to_idle \/ i2c_disable_slave
  \/ \E rw \in {"read", "write"} : MasterAddress(rw)
  \/ MasterByte \/ MasterStop
  \/ SI2C1Interrupt \/ SI2C2Interrupt \/ SI2C3Interrupt

(* The slave counts in step with the master (slave.c:246-299: no interrupt  *)
(* tells the end of a message, so a state left behind turns the next        *)
(* address into data): unless the agreement was broken, it is idle exactly  *)
(* when the master is between messages or at the end of one, goes the       *)
(* master's way, has handled the bytes the master moved (one ahead in a     *)
(* read), and lets the clock go.  A broken agreement is mended by forcing   *)
(* the slave to idle while the bus is.                                      *)
InStep ==
  ~broken /\ event = NoEvent =>
    /\ SCLREL
    /\ state = (CASE bus = "idle" \/ left = 0 -> "I2C_IDLE"
                  [] bus = "write" /\ left # 0 -> "I2C_FROM_MASTER"
                  [] bus = "read" /\ left = 1 -> "I2C_END_TO_MASTER"
                  [] bus = "read" /\ left > 1 -> "I2C_TO_MASTER")
    /\ bus = "write" => given = Lengths["write"] - left
    /\ bus = "read" /\ left > 0 => given = Lengths["read"] - left + 1
=============================================================================
