-------------------------------- MODULE Can --------------------------------
(***************************************************************************)
(* The CAN driver (can/can.c): received frames lie in a FIFO of buffers    *)
(* the peripheral fills and one interrupt empties; one buffer is for the   *)
(* frame to send.                                                          *)
(***************************************************************************)
EXTENDS Naturals, Sequences

CONSTANTS
  Buffers,      \* number of reception buffers, 1 .. Buffers (31 in the code)
  AtomicClear,  \* clearing a bit of C1RXFUL is one instruction
  OneSender,    \* the interrupt does not send while the program is in can_send_frame
  None

Half(b) == {c \in 1 .. Buffers : (c > Buffers \div 2) = (b > Buffers \div 2)}

VARIABLES
  can_buf,    \* frame in each reception buffer
  RXFUL,      \* buffers that hold a frame
  FBP, FNRB,  \* buffer the peripheral fills next, and the next to read
  next,       \* number of the next frame stored, modulo two rounds of the FIFO
  pending,    \* frames stored and not delivered, in order
  tx_buf,     \* the two halves of buffer 0
  TXREQ0,
  wire,       \* the frame the peripheral is sending, as it read it, or None
  accepted,   \* the frame can_send_frame took last
  waiting,    \* the sender was told there is no room, and nothing since
  RBIF, TBIF, C1IF,
  OPMODE, REQOP,
  isr,        \* where _C1Interrupt is, or "none"
  bufn, frame, ful,  \* can_rx: the buffer, the copy and the read bits of C1RXFULx
  send        \* where the program's can_send_frame is, and its frame

rx == <<can_buf, RXFUL, FBP, FNRB, next, pending>>
tx == <<tx_buf, TXREQ0, wire, accepted, waiting>>
flags == <<RBIF, TBIF, C1IF>>
mode == <<OPMODE, REQOP>>
locals == <<bufn, frame, ful>>
canVars == <<rx, tx, flags, mode, isr, locals, send>>

CanInit ==
  /\ can_buf = [b \in 1 .. Buffers |-> 0] /\ RXFUL = {} /\ FBP = 1 /\ FNRB = 1
  /\ next = 0 /\ pending = <<>>
  /\ tx_buf = <<0, 0>> /\ TXREQ0 = FALSE /\ wire = None /\ accepted = 0 /\ waiting = FALSE
  /\ RBIF = FALSE /\ TBIF = FALSE /\ C1IF = FALSE
  /\ OPMODE = "config" /\ REQOP = "config"
  /\ isr = "none" /\ bufn = 0 /\ frame = 0 /\ ful = {} /\ send = <<"idle", 0>>

ProgramRuns == isr = "none" /\ ~C1IF
NextBuffer(b) == IF b = Buffers THEN 1 ELSE b + 1

(* The peripheral: a frame comes in (lost when its buffer is still full),   *)
(* the frame to send is read, and has been sent.                            *)
Receive ==
  /\ OPMODE = "normal" /\ (AtomicClear => isr # "write")
  /\ IF FBP \in RXFUL THEN UNCHANGED <<can_buf, RXFUL, FBP, next, pending>>
     ELSE /\ next' = (next + 1) % (2 * Buffers)
          /\ can_buf' = [can_buf EXCEPT ![FBP] = next] /\ RXFUL' = RXFUL \cup {FBP}
          /\ FBP' = NextBuffer(FBP) /\ pending' = Append(pending, next)
  /\ RBIF' = TRUE /\ C1IF' = TRUE
  /\ UNCHANGED <<FNRB, tx, TBIF, mode, isr, locals, send>>
StartOfFrame ==
  /\ OPMODE = "normal" /\ TXREQ0 /\ wire = None /\ wire' = tx_buf
  /\ UNCHANGED <<rx, tx_buf, TXREQ0, accepted, waiting, flags, mode, isr, locals, send>>
EndOfFrame ==
  /\ wire # None /\ wire' = None /\ TXREQ0' = FALSE /\ TBIF' = TRUE /\ C1IF' = TRUE
  /\ UNCHANGED <<rx, tx_buf, accepted, waiting, RBIF, mode, isr, locals, send>>
ModeChange ==
  /\ OPMODE # REQOP /\ wire = None /\ OPMODE' = REQOP
  /\ UNCHANGED <<rx, tx, flags, REQOP, isr, locals, send>>

(* can_init, can_disable and can_enable end in can_ask_runlevel, which      *)
(* waits for the peripheral.                                                *)
Waits == OPMODE # REQOP
can_ask_runlevel(level) == OPMODE # level /\ REQOP' = level /\ UNCHANGED OPMODE
setup_can_buffers == RXFUL' = {} /\ TXREQ0' = FALSE
can_init ==
  /\ ProgramRuns /\ OPMODE = "config" /\ setup_can_buffers /\ can_ask_runlevel("normal")
  /\ UNCHANGED <<can_buf, FBP, FNRB, next, pending, tx_buf, wire, accepted, waiting, flags, isr, locals, send>>
can_disable ==
  /\ ProgramRuns /\ ~Waits /\ OPMODE # "config" /\ send[1] = "idle" /\ can_ask_runlevel("disable")
  /\ UNCHANGED <<rx, tx, flags, isr, locals, send>>
can_enable ==
  /\ ProgramRuns /\ ~Waits /\ OPMODE # "config" /\ send[1] = "idle" /\ can_ask_runlevel("normal")
  /\ UNCHANGED <<rx, tx, flags, isr, locals, send>>

(* can_send_frame by the program: the test, the two halves of the copy, the *)
(* request.                                                                 *)
\* mutant: the buffer is taken without a test
RoomTaken == TRUE
can_is_frame_room == ~TXREQ0
NewFrame == 1 - accepted
CanSendTest ==
  /\ ProgramRuns /\ ~Waits /\ OPMODE # "config" /\ send[1] = "idle"
  /\ IF can_is_frame_room THEN send' = <<"first", NewFrame>> /\ UNCHANGED waiting
                          ELSE waiting' = TRUE /\ UNCHANGED send
  /\ UNCHANGED <<rx, tx_buf, TXREQ0, wire, accepted, flags, mode, isr, locals>>
CanSendCopy(from, to, i) ==
  /\ ProgramRuns /\ send[1] = from /\ send' = <<to, send[2]>>
  /\ tx_buf' = [tx_buf EXCEPT ![i] = send[2]]
  /\ UNCHANGED <<rx, TXREQ0, wire, accepted, waiting, flags, mode, isr, locals>>
CanSendRequest ==
  /\ ProgramRuns /\ send[1] = "request" /\ send' = <<"idle", 0>>
  /\ TXREQ0' = TRUE /\ accepted' = send[2] /\ waiting' = FALSE
  /\ UNCHANGED <<rx, tx_buf, wire, flags, mode, isr, locals>>

(* A whole call from one of the callbacks.                                  *)
SendFromCallback ==
  /\ OneSender => send[1] = "idle"
  /\ IF can_is_frame_room
     THEN /\ tx_buf' = <<NewFrame, NewFrame>> /\ accepted' = NewFrame /\ TXREQ0' = TRUE
          /\ waiting' = FALSE
     ELSE waiting' = TRUE /\ UNCHANGED <<tx_buf, TXREQ0, accepted>>
  /\ UNCHANGED wire

(* _C1Interrupt, one step per access to what the peripheral shares.         *)
At(from, to) == isr = from /\ isr' = to
C1Interrupt ==
  /\ C1IF /\ At("none", "rbif") /\ C1IF' = FALSE
  /\ UNCHANGED <<rx, tx, RBIF, TBIF, mode, locals, send>>
TestRbif ==
  /\ isr = "rbif" /\ isr' = (IF RBIF THEN "fifo" ELSE "tbif") /\ RBIF' = FALSE
  /\ UNCHANGED <<rx, tx, TBIF, C1IF, mode, locals, send>>
can_get_next_rx == IF FNRB \in RXFUL THEN FNRB ELSE 0
can_rx ==
  /\ isr = "fifo" /\ bufn' = can_get_next_rx
  /\ isr' = (IF bufn' = 0 THEN "tbif" ELSE "copy")
  /\ UNCHANGED <<rx, tx, flags, mode, frame, ful, send>>
CopyFrame ==
  /\ At("copy", "read") /\ frame' = can_buf[bufn]
  /\ UNCHANGED <<rx, tx, flags, mode, bufn, ful, send>>
ReadFul ==
  /\ At("read", "write") /\ ful' = RXFUL \cap Half(bufn)
  /\ UNCHANGED <<rx, tx, flags, mode, bufn, frame, send>>
WriteFul ==
  /\ At("write", "callback")
  /\ RXFUL' = (RXFUL \ Half(bufn)) \cup (ful \ {bufn}) /\ FNRB' = NextBuffer(FNRB)
  /\ ful' = {}
  /\ UNCHANGED <<can_buf, FBP, next, pending, tx, flags, mode, bufn, frame, send>>
\* mutant: one frame per interrupt
OneFrame == "tbif"
NextFrame == "fifo"
RxCallback ==
  /\ At("callback", NextFrame) /\ pending' = Tail(pending) /\ bufn' = 0 /\ frame' = 0
  /\ UNCHANGED tx \/ SendFromCallback
  /\ UNCHANGED <<can_buf, RXFUL, FBP, FNRB, next, flags, mode, ful, send>>
TestTbif ==
  /\ isr = "tbif" /\ isr' = (IF TBIF THEN "txreq" ELSE "none") /\ TBIF' = FALSE
  /\ UNCHANGED <<rx, tx, RBIF, C1IF, mode, locals, send>>
can_tx ==
  /\ At("txreq", "none")
  /\ IF TXREQ0 THEN UNCHANGED tx
     ELSE \/ waiting' = FALSE /\ UNCHANGED <<tx_buf, TXREQ0, wire, accepted>>
          \/ SendFromCallback
  /\ UNCHANGED <<rx, flags, mode, locals, send>>

CanNext ==
  \/ Receive \/ StartOfFrame \/ EndOfFrame \/ ModeChange
  \/ can_init \/ can_disable \/ can_enable
  \/ CanSendTest \/ CanSendCopy("first", "second", 1) \/ CanSendCopy("second", "request", 2)
  \/ CanSendRequest
  \/ C1Interrupt \/ TestRbif \/ can_rx \/ CopyFrame \/ ReadFul \/ WriteFul \/ RxCallback
  \/ TestTbif \/ can_tx

(* Frames arrive whole and in order, in both directions (can.c:347-365,     *)
(* 415-439): the callback gets the oldest frame stored, and what goes out   *)
(* on the wire is the frame that was taken to be sent.                      *)
CanIntact ==
  /\ isr = "callback" => pending # <<>> /\ frame = Head(pending)
  /\ wire # None => wire = <<accepted, accepted>> /\ TXREQ0

(* No work is forgotten between the flags and the loop (can.c:441-461): a   *)
(* frame in the FIFO has an interrupt, flagged or on its way to it, and so  *)
(* has a sender that was refused once the buffer is free.                   *)
CanAnswered ==
  /\ FNRB \in RXFUL => \/ RBIF /\ (C1IF \/ isr = "rbif")
                       \/ isr \in {"fifo", "copy", "read", "write", "callback"}
  /\ waiting /\ ~TXREQ0 => \/ TBIF /\ (C1IF \/ isr \notin {"none", "txreq"})
                           \/ isr = "txreq" \/ send[1] # "idle"
=============================================================================
