--------------------------- MODULE SerialTxProofs ---------------------------
(***************************************************************************)
(* Theorems about SerialTx for every size of the ring and of the FIFO.     *)
(***************************************************************************)
EXTENDS SerialTx, Rings, TLAPS

(* The slots between transmitPos and writePos, as the ring wraps. *)
Occupied(s) ==
  IF transmitPos <= writePos
  THEN transmitPos <= s /\ s < writePos
  ELSE s < writePos \/ transmitPos <= s

Bit(b) == IF b THEN 1 ELSE 0

(* What makes TypeOK inductive: only bytes are found where the interrupt   *)
(* reads, the shift register runs dry last, and the stretch counter        *)
(* restarts from 0.                                                        *)
BytesInv ==
  /\ \A s \in Slot : Occupied(s) => ring[s] \in Byte
  /\ isr = "txreg" => isrData \in Byte
  /\ ~Hurried => lag = 0

(* Room in the FIFO is reserved for the interrupt: a request or a running  *)
(* interrupt stands for a place that a Shift has freed and that nobody     *)
(* else fills, because serial_io_send_char writes UxTXREG only while the   *)
(* ring is empty, in which case the interrupt has nothing to write.        *)
RoomInv ==
  /\ tsr = NoByte => txFifo = << >>
  /\ Len(txFifo) + Bit(txif) + Bit(isr # "off") <= FifoDepth
  /\ txie <=> pc \notin {"append", "unmask"}
  /\ pc \in {"append", "unmask"} => flags
  /\ pc \in {"utxbf", "txreg"} => RingEmpty /\ isr # "txreg"
  /\ pc = "txreg" => ~Utxbf

Quiet == ~txif /\ isr = "off"
Loaded == ~RingEmpty \/ isr = "txreg"
Queueing == pc \in {"full", "mask", "append"}

(* The regime: short stretches, and room for one byte more than they take. *)
Prompt == N >= 3 /\ FifoDepth >= 2 /\ Patience = 1

(* Why a byte in the ring is never stranded when at most one byte leaves   *)
(* the FIFO during a fast stretch.                                         *)
PromptInv ==
  /\ Loaded \/ Queueing => tsr # NoByte
  /\ ~RingEmpty /\ Quiet => Len(txFifo) >= FifoDepth - 1
  /\ Loaded /\ ~Quiet => lag = 1 /\ Len(txFifo) >= FifoDepth - 2
  /\ Loaded /\ isr # "off" => ~txif
  /\ Queueing /\ ~Loaded => Len(txFifo) >= FifoDepth - lag
  /\ pc # "out" /\ ~Quiet => lag = 1
  /\ pc = "doze" =>
       \/ RingFull
       \/ /\ After(After(writePos)) = transmitPos
          /\ lag = 1 /\ ~txif /\ isr # "callback"
  /\ pc = "asleep" => ~RingEmpty /\ isr = "off"

-----------------------------------------------------------------------------
(* The position after p, without the modulo. *)
LEMMA AfterSlot ==
  ASSUME NEW p \in Slot
  PROVE  /\ After(p) \in Slot
         /\ After(p) = IF p = N - 1 THEN 0 ELSE p + 1
<1>1. CASE p = N - 1
  BY <1>1, TxAssumption DEF Slot, After
<1>2. CASE p # N - 1
  BY <1>2, TxAssumption DEF Slot, After
<1>3. QED
  BY <1>1, <1>2

(* The identifier of the byte after b. *)
LEMMA NextByte ==
  ASSUME NEW b \in Byte
  PROVE  (b + 1) % Ids \in Byte
BY TxAssumption DEF Byte

(* Every step but a Shift leaves the counter as it is or resets it. *)
LEMMA PaceStep ==
  ASSUME TypeOK, Pace
  PROVE  lag' \in 0 .. Patience /\ (~Hurried' => lag' = 0)
BY TxAssumption DEF TypeOK, Pace

(* The FIFO as Shift and WriteTxreg use it. *)
LEMMA FifoTail ==
  ASSUME NEW q \in Seq(Byte), q # << >>
  PROVE  /\ Head(q) \in Byte /\ Tail(q) \in Seq(Byte)
         /\ Len(q) \in Nat /\ Len(q) >= 1 /\ Len(Tail(q)) = Len(q) - 1
OBVIOUS

LEMMA WriteTxregStep ==
  ASSUME TypeOK, NEW b \in Byte, WriteTxreg(b)
  PROVE  /\ txFifo' \in Seq(Byte) /\ Len(txFifo') <= FifoDepth
         /\ tsr' \in Byte \cup {NoByte} /\ txif' \in BOOLEAN
<1>1. CASE tsr = NoByte
  BY <1>1 DEF WriteTxreg, TypeOK
<1>2. CASE tsr # NoByte /\ ~Utxbf
  <2>1. Len(txFifo) \in Nat /\ Len(txFifo) < FifoDepth
    BY <1>2, TxAssumption DEF TypeOK, Utxbf
  <2>2. txFifo' = Append(txFifo, b) /\ UNCHANGED <<tsr, txif>>
    BY <1>2 DEF WriteTxreg
  <2>3. txFifo' \in Seq(Byte) /\ Len(txFifo') = Len(txFifo) + 1
    BY <2>2 DEF TypeOK
  <2>4. QED
    BY <2>1, <2>2, <2>3, TxAssumption DEF TypeOK
<1>3. CASE tsr # NoByte /\ Utxbf
  BY <1>3 DEF WriteTxreg, TypeOK
<1>4. QED
  BY <1>1, <1>2, <1>3

TypeInv == TypeOK /\ BytesInv

LEMMA TypeInit == Init => TypeInv
<1> SUFFICES ASSUME Init PROVE TypeInv
  OBVIOUS
<1>1. 0 \in Slot /\ 0 \in Byte
  BY TxAssumption DEF Slot, Byte
<1>2. txFifo \in Seq(Byte) /\ Len(txFifo) = 0
  BY DEF Init
<1>3. TypeOK
  BY <1>1, <1>2, TxAssumption DEF Init, TypeOK, MainPc
<1>4. BytesInv
  BY TxAssumption DEF Init, BytesInv, Occupied, Slot
<1>5. QED
  BY <1>3, <1>4 DEF TypeInv

LEMMA TypeStep == TypeInv /\ [Next]_vars => TypeInv'
<1> SUFFICES ASSUME TypeInv, [Next]_vars PROVE TypeInv'
  OBVIOUS
<1> USE TxAssumption DEF TypeInv, ringVars, uartVars, isrVars, mainVars
<1>1. CASE Shift
  <2>1. lag' \in 0 .. Patience /\ (~Hurried' => lag' = 0)
    BY <1>1 DEF Shift, TypeOK, BytesInv
  <2>2. /\ txFifo' \in Seq(Byte) /\ Len(txFifo') <= FifoDepth
        /\ tsr' \in Byte \cup {NoByte} /\ txif' \in BOOLEAN
    <3>1. CASE txFifo = << >>
      BY <1>1, <3>1 DEF Shift, TypeOK
    <3>2. CASE txFifo # << >>
      <4>1. /\ Head(txFifo) \in Byte /\ Tail(txFifo) \in Seq(Byte)
            /\ Len(Tail(txFifo)) <= FifoDepth
        BY <3>2, FifoTail DEF TypeOK
      <4>2. txFifo' = Tail(txFifo) /\ tsr' = Head(txFifo) /\ txif' = TRUE
        BY <1>1, <3>2 DEF Shift
      <4>3. QED
        BY <4>1, <4>2
    <3>3. QED
      BY <3>1, <3>2
  <2>4. TypeOK'
    BY <1>1, <2>1, <2>2 DEF Shift, TypeOK
  <2>3. BytesInv'
    BY <1>1, <2>1 DEF Shift, BytesInv, Occupied
  <2>5. QED
    BY <2>3, <2>4
<1>2. CASE IsrEnter
  <2>1. lag' \in 0 .. Patience /\ (~Hurried' => lag' = 0)
    BY <1>2, PaceStep DEF IsrEnter
  <2>2. TypeOK'
    BY <1>2, <2>1 DEF IsrEnter, TypeOK, MainPc
  <2>3. BytesInv'
    BY <1>2, <2>1 DEF IsrEnter, BytesInv, Occupied
  <2>4. QED
    BY <2>2, <2>3
<1>3. CASE IsrCallbackEmpty
  <2>1. lag' \in 0 .. Patience /\ (~Hurried' => lag' = 0)
    BY <1>3, PaceStep DEF IsrCallbackEmpty
  <2>2. TypeOK'
    BY <1>3, <2>1 DEF IsrCallbackEmpty, TypeOK
  <2>3. BytesInv'
    BY <1>3, <2>1 DEF IsrCallbackEmpty, BytesInv, Occupied
  <2>4. QED
    BY <2>2, <2>3
<1>4. CASE IsrCallbackData
  <2>1. lag' \in 0 .. Patience /\ (~Hurried' => lag' = 0)
    BY <1>4, PaceStep DEF IsrCallbackData
  <2>2. Occupied(transmitPos)
    BY <1>4 DEF IsrCallbackData, TypeOK, RingEmpty, Occupied, Slot
  <2>3. isrData' \in Byte
    BY <1>4, <2>2 DEF IsrCallbackData, TypeOK, BytesInv
  <2>4. transmitPos' \in Slot
        /\ transmitPos' = IF transmitPos = N - 1 THEN 0 ELSE transmitPos + 1
    BY <1>4, AfterSlot DEF IsrCallbackData, TypeOK
  <2>5. TypeOK'
    BY <1>4, <2>1, <2>3, <2>4 DEF IsrCallbackData, TypeOK
  <2>6. ASSUME NEW s \in Slot, Occupied(s)' PROVE Occupied(s)
    BY <1>4, <2>4, <2>6 DEF IsrCallbackData, TypeOK, RingEmpty, Occupied, Slot
  <2>7. BytesInv'
    BY <1>4, <2>1, <2>3, <2>6 DEF IsrCallbackData, BytesInv
  <2>8. QED
    BY <2>5, <2>7
<1>5. CASE IsrTxreg
  <2>1. lag' \in 0 .. Patience /\ (~Hurried' => lag' = 0)
    BY <1>5, PaceStep DEF IsrTxreg
  <2>2. TypeOK'
    BY <1>5, <2>1, WriteTxregStep DEF IsrTxreg, TypeOK, BytesInv
  <2>3. BytesInv'
    BY <1>5, <2>1 DEF IsrTxreg, BytesInv, Occupied
  <2>4. QED
    BY <2>2, <2>3
<1>6. CASE SendCall \/ TestRingEmpty \/ TestUtxbf \/ TestRingFull \/ IdleSleep
  <2>1. lag' \in 0 .. Patience /\ (~Hurried' => lag' = 0)
    BY <1>6, PaceStep
    DEF SendCall, TestRingEmpty, TestUtxbf, TestRingFull, IdleSleep
  <2>2. TypeOK'
    BY <1>6, <2>1 DEF SendCall, TestRingEmpty, TestUtxbf, TestRingFull,
      IdleSleep, Goto, TypeOK, MainPc
  <2>3. BytesInv'
    BY <1>6, <2>1 DEF SendCall, TestRingEmpty, TestUtxbf, TestRingFull,
      IdleSleep, BytesInv, Occupied
  <2>4. QED
    BY <2>2, <2>3
<1>7. CASE SendDirect
  <2>1. lag' \in 0 .. Patience /\ (~Hurried' => lag' = 0)
    BY <1>7, PaceStep DEF SendDirect
  <2>2. TypeOK'
    BY <1>7, <2>1, NextByte, WriteTxregStep DEF SendDirect, Goto, TypeOK, MainPc
  <2>3. BytesInv'
    BY <1>7, <2>1 DEF SendDirect, BytesInv, Occupied
  <2>4. QED
    BY <2>2, <2>3
<1>8. CASE DisableTxInterrupt
  <2>1. lag' \in 0 .. Patience /\ (~Hurried' => lag' = 0)
    BY <1>8, PaceStep DEF DisableTxInterrupt
  <2>2. TypeOK'
    BY <1>8, <2>1 DEF DisableTxInterrupt, Goto, TypeOK, MainPc
  <2>3. BytesInv'
    BY <1>8, <2>1 DEF DisableTxInterrupt, BytesInv, Occupied
  <2>4. QED
    BY <2>2, <2>3
<1>9. CASE AppendToRing
  <2>1. lag' \in 0 .. Patience /\ (~Hurried' => lag' = 0)
    BY <1>9, PaceStep DEF AppendToRing
  <2>2. writePos' \in Slot
        /\ writePos' = IF writePos = N - 1 THEN 0 ELSE writePos + 1
    BY <1>9, AfterSlot DEF AppendToRing, TypeOK
  <2>3. TypeOK'
    BY <1>9, <2>1, <2>2, NextByte DEF AppendToRing, Goto, TypeOK, MainPc
  <2>4. ASSUME NEW s \in Slot, Occupied(s)' PROVE ring'[s] \in Byte
    <3>1. s = writePos \/ Occupied(s)
      BY <1>9, <2>2, <2>4 DEF AppendToRing, TypeOK, Occupied, Slot
    <3>2. QED
      BY <1>9, <3>1 DEF AppendToRing, TypeOK, BytesInv
  <2>5. BytesInv'
    BY <1>9, <2>1, <2>4 DEF AppendToRing, BytesInv
  <2>6. QED
    BY <2>3, <2>5
<1>10. CASE EnableTxInterrupt
  <2>1. lag' \in 0 .. Patience /\ (~Hurried' => lag' = 0)
    BY <1>10, PaceStep DEF EnableTxInterrupt
  <2>2. TypeOK'
    BY <1>10, <2>1 DEF EnableTxInterrupt, Goto, TypeOK, MainPc
  <2>3. BytesInv'
    BY <1>10, <2>1 DEF EnableTxInterrupt, BytesInv, Occupied
  <2>4. QED
    BY <2>2, <2>3
<1>11. CASE UNCHANGED vars
  BY <1>11 DEF vars, TypeOK, BytesInv, Occupied, Hurried
<1>12. QED
  BY <1>1, <1>2, <1>3, <1>4, <1>5, <1>6, <1>7, <1>8, <1>9, <1>10, <1>11
  DEF Next, Isr, SendChar

(* Every variable keeps its type, for every size of the ring and of the    *)
(* FIFO and every Patience; in particular the FIFO holds bytes only, never *)
(* a slot of the ring that was not written.                                *)
THEOREM TxTypeCorrect == Spec => []TypeOK
<1>1. TypeInv => TypeOK
  BY DEF TypeInv
<1>2. QED
  BY <1>1, TypeInit, TypeStep, PTL DEF Spec

-----------------------------------------------------------------------------
(* What a Shift and a write of UxTXREG do to the room in the FIFO.         *)
LEMMA ShiftLen ==
  ASSUME TypeOK, Shift
  PROVE  \/ /\ txFifo = << >> /\ UNCHANGED <<txFifo, txif>> /\ tsr' = NoByte
         \/ /\ txFifo # << >> /\ txif' /\ tsr' # NoByte
            /\ Len(txFifo') = Len(txFifo) - 1
<1>1. CASE txFifo = << >>
  BY <1>1 DEF Shift
<1>2. CASE txFifo # << >>
  <2>1. Head(txFifo) \in Byte /\ Len(Tail(txFifo)) = Len(txFifo) - 1
    BY <1>2, FifoTail DEF TypeOK
  <2>2. txFifo' = Tail(txFifo) /\ tsr' = Head(txFifo) /\ txif' = TRUE
    BY <1>2 DEF Shift
  <2>3. tsr' # NoByte
    <3>1. tsr' \in Byte
      BY <2>1, <2>2
    <3>2. QED
      BY <3>1, TxAssumption DEF Byte, NoByte
  <2>4. txif' /\ Len(txFifo') = Len(txFifo) - 1
    BY <2>1, <2>2
  <2>5. QED
    BY <1>2, <2>3, <2>4
<1>3. QED
  BY <1>1, <1>2

LEMMA WriteTxregLen ==
  ASSUME TypeOK, NEW b \in Byte, WriteTxreg(b), Len(txFifo) < FifoDepth,
         tsr = NoByte => txFifo = << >>
  PROVE  /\ tsr' # NoByte
         /\ \/ tsr = NoByte /\ UNCHANGED txFifo /\ txif'
            \/ tsr # NoByte /\ Len(txFifo') = Len(txFifo) + 1 /\ UNCHANGED txif
<1>1. ~Utxbf
  BY TxAssumption DEF Utxbf, TypeOK
<1>2. CASE tsr = NoByte
  BY <1>2 DEF WriteTxreg, Byte, NoByte
<1>3. CASE tsr # NoByte
  <2>1. txFifo' = Append(txFifo, b) /\ UNCHANGED <<tsr, txif>>
    BY <1>1, <1>3 DEF WriteTxreg
  <2>2. Len(txFifo') = Len(txFifo) + 1
    BY <2>1 DEF TypeOK
  <2>3. QED
    BY <1>3, <2>1, <2>2
<1>4. QED
  BY <1>2, <1>3

LEMMA RoomInit == Init => RoomInv
BY TxAssumption DEF Init, RoomInv, Bit

LEMMA RoomStep == TypeInv /\ TypeOK' /\ RoomInv /\ [Next]_vars => RoomInv'
<1> SUFFICES ASSUME TypeInv, TypeOK', RoomInv, [Next]_vars PROVE RoomInv'
  OBVIOUS
<1> USE TxAssumption DEF TypeInv, ringVars, uartVars, isrVars, mainVars
<1>0. /\ Len(txFifo) \in Nat /\ Len(txFifo') \in Nat
      /\ txif \in BOOLEAN /\ txif' \in BOOLEAN /\ txie \in BOOLEAN
  BY DEF TypeOK
<1>1. CASE Shift
  <2>1. tsr' = NoByte => txFifo' = << >>
    BY <1>1, ShiftLen
  <2>2. Len(txFifo') + Bit(txif') + Bit(isr' # "off") <= FifoDepth
    <3>1. isr' = isr
      BY <1>1 DEF Shift
    <3>2. Len(txFifo') + Bit(txif') <= Len(txFifo) + Bit(txif)
      BY <1>0, <1>1, ShiftLen DEF Bit
    <3>3. Bit(isr # "off") \in Nat /\ Bit(txif) \in Nat /\ Bit(txif') \in Nat
      BY DEF Bit
    <3>4. QED
      BY <1>0, <3>1, <3>2, <3>3 DEF RoomInv
  <2>3. ~Utxbf => ~Utxbf'
    BY <1>0, <1>1, ShiftLen DEF Utxbf, TypeOK
  <2>4. QED
    BY <1>1, <2>1, <2>2, <2>3 DEF RoomInv, Shift, RingEmpty
<1>2. CASE IsrEnter
  BY <1>0, <1>2 DEF IsrEnter, RoomInv, Bit, RingEmpty, Utxbf
<1>3. CASE IsrCallbackEmpty
  BY <1>0, <1>3 DEF IsrCallbackEmpty, RoomInv, Bit, RingEmpty, Utxbf
<1>4. CASE IsrCallbackData
  BY <1>0, <1>4 DEF IsrCallbackData, RoomInv, Bit, RingEmpty, Utxbf
<1>5. CASE IsrTxreg
  <2>1. isrData \in Byte
    BY <1>5 DEF IsrTxreg, BytesInv
  <2>2. Len(txFifo) + Bit(txif) + 1 <= FifoDepth /\ Len(txFifo) < FifoDepth
    BY <1>0, <1>5 DEF IsrTxreg, RoomInv, Bit
  <2>3. /\ tsr' # NoByte
        /\ \/ tsr = NoByte /\ UNCHANGED txFifo /\ txif'
           \/ tsr # NoByte /\ Len(txFifo') = Len(txFifo) + 1 /\ UNCHANGED txif
    BY <1>5, <2>1, <2>2, WriteTxregLen DEF IsrTxreg, RoomInv
  <2>4. Len(txFifo') + Bit(txif') + Bit(isr' # "off") <= FifoDepth
    <3>1. CASE tsr = NoByte
      <4>1. Len(txFifo) = 0
        BY <3>1 DEF RoomInv
      <4>2. QED
        BY <1>0, <1>5, <2>3, <3>1, <4>1 DEF IsrTxreg, Bit
    <3>2. CASE tsr # NoByte
      BY <1>0, <1>5, <2>2, <2>3, <3>2 DEF IsrTxreg, Bit
    <3>3. QED
      BY <3>1, <3>2
  <2>5. QED
    BY <1>5, <2>3, <2>4 DEF IsrTxreg, RoomInv, RingEmpty
<1>6. CASE SendCall \/ TestRingEmpty \/ TestUtxbf \/ TestRingFull \/ IdleSleep
  BY <1>0, <1>6 DEF SendCall, TestRingEmpty, TestUtxbf, TestRingFull, IdleSleep,
    Goto, MainRuns, RoomInv, RingEmpty, Utxbf, Bit
<1>7. CASE SendDirect
  <2>1. /\ pc = "txreg" /\ isr = "off" /\ ~txif
        /\ Len(txFifo) < FifoDepth
    BY <1>0, <1>7 DEF SendDirect, Goto, MainRuns, RoomInv, Utxbf, TypeOK
  <2>2. /\ tsr' # NoByte
        /\ \/ tsr = NoByte /\ UNCHANGED txFifo /\ txif'
           \/ tsr # NoByte /\ Len(txFifo') = Len(txFifo) + 1 /\ UNCHANGED txif
    BY <1>7, <2>1, WriteTxregLen DEF SendDirect, RoomInv, TypeOK
  <2>3. Len(txFifo') + Bit(txif') + Bit(isr' # "off") <= FifoDepth
    <3>1. CASE tsr = NoByte
      <4>1. Len(txFifo) = 0
        BY <3>1 DEF RoomInv
      <4>2. QED
        BY <1>0, <1>7, <2>1, <2>2, <3>1, <4>1 DEF SendDirect, Bit
    <3>2. CASE tsr # NoByte
      BY <1>0, <1>7, <2>1, <2>2, <3>2 DEF SendDirect, Bit
    <3>3. QED
      BY <3>1, <3>2
  <2>4. QED
    BY <1>7, <2>2, <2>3 DEF SendDirect, Goto, RoomInv
<1>8. CASE DisableTxInterrupt
  BY <1>0, <1>8 DEF DisableTxInterrupt, Goto, RoomInv, Utxbf, Bit
<1>9. CASE AppendToRing
  BY <1>0, <1>9 DEF AppendToRing, Goto, RoomInv, Utxbf, Bit
<1>10. CASE EnableTxInterrupt
  BY <1>0, <1>10 DEF EnableTxInterrupt, Goto, RoomInv, Utxbf, Bit
<1>11. CASE UNCHANGED vars
  BY <1>11 DEF vars, RoomInv, RingEmpty, Utxbf, Bit
<1>12. QED
  BY <1>1, <1>2, <1>3, <1>4, <1>5, <1>6, <1>7, <1>8, <1>9, <1>10, <1>11
  DEF Next, Isr, SendChar

(* The interrupt writes UxTXREG without a test, and uart_transmit_byte     *)
(* some time after its test; yet whatever the interleaving and however     *)
(* long the code is held up, no byte is written to a full FIFO.            *)
THEOREM TxNeverOverflows == Spec => []TxregHasRoom
<1>1. Init => TypeInv /\ RoomInv
  BY TypeInit, RoomInit
<1>2. TypeInv /\ RoomInv /\ [Next]_vars => TypeInv' /\ RoomInv'
  BY TypeStep, RoomStep DEF TypeInv
<1>3. TypeInv /\ RoomInv => TxregHasRoom
  <2> SUFFICES ASSUME TypeInv, RoomInv PROVE TxregHasRoom
    OBVIOUS
  <2>1. Len(txFifo) \in Nat /\ Bit(txif) \in Nat
    BY DEF TypeInv, TypeOK, Bit
  <2>2. CASE isr = "txreg"
    <3>1. Len(txFifo) + Bit(txif) + 1 <= FifoDepth
      BY <2>2 DEF RoomInv, Bit
    <3>2. QED
      BY <2>1, <3>1, TxAssumption DEF TxregHasRoom, Utxbf
  <2>3. CASE isr # "txreg"
    BY <2>3 DEF RoomInv, TxregHasRoom
  <2>4. QED
    BY <2>2, <2>3
<1>4. QED
  BY <1>1, <1>2, <1>3, PTL DEF Spec

-----------------------------------------------------------------------------
LEMMA PromptInit == Init => PromptInv
BY TxAssumption DEF Init, PromptInv, Loaded, Queueing, RingEmpty

LEMMA PromptStep ==
  ASSUME Prompt, TypeInv, TypeInv', RoomInv, PromptInv, [Next]_vars
  PROVE  PromptInv'
<1> USE TxAssumption
    DEF Prompt, TypeInv, ringVars, uartVars, isrVars, mainVars
<1>0. /\ Len(txFifo) \in Nat /\ Len(txFifo') \in Nat
      /\ txif \in BOOLEAN /\ txif' \in BOOLEAN /\ txie \in BOOLEAN
      /\ lag \in {0, 1} /\ lag' \in {0, 1}
      /\ FifoDepth \in Nat
  BY DEF TypeOK
<1>a. /\ writePos \in Slot /\ transmitPos \in Slot
      /\ After(writePos) \in Slot /\ After(transmitPos) \in Slot
      /\ After(After(writePos)) \in Slot
      /\ After(writePos) = IF writePos = N - 1 THEN 0 ELSE writePos + 1
      /\ After(transmitPos) = IF transmitPos = N - 1 THEN 0 ELSE transmitPos + 1
      /\ After(After(writePos)) =
           IF After(writePos) = N - 1 THEN 0 ELSE After(writePos) + 1
  BY AfterSlot DEF TypeOK
<1>1. CASE Shift
  <2>1. lag = 0 /\ (Hurried' => lag' = 1)
    BY <1>0, <1>1 DEF Shift, BytesInv
  <2>2. /\ UNCHANGED <<isr, pc, writePos, transmitPos>>
        /\ (RingEmpty' <=> RingEmpty) /\ (RingFull' <=> RingFull)
    BY <1>1 DEF Shift, RingEmpty, RingFull
  <2>3. CASE txFifo = << >>
    <3>1. Len(txFifo) = 0 /\ UNCHANGED txif
      BY <1>1, <2>3 DEF Shift
    <3>2. Quiet \/ pc = "out"
      BY <1>0, <2>1 DEF PromptInv
    <3>3. ~Loaded /\ ~Queueing
      BY <1>0, <2>1, <3>1 DEF PromptInv, Loaded, Quiet
    <3>4. pc # "doze" \/ RingFull
      BY <2>1 DEF PromptInv
    <3>5. QED
      BY <2>2, <3>1, <3>2, <3>3, <3>4 DEF PromptInv, Loaded, Queueing, Quiet
  <2>4. CASE txFifo # << >>
    <3>1. txif' /\ tsr' # NoByte /\ Len(txFifo') = Len(txFifo) - 1
      BY <1>1, <2>4, ShiftLen
    <3>2. Hurried'
      BY <1>1, <3>1 DEF Shift, Hurried, RoomInv
    <3>3. QED
      BY <1>0, <2>1, <2>2, <3>1, <3>2 DEF PromptInv, Loaded, Queueing, Quiet, After
  <2>5. QED
    BY <2>3, <2>4
<1>2. CASE IsrEnter
  <2>1. lag' = lag
    BY <1>2 DEF IsrEnter, Pace, Hurried
  <2>2. /\ isr = "off" /\ isr' = "callback" /\ ~Quiet /\ ~txif'
        /\ UNCHANGED <<txFifo, tsr, writePos, transmitPos>>
        /\ (RingEmpty' <=> RingEmpty) /\ (RingFull' <=> RingFull)
    BY <1>2 DEF IsrEnter, Quiet, RingEmpty, RingFull
  <2>3. \/ pc' = pc /\ pc # "asleep"
        \/ pc' = "full" /\ pc = "asleep" /\ Loaded
    BY <1>2 DEF IsrEnter, PromptInv, Loaded
  <2>4. Loaded' <=> Loaded
    BY <2>2 DEF Loaded
  <2>5. QED
    BY <1>0, <2>1, <2>2, <2>3, <2>4 DEF PromptInv, Queueing, Quiet, Loaded
<1>3. CASE IsrCallbackEmpty
  BY <1>0, <1>3 DEF IsrCallbackEmpty, Pace, Hurried, RoomInv, PromptInv, Loaded,
    Queueing, Quiet, RingEmpty, RingFull
<1>4. CASE IsrCallbackData
  <2>1. lag' = lag /\ Loaded /\ Loaded' /\ ~Quiet /\ ~Quiet' /\ lag = 1
    BY <1>4 DEF IsrCallbackData, Pace, Hurried, Loaded, Quiet, PromptInv
  <2>2. RingFull => After(After(writePos)) = After(transmitPos)
    BY DEF RingFull
  <2>3. QED
    BY <1>0, <1>4, <2>1, <2>2
    DEF IsrCallbackData, PromptInv, Loaded, Queueing, Quiet, RingEmpty, RingFull
<1>5. CASE IsrTxreg
  <2>1. /\ isrData \in Byte /\ Len(txFifo) < FifoDepth
        /\ tsr # NoByte /\ ~txif /\ lag = 1 /\ Len(txFifo) >= FifoDepth - 2
    BY <1>0, <1>5 DEF IsrTxreg, BytesInv, RoomInv, Bit, PromptInv, Loaded, Quiet
  <2>2. tsr' # NoByte /\ ~txif' /\ Len(txFifo') = Len(txFifo) + 1
    BY <1>5, <2>1, WriteTxregLen DEF IsrTxreg, RoomInv
  <2>3. pc \notin {"out", "asleep"} => lag' = 1
    BY <1>5, <2>1 DEF IsrTxreg, Pace, Hurried
  <2>4. QED
    BY <1>0, <1>5, <2>1, <2>2, <2>3
    DEF IsrTxreg, PromptInv, Loaded, Queueing, Quiet, RingEmpty, RingFull
<1>6. CASE SendCall \/ TestRingEmpty \/ TestUtxbf
  BY <1>0, <1>6 DEF SendCall, TestRingEmpty, TestUtxbf, Goto, MainRuns, Pace,
    Hurried, RoomInv, PromptInv, Loaded, Queueing, Quiet, RingEmpty, Utxbf
<1>7. CASE TestRingFull
  BY <1>0, <1>7 DEF TestRingFull, Goto, MainRuns, Pace, Hurried, RoomInv,
    PromptInv, Loaded, Queueing, Quiet, RingEmpty, RingFull
<1>8. CASE IdleSleep
  <2>1. ~RingEmpty /\ Quiet
    BY <1>a, <1>8 DEF IdleSleep, Goto, MainRuns, PromptInv, RoomInv, Quiet,
      RingEmpty, RingFull, Slot
  <2>2. QED
    BY <1>0, <1>8, <2>1 DEF IdleSleep, Goto, MainRuns, PromptInv, Loaded, Queueing,
      Quiet, RingEmpty
<1>9. CASE SendDirect
  <2>1. RingEmpty /\ isr = "off"
    BY <1>9 DEF SendDirect, Goto, MainRuns, RoomInv
  <2>2. QED
    BY <1>9, <2>1 DEF SendDirect, Goto, PromptInv, Loaded, Queueing, RingEmpty
<1>10. CASE DisableTxInterrupt
  BY <1>0, <1>10 DEF DisableTxInterrupt, Goto, Pace, Hurried, PromptInv, Loaded,
    Queueing, Quiet, RingEmpty
<1>11. CASE AppendToRing
  <2>1. lag' = lag /\ isr = "off" /\ Queueing /\ pc' = "unmask"
    BY <1>11 DEF AppendToRing, Goto, MainRuns, Pace, Hurried, Queueing
  <2>2. tsr # NoByte
    BY <2>1 DEF PromptInv
  <2>3. Quiet => Len(txFifo) >= FifoDepth - 1
    BY <1>0, <2>1 DEF PromptInv, Loaded, Quiet
  <2>4. ~Quiet => lag = 1 /\ Len(txFifo) >= FifoDepth - 2
    BY <1>0, <1>11, <2>1 DEF AppendToRing, Goto, PromptInv, Loaded
  <2>5. QED
    BY <1>0, <1>11, <2>1, <2>2, <2>3, <2>4
    DEF AppendToRing, PromptInv, Loaded, Queueing, Quiet
<1>12. CASE EnableTxInterrupt
  <2>1. ~Quiet => lag' = lag
    BY <1>0, <1>12 DEF EnableTxInterrupt, Goto, MainRuns, Pace, Hurried, RoomInv, Quiet
  <2>2. QED
    BY <1>0, <1>12, <2>1 DEF EnableTxInterrupt, Goto, MainRuns, PromptInv, Loaded,
      Queueing, Quiet, RingEmpty
<1>13. CASE UNCHANGED vars
  BY <1>13 DEF vars, PromptInv, Loaded, Queueing, Quiet, RingEmpty, RingFull
<1>14. QED
  BY <1>1, <1>2, <1>3, <1>4, <1>5, <1>6, <1>7, <1>8, <1>9, <1>10, <1>11, <1>12,
    <1>13 DEF Next, Isr, SendChar

(* With a FIFO of two bytes or more and at most one byte gone from it in a *)
(* stretch of code that the source calls fast, a byte put into the ring is *)
(* always going to be sent.  With Patience = 4 NeverStranded is violated:  *)
(* the "4 bytes" the comment in the source allows are not enough.          *)
THEOREM TxNeverStranded ==
  ASSUME Prompt
  PROVE  Spec => []NeverStranded
<1>1. Init => TypeInv /\ RoomInv /\ PromptInv
  BY TypeInit, RoomInit, PromptInit
<1>2. TypeInv /\ RoomInv /\ PromptInv /\ [Next]_vars
        => TypeInv' /\ RoomInv' /\ PromptInv'
  BY TypeStep, RoomStep, PromptStep DEF TypeInv
<1>3. TypeInv /\ PromptInv => NeverStranded
  <2> SUFFICES ASSUME TypeInv, PromptInv, ~RingEmpty, Quiet PROVE txFifo # << >>
    BY DEF NeverStranded, Quiet
  <2>1. Len(txFifo) >= 1
    BY TxAssumption DEF PromptInv, Prompt, TypeInv, TypeOK
  <2>2. QED
    BY <2>1
<1>4. QED
  BY <1>1, <1>2, <1>3, PTL DEF Spec

-----------------------------------------------------------------------------
(* The ring of SerialTx is one of Rings. *)
LEMMA RingIs ==
  /\ N \in Nat \ {0, 1} /\ Slot = Slots(N)
  /\ \A p : After(p) = Wrap(N, p)
BY TxAssumption DEF Slot, Slots, After, Wrap

(* Concatenation, kept opaque in the algebra below. *)
Cat(s, t) == s \o t

LEMMA HeldFacts ==
  ASSUME NEW b \in Byte
  PROVE  Held(b) = <<b>> /\ Held(b) \in Seq(Byte) /\ Len(Held(b)) = 1
<1>1. b # NoByte
  BY TxAssumption DEF Byte, NoByte
<1>2. QED
  BY <1>1 DEF Held

LEMMA NothingHeld ==
  Held(NoByte) = << >> /\ Held(NoByte) \in Seq(Byte) /\ Len(Held(NoByte)) = 0
BY DEF Held

LEMMA CatType ==
  ASSUME NEW s \in Seq(Byte), NEW t \in Seq(Byte)
  PROVE  Cat(s, t) \in Seq(Byte) /\ Len(Cat(s, t)) = Len(s) + Len(t)
BY ConcatProperties DEF Cat

LEMMA CatAssoc ==
  ASSUME NEW s \in Seq(Byte), NEW t \in Seq(Byte), NEW u \in Seq(Byte)
  PROVE  Cat(Cat(s, t), u) = Cat(s, Cat(t, u))
BY ConcatAssociative DEF Cat

LEMMA CatNothing ==
  ASSUME NEW s \in Seq(Byte)
  PROVE  Cat(Held(NoByte), s) = s /\ Cat(s, Held(NoByte)) = s
BY NothingHeld, ConcatEmptySeq DEF Cat

LEMMA CatHeld ==
  ASSUME NEW b \in Byte, NEW s \in Seq(Byte)
  PROVE  /\ Cat(Held(b), s) # << >>
         /\ Head(Cat(Held(b), s)) = b /\ Tail(Cat(Held(b), s)) = s
<1>1. Held(b) = <<b>>
  BY HeldFacts
<1>2. Cat(Held(b), s) = <<b>> \o s
  BY <1>1 DEF Cat
<1>3. QED
  BY <1>2, ConsHead

LEMMA CatSplit ==
  ASSUME NEW s \in Seq(Byte), s # << >>
  PROVE  /\ Head(s) \in Byte /\ Tail(s) \in Seq(Byte)
         /\ Cat(Held(Head(s)), Tail(s)) = s
<1>1. Head(s) \in Byte /\ Tail(s) \in Seq(Byte)
  BY HeadTailProperties
<1>2. Held(Head(s)) = <<Head(s)>>
  BY <1>1, HeldFacts
<1>3. s = <<Head(s)>> \o Tail(s)
  BY HeadCons
<1>4. QED
  BY <1>1, <1>2, <1>3 DEF Cat

LEMMA CatAppend ==
  ASSUME NEW s \in Seq(Byte), NEW b \in Byte
  PROVE  Append(s, b) \in Seq(Byte) /\ Append(s, b) = Cat(s, Held(b))
<1>1. Held(b) = <<b>>
  BY HeldFacts
<1>2. Append(s, b) \in Seq(Byte) /\ Append(s, b) = s \o <<b>>
  BY AppendProperties, AppendIsConcat
<1>3. QED
  BY <1>1, <1>2 DEF Cat

(* InFlight as a function of its parts: the shift register, the FIFO, the *)
(* byte the interrupt has in hand, the ring.                               *)
Queue(a, f, b, d) == Cat(Cat(Cat(Held(a), f), Held(b)), d)

LEMMA QueueNested ==
  ASSUME NEW a, Held(a) \in Seq(Byte), NEW f \in Seq(Byte),
         NEW b, Held(b) \in Seq(Byte), NEW d \in Seq(Byte)
  PROVE  /\ Cat(Held(b), d) \in Seq(Byte)
         /\ Cat(f, Cat(Held(b), d)) \in Seq(Byte)
         /\ Queue(a, f, b, d) = Cat(Held(a), Cat(f, Cat(Held(b), d)))
         /\ Queue(a, f, b, d) \in Seq(Byte)
<1>1. /\ Cat(Held(b), d) \in Seq(Byte)
      /\ Cat(f, Cat(Held(b), d)) \in Seq(Byte)
      /\ Cat(Held(a), f) \in Seq(Byte)
      /\ Cat(Held(a), Cat(f, Cat(Held(b), d))) \in Seq(Byte)
  BY CatType
<1>2. Cat(Cat(Cat(Held(a), f), Held(b)), d) = Cat(Cat(Held(a), f), Cat(Held(b), d))
  BY <1>1, CatAssoc
<1>3. Cat(Cat(Held(a), f), Cat(Held(b), d)) = Cat(Held(a), Cat(f, Cat(Held(b), d)))
  BY <1>1, CatAssoc
<1>4. QED
  BY <1>1, <1>2, <1>3 DEF Queue

LEMMA QueueLen ==
  ASSUME NEW a, Held(a) \in Seq(Byte), NEW f \in Seq(Byte),
         NEW b, Held(b) \in Seq(Byte), NEW d \in Seq(Byte)
  PROVE  Len(Queue(a, f, b, d)) = Len(Held(a)) + Len(f) + Len(Held(b)) + Len(d)
<1>1. /\ Cat(Held(b), d) \in Seq(Byte) /\ Len(Cat(Held(b), d)) = Len(Held(b)) + Len(d)
  BY CatType
<1>2. /\ Cat(f, Cat(Held(b), d)) \in Seq(Byte)
      /\ Len(Cat(f, Cat(Held(b), d))) = Len(f) + Len(Cat(Held(b), d))
  BY <1>1, CatType
<1>3. Len(Cat(Held(a), Cat(f, Cat(Held(b), d))))
        = Len(Held(a)) + Len(Cat(f, Cat(Held(b), d)))
  BY <1>2, CatType
<1>4. Queue(a, f, b, d) = Cat(Held(a), Cat(f, Cat(Held(b), d)))
  BY QueueNested
<1>5. /\ Len(Held(a)) \in Nat /\ Len(f) \in Nat
      /\ Len(Held(b)) \in Nat /\ Len(d) \in Nat
  OBVIOUS
<1>6. QED
  BY <1>1, <1>2, <1>3, <1>4, <1>5

(* A byte leaves the shift register: the head of the queue is removed,     *)
(* whether the FIFO refills the register or not.                           *)
LEMMA QueueDry ==
  ASSUME NEW a \in Byte, NEW f \in Seq(Byte),
         NEW b, Held(b) \in Seq(Byte), NEW d \in Seq(Byte)
  PROVE  /\ Queue(a, f, b, d) # << >>
         /\ Head(Queue(a, f, b, d)) = a
         /\ Tail(Queue(a, f, b, d)) = Queue(NoByte, f, b, d)
<1>1. Held(a) \in Seq(Byte) /\ Held(NoByte) \in Seq(Byte)
  BY HeldFacts, NothingHeld
<1>2. /\ Cat(f, Cat(Held(b), d)) \in Seq(Byte)
      /\ Queue(a, f, b, d) = Cat(Held(a), Cat(f, Cat(Held(b), d)))
      /\ Queue(NoByte, f, b, d) = Cat(Held(NoByte), Cat(f, Cat(Held(b), d)))
  <2>1. /\ Cat(f, Cat(Held(b), d)) \in Seq(Byte)
        /\ Queue(a, f, b, d) = Cat(Held(a), Cat(f, Cat(Held(b), d)))
    BY <1>1, QueueNested
  <2>2. Queue(NoByte, f, b, d) = Cat(Held(NoByte), Cat(f, Cat(Held(b), d)))
    BY <1>1, QueueNested
  <2>3. QED
    BY <2>1, <2>2
<1>3. Queue(NoByte, f, b, d) = Cat(f, Cat(Held(b), d))
  BY <1>2, CatNothing
<1>4. QED
  BY <1>2, <1>3, CatHeld

LEMMA QueueShift ==
  ASSUME NEW a \in Byte, NEW f \in Seq(Byte), f # << >>,
         NEW b, Held(b) \in Seq(Byte), NEW d \in Seq(Byte)
  PROVE  /\ Queue(a, f, b, d) # << >>
         /\ Head(Queue(a, f, b, d)) = a
         /\ Tail(Queue(a, f, b, d)) = Queue(Head(f), Tail(f), b, d)
<1> DEFINE h == Head(f)
           t == Tail(f)
<1>1. h \in Byte /\ t \in Seq(Byte) /\ Cat(Held(h), t) = f
  BY CatSplit
<1> HIDE DEF h, t
<1>2. Held(a) \in Seq(Byte) /\ Held(h) \in Seq(Byte)
  BY <1>1, HeldFacts
<1>3. /\ Cat(Held(b), d) \in Seq(Byte) /\ Cat(f, Cat(Held(b), d)) \in Seq(Byte)
      /\ Queue(a, f, b, d) = Cat(Held(a), Cat(f, Cat(Held(b), d)))
      /\ Queue(h, t, b, d) = Cat(Held(h), Cat(t, Cat(Held(b), d)))
  <2>1. /\ Cat(Held(b), d) \in Seq(Byte) /\ Cat(f, Cat(Held(b), d)) \in Seq(Byte)
        /\ Queue(a, f, b, d) = Cat(Held(a), Cat(f, Cat(Held(b), d)))
    BY <1>2, QueueNested
  <2>2. Queue(h, t, b, d) = Cat(Held(h), Cat(t, Cat(Held(b), d)))
    BY <1>1, <1>2, QueueNested
  <2>3. QED
    BY <2>1, <2>2
<1>4. Cat(Cat(Held(h), t), Cat(Held(b), d)) = Cat(Held(h), Cat(t, Cat(Held(b), d)))
  BY <1>1, <1>2, <1>3, CatAssoc
<1>5. Queue(h, t, b, d) = Cat(f, Cat(Held(b), d))
  BY <1>1, <1>3, <1>4
<1>6. /\ Queue(a, f, b, d) # << >>
      /\ Head(Queue(a, f, b, d)) = a
      /\ Tail(Queue(a, f, b, d)) = Queue(h, t, b, d)
  BY <1>3, <1>5, CatHeld
<1>7. QED
  BY <1>6 DEF h, t

(* The byte in hand moves into the UART: the queue does not change. *)
LEMMA QueueIdleWrite ==
  ASSUME NEW f \in Seq(Byte), f = << >>, NEW b \in Byte, NEW d \in Seq(Byte)
  PROVE  Queue(NoByte, f, b, d) = Queue(b, f, NoByte, d)
<1>1. /\ Held(b) \in Seq(Byte) /\ Held(NoByte) \in Seq(Byte)
      /\ f = Held(NoByte)
  BY HeldFacts, NothingHeld
<1>2. /\ Cat(Held(b), d) \in Seq(Byte)
      /\ Queue(NoByte, f, b, d) = Cat(Held(NoByte), Cat(f, Cat(Held(b), d)))
      /\ Queue(b, f, NoByte, d) = Cat(Held(b), Cat(f, Cat(Held(NoByte), d)))
  <2>1. /\ Cat(Held(b), d) \in Seq(Byte)
        /\ Queue(NoByte, f, b, d) = Cat(Held(NoByte), Cat(f, Cat(Held(b), d)))
    BY <1>1, QueueNested
  <2>2. Queue(b, f, NoByte, d) = Cat(Held(b), Cat(f, Cat(Held(NoByte), d)))
    BY <1>1, QueueNested
  <2>3. QED
    BY <2>1, <2>2
<1> HIDE DEF Held
<1>3. Queue(NoByte, f, b, d) = Cat(Held(b), d)
  BY <1>1, <1>2, CatNothing
<1>4. Queue(b, f, NoByte, d) = Cat(Held(b), d)
  BY <1>1, <1>2, CatNothing
<1>5. QED
  BY <1>3, <1>4

LEMMA QueueFifoWrite ==
  ASSUME NEW a, Held(a) \in Seq(Byte), NEW f \in Seq(Byte), NEW b \in Byte,
         NEW d \in Seq(Byte)
  PROVE  Queue(a, f, b, d) = Queue(a, Append(f, b), NoByte, d)
<1> DEFINE g == Append(f, b)
<1>1. g \in Seq(Byte) /\ g = Cat(f, Held(b))
  BY CatAppend
<1> HIDE DEF g
<1>2. Held(b) \in Seq(Byte) /\ Held(NoByte) \in Seq(Byte)
  BY HeldFacts, NothingHeld
<1>3. /\ Queue(a, f, b, d) = Cat(Held(a), Cat(f, Cat(Held(b), d)))
      /\ Queue(a, g, NoByte, d) = Cat(Held(a), Cat(g, Cat(Held(NoByte), d)))
  BY <1>1, <1>2, QueueNested
<1>4. Cat(Cat(f, Held(b)), d) = Cat(f, Cat(Held(b), d))
  BY <1>2, CatAssoc
<1>5. Cat(Held(NoByte), d) = d
  BY CatNothing
<1>6. Queue(a, f, b, d) = Queue(a, g, NoByte, d)
  BY <1>1, <1>3, <1>4, <1>5
<1>7. QED
  BY <1>6 DEF g

(* A byte moves from the ring to the interrupt's hand: nor does it here. *)
LEMMA QueueTake ==
  ASSUME NEW a, Held(a) \in Seq(Byte), NEW f \in Seq(Byte), NEW b \in Byte,
         NEW d \in Seq(Byte)
  PROVE  Queue(a, f, NoByte, Cat(Held(b), d)) = Queue(a, f, b, d)
<1>1. Held(b) \in Seq(Byte) /\ Held(NoByte) \in Seq(Byte)
  BY HeldFacts, NothingHeld
<1>2. /\ Cat(Held(b), d) \in Seq(Byte)
      /\ Queue(a, f, b, d) = Cat(Held(a), Cat(f, Cat(Held(b), d)))
  BY <1>1, QueueNested
<1>3. Queue(a, f, NoByte, Cat(Held(b), d))
        = Cat(Held(a), Cat(f, Cat(Held(NoByte), Cat(Held(b), d))))
  BY <1>1, <1>2, QueueNested
<1>4. QED
  BY <1>2, <1>3, CatNothing

(* A byte put into the ring is put at the end of the queue. *)
Put(s, b) == Append(s, b)

LEMMA QueueAdd ==
  ASSUME NEW a, Held(a) \in Seq(Byte), NEW f \in Seq(Byte),
         NEW b, Held(b) \in Seq(Byte), NEW d \in Seq(Byte), NEW e \in Byte
  PROVE  Queue(a, f, b, Put(d, e)) = Put(Queue(a, f, b, d), e)
<1> DEFINE h == Cat(Cat(Held(a), f), Held(b))
           x == Append(d, e)
           y == Append(Queue(a, f, b, d), e)
<1>1. x = Cat(d, Held(e)) /\ Held(e) \in Seq(Byte)
  BY CatAppend, HeldFacts
<1>2. Queue(a, f, b, d) \in Seq(Byte)
  BY QueueNested
<1>3. y = Cat(Queue(a, f, b, d), Held(e))
  BY <1>2, CatAppend
<1> HIDE DEF x, y
<1>4. Cat(Held(a), f) \in Seq(Byte)
  BY CatType
<1>5. h \in Seq(Byte)
  BY <1>4, CatType
<1>6. Queue(a, f, b, d) = Cat(h, d) /\ Queue(a, f, b, x) = Cat(h, x)
  BY DEF Queue
<1> HIDE DEF h
<1>7. Cat(Cat(h, d), Held(e)) = Cat(h, Cat(d, Held(e)))
  BY <1>1, <1>5, CatAssoc
<1>8. Queue(a, f, b, x) = y
  BY <1>1, <1>3, <1>6, <1>7
<1>9. Put(d, e) = x /\ Put(Queue(a, f, b, d), e) = y
  BY DEF Put, x, y
<1>10. QED
  BY <1>8, <1>9

-----------------------------------------------------------------------------
(* Between the ring and UxTXREG the interrupt has at most one byte in hand, *)
(* and no character is appended to a full ring, although the test was made *)
(* two steps earlier: the interrupt only makes room.                       *)
StreamInv ==
  /\ isr # "txreg" => isrData = NoByte
  /\ pc \in {"mask", "append"} => ~RingFull

LEMMA StreamInit == Init => StreamInv
BY DEF Init, StreamInv

LEMMA StreamStep ==
  ASSUME TypeInv, StreamInv, [Next]_vars
  PROVE  StreamInv'
<1> USE DEF ringVars, uartVars, isrVars, mainVars, RingFull
<1>1. CASE Shift
  BY <1>1 DEF Shift, StreamInv
<1>2. CASE IsrEnter \/ IsrCallbackEmpty \/ IsrTxreg
  BY <1>2 DEF IsrEnter, IsrCallbackEmpty, IsrTxreg, StreamInv
<1>3. CASE IsrCallbackData
  <2>1. After(writePos) \in Slot /\ transmitPos \in Slot /\ writePos \in Slot
    BY AfterSlot DEF TypeInv, TypeOK
  <2>2. After(writePos) = IF writePos = N - 1 THEN 0 ELSE writePos + 1
    BY AfterSlot DEF TypeInv, TypeOK
  <2>3. After(transmitPos) = IF transmitPos = N - 1 THEN 0 ELSE transmitPos + 1
    BY AfterSlot DEF TypeInv, TypeOK
  <2>4. After(writePos) # After(transmitPos)
    BY <1>3, <2>1, <2>2, <2>3, TxAssumption DEF IsrCallbackData, RingEmpty, Slot
  <2>5. QED
    BY <1>3, <2>4 DEF IsrCallbackData, StreamInv
<1>4. CASE SendCall \/ SendChar
  BY <1>4 DEF SendCall, SendChar, TestRingEmpty, TestUtxbf, SendDirect, TestRingFull,
    IdleSleep, DisableTxInterrupt, AppendToRing, EnableTxInterrupt, Goto, MainRuns,
    StreamInv
<1>5. CASE UNCHANGED vars
  BY <1>5 DEF vars, StreamInv
<1>6. QED
  BY <1>1, <1>2, <1>3, <1>4, <1>5 DEF Next, Isr

LEMMA RingSeqIs ==
  /\ RingSeq = Content(N, ring, transmitPos, Count(N, writePos, transmitPos))
  /\ RingSeq' = Content(N, ring', transmitPos', Count(N, writePos', transmitPos'))
BY DEF RingSeq, RingCount, Content, Count

LEMMA InFlightIs ==
  /\ InFlight = Queue(tsr, txFifo, isrData, RingSeq)
  /\ InFlight' = Queue(tsr', txFifo', isrData', RingSeq')
BY DEF InFlight, Queue, Cat

LEMMA FlowTypes ==
  ASSUME TypeInv
  PROVE  /\ Held(tsr) \in Seq(Byte) /\ Len(Held(tsr)) \in 0 .. 1
         /\ Held(isrData) \in Seq(Byte)
         /\ txFifo \in Seq(Byte) /\ Len(txFifo) \in Nat
         /\ RingSeq \in Seq(Byte) /\ Len(RingSeq) = Count(N, writePos, transmitPos)
         /\ Filled(N, Byte, ring, writePos, transmitPos)
<1>1. tsr \in Byte \cup {NoByte} /\ isrData \in Byte \cup {NoByte}
  BY DEF TypeInv, TypeOK
<1>2. Held(tsr) \in Seq(Byte) /\ Len(Held(tsr)) \in 0 .. 1
  <2>1. CASE tsr \in Byte
    BY <2>1, HeldFacts
  <2>2. CASE tsr = NoByte
    BY <2>2, NothingHeld
  <2>3. QED
    BY <1>1, <2>1, <2>2
<1>3. Held(isrData) \in Seq(Byte)
  BY <1>1, HeldFacts, NothingHeld
<1>4. Filled(N, Byte, ring, writePos, transmitPos)
  BY RingIs DEF TypeInv, BytesInv, Occupied, In, Filled
<1>5. writePos \in Slot /\ transmitPos \in Slot
  BY DEF TypeInv, TypeOK
<1>6. RingSeq \in Seq(Byte) /\ Len(RingSeq) = Count(N, writePos, transmitPos)
  <2>1. N \in Nat \ {0, 1} /\ writePos \in Slots(N) /\ transmitPos \in Slots(N)
    BY <1>5, RingIs
  <2>2. Spells(N, Byte, ring, transmitPos, Count(N, writePos, transmitPos))
    BY <1>4, <2>1, RingTyped
  <2>3. QED
    BY <2>2, RingSeqIs DEF Spells
<1>7. txFifo \in Seq(Byte) /\ Len(txFifo) \in Nat
  BY DEF TypeInv, TypeOK
<1>8. QED
  BY <1>2, <1>3, <1>4, <1>6, <1>7

(* A write of UxTXREG with room in the FIFO loses nothing. *)
LEMMA WriteTxregQueue ==
  ASSUME TypeOK, NEW b \in Byte, WriteTxreg(b), Len(txFifo) < FifoDepth,
         tsr = NoByte => txFifo = << >>, NEW d \in Seq(Byte)
  PROVE  Queue(tsr', txFifo', NoByte, d) = Queue(tsr, txFifo, b, d)
<1>1. ~Utxbf /\ txFifo \in Seq(Byte) /\ tsr \in Byte \cup {NoByte}
  BY TxAssumption DEF Utxbf, TypeOK
<1>2. CASE tsr = NoByte
  <2>1. txFifo' = txFifo /\ tsr' = b /\ txFifo = << >>
    BY <1>2 DEF WriteTxreg
  <2>2. Queue(NoByte, txFifo, b, d) = Queue(b, txFifo, NoByte, d)
    BY <1>1, <2>1, QueueIdleWrite
  <2>3. QED
    BY <1>2, <2>1, <2>2
<1>3. CASE tsr # NoByte
  <2>1. txFifo' = Append(txFifo, b) /\ tsr' = tsr
    BY <1>1, <1>3 DEF WriteTxreg
  <2>2. Held(tsr) \in Seq(Byte)
    BY <1>1, <1>3, HeldFacts
  <2>3. Queue(tsr, txFifo, b, d) = Queue(tsr, Append(txFifo, b), NoByte, d)
    BY <1>1, <2>2, QueueFifoWrite
  <2>4. QED
    BY <2>1, <2>3
<1>4. QED
  BY <1>2, <1>3

(* The steps that move bytes, one by one. *)
LEMMA ShiftDelivers ==
  ASSUME TypeInv, Shift
  PROVE  Stream!Deliver
<1>1. UNCHANGED <<ring, writePos, transmitPos, isrData, next>> /\ wire' = tsr
  BY DEF Shift, ringVars, isrVars, mainVars
<1>2. RingSeq' = RingSeq
  BY <1>1, RingSeqIs
<1>3. tsr \in Byte
  BY DEF Shift, TypeInv, TypeOK
<1>4. CASE txFifo = << >>
  <2>1. tsr' = NoByte /\ txFifo' = txFifo
    BY <1>4 DEF Shift
  <2>2. InFlight' = Queue(NoByte, txFifo, isrData, RingSeq)
    BY <1>1, <1>2, <2>1, InFlightIs
  <2>3. InFlight # << >> /\ Head(InFlight) = tsr /\ Tail(InFlight) = InFlight'
    <3>1. InFlight = Queue(tsr, txFifo, isrData, RingSeq)
      BY InFlightIs
    <3>2. /\ Queue(tsr, txFifo, isrData, RingSeq) # << >>
          /\ Head(Queue(tsr, txFifo, isrData, RingSeq)) = tsr
          /\ Tail(Queue(tsr, txFifo, isrData, RingSeq))
               = Queue(NoByte, txFifo, isrData, RingSeq)
      BY <1>3, FlowTypes, QueueDry
    <3>3. QED
      BY <2>2, <3>1, <3>2
  <2>4. QED
    BY <1>1, <2>3 DEF Stream!Deliver
<1>5. CASE txFifo # << >>
  <2>1. tsr' = Head(txFifo) /\ txFifo' = Tail(txFifo)
    BY <1>5 DEF Shift
  <2>2. InFlight' = Queue(Head(txFifo), Tail(txFifo), isrData, RingSeq)
    BY <1>1, <1>2, <2>1, InFlightIs
  <2>3. InFlight # << >> /\ Head(InFlight) = tsr /\ Tail(InFlight) = InFlight'
    <3>1. InFlight = Queue(tsr, txFifo, isrData, RingSeq)
      BY InFlightIs
    <3>2. /\ Queue(tsr, txFifo, isrData, RingSeq) # << >>
          /\ Head(Queue(tsr, txFifo, isrData, RingSeq)) = tsr
          /\ Tail(Queue(tsr, txFifo, isrData, RingSeq))
               = Queue(Head(txFifo), Tail(txFifo), isrData, RingSeq)
      BY <1>3, <1>5, FlowTypes, QueueShift
    <3>3. QED
      BY <2>2, <3>1, <3>2
  <2>4. QED
    BY <1>1, <2>3 DEF Stream!Deliver
<1>6. QED
  BY <1>4, <1>5

LEMMA IsrTakes ==
  ASSUME TypeInv, StreamInv, IsrCallbackData
  PROVE  InFlight' = InFlight
<1>1. /\ UNCHANGED <<ring, writePos, tsr, txFifo>> /\ isrData = NoByte
      /\ isrData' = ring[transmitPos] /\ transmitPos' = After(transmitPos)
      /\ writePos # transmitPos /\ writePos \in Slot /\ transmitPos \in Slot
  BY DEF IsrCallbackData, uartVars, StreamInv, RingEmpty, TypeInv, TypeOK
<1> DEFINE rest == Content(N, ring, After(transmitPos),
                           Count(N, writePos, After(transmitPos)))
<1>2. /\ ring[transmitPos] \in Byte /\ rest \in Seq(Byte)
      /\ Content(N, ring, transmitPos, Count(N, writePos, transmitPos))
           = <<ring[transmitPos]>> \o rest
  <2>1. N \in Nat \ {0, 1} /\ writePos \in Slots(N) /\ transmitPos \in Slots(N)
    BY <1>1, RingIs
  <2>2. Filled(N, Byte, ring, writePos, transmitPos)
    BY FlowTypes
  <2>3. After(transmitPos) = Wrap(N, transmitPos)
    BY RingIs
  <2>4. writePos # transmitPos
    BY <1>1
  <2>5. Takes(N, Byte, ring, writePos, transmitPos)
    BY <2>1, <2>2, <2>4, RingTake
  <2>6. QED
    BY <2>3, <2>5 DEF Takes
<1>3. RingSeq' = rest
  BY <1>1, RingSeqIs
<1>4. RingSeq = <<ring[transmitPos]>> \o RingSeq' /\ RingSeq' \in Seq(Byte)
  BY <1>2, <1>3, RingSeqIs
<1>5. RingSeq = Cat(Held(isrData'), RingSeq') /\ isrData' \in Byte
  <2>1. Held(ring[transmitPos]) = <<ring[transmitPos]>>
    BY <1>2, HeldFacts
  <2>2. QED
    BY <1>1, <1>2, <1>4, <2>1 DEF Cat
<1>6. Queue(tsr, txFifo, NoByte, Cat(Held(isrData'), RingSeq'))
        = Queue(tsr, txFifo, isrData', RingSeq')
  BY <1>4, <1>5, FlowTypes, QueueTake
<1>7. QED
  BY <1>1, <1>5, <1>6, InFlightIs

LEMMA IsrWrites ==
  ASSUME TypeInv, RoomInv, IsrTxreg
  PROVE  InFlight' = InFlight
<1>1. /\ UNCHANGED <<ring, writePos, transmitPos>> /\ isrData' = NoByte
      /\ isrData \in Byte /\ WriteTxreg(isrData)
  BY DEF IsrTxreg, ringVars, TypeInv, BytesInv
<1>2. RingSeq' = RingSeq
  BY <1>1, RingSeqIs
<1>3. Len(txFifo) < FifoDepth /\ (tsr = NoByte => txFifo = << >>)
  <2>1. Len(txFifo) \in Nat /\ Bit(txif) \in Nat /\ FifoDepth \in Nat
    BY TxAssumption DEF TypeInv, TypeOK, Bit
  <2>2. Len(txFifo) + Bit(txif) + 1 <= FifoDepth
    BY DEF IsrTxreg, RoomInv, Bit
  <2>3. QED
    BY <2>1, <2>2 DEF RoomInv
<1>4. Queue(tsr', txFifo', NoByte, RingSeq) = Queue(tsr, txFifo, isrData, RingSeq)
  BY <1>1, <1>3, FlowTypes, WriteTxregQueue DEF TypeInv
<1>5. QED
  BY <1>1, <1>2, <1>4, InFlightIs

LEMMA QueueRoom ==
  ASSUME TypeInv
  PROVE  /\ InFlight \in Seq(Byte)
         /\ Len(InFlight) = Len(Held(tsr)) + Len(txFifo) + Len(Held(isrData))
                              + Count(N, writePos, transmitPos)
<1>1. InFlight = Queue(tsr, txFifo, isrData, RingSeq)
  BY InFlightIs
<1>2. Queue(tsr, txFifo, isrData, RingSeq) \in Seq(Byte)
  BY FlowTypes, QueueNested
<1>3. Len(Queue(tsr, txFifo, isrData, RingSeq))
        = Len(Held(tsr)) + Len(txFifo) + Len(Held(isrData)) + Len(RingSeq)
  BY FlowTypes, QueueLen
<1>4. Len(RingSeq) = Count(N, writePos, transmitPos)
  BY FlowTypes
<1>5. QED
  BY <1>1, <1>2, <1>3, <1>4

LEMMA SumFits ==
  ASSUME NEW held \in 0 .. 1, NEW fifo \in Nat, NEW inRing \in Nat,
         \/ fifo < FifoDepth /\ inRing = 0
         \/ fifo <= FifoDepth /\ inRing <= N - 2
  PROVE  held + fifo + 0 + inRing < N + FifoDepth
BY TxAssumption

LEMMA DirectAccepts ==
  ASSUME TypeInv, RoomInv, StreamInv, SendDirect
  PROVE  Stream!Accept
<1>1. /\ UNCHANGED <<ring, writePos, transmitPos, isrData, wire>>
      /\ next' = (next + 1) % Ids
      /\ pc = "txreg" /\ isr = "off" /\ isrData = NoByte
      /\ next \in Byte /\ WriteTxreg(next)
  BY DEF SendDirect, Goto, MainRuns, ringVars, isrVars, StreamInv, TypeInv, TypeOK
<1>2. writePos = transmitPos /\ writePos \in Slot
  BY <1>1 DEF RoomInv, RingEmpty, TypeInv, TypeOK
<1>3. Count(N, writePos, transmitPos) = 0
  <2>1. Count(N, writePos, transmitPos)
          = IF transmitPos <= writePos THEN writePos - transmitPos
                                       ELSE writePos - transmitPos + N
    BY <1>2, RingIs, CountIs
  <2>2. QED
    BY <1>2, <2>1, TxAssumption DEF Slot
<1>4. RingSeq = Held(NoByte)
  <2>1. RingSeq \in Seq(Byte) /\ Len(RingSeq) = 0
    BY <1>3, FlowTypes
  <2>2. RingSeq = << >>
    BY <2>1
  <2>3. QED
    BY <2>2, NothingHeld
<1>5. Len(txFifo) < FifoDepth /\ (tsr = NoByte => txFifo = << >>)
  BY <1>1, TxAssumption DEF RoomInv, Utxbf, TypeInv, TypeOK
<1>6. RingSeq' = RingSeq
  BY <1>1, RingSeqIs
<1>7. InFlight' = Queue(tsr, txFifo, next, RingSeq)
  <2>1. Queue(tsr', txFifo', NoByte, RingSeq) = Queue(tsr, txFifo, next, RingSeq)
    BY <1>1, <1>5, FlowTypes, WriteTxregQueue DEF TypeInv
  <2>2. QED
    BY <1>1, <1>6, <2>1, InFlightIs
<1>8. Append(InFlight, next) = Queue(tsr, txFifo, next, RingSeq)
  <2> DEFINE x == Put(RingSeq, next)
             y == Put(Queue(tsr, txFifo, NoByte, RingSeq), next)
  <2>1. InFlight = Queue(tsr, txFifo, NoByte, RingSeq)
    BY <1>1, InFlightIs
  <2>2. Queue(tsr, txFifo, NoByte, x) = y
    <3>1. Held(NoByte) \in Seq(Byte)
      BY NothingHeld
    <3>2. QED
      BY <1>1, <3>1, FlowTypes, QueueAdd
  <2>3. x = Cat(RingSeq, Held(next)) /\ Held(next) \in Seq(Byte)
    BY <1>1, FlowTypes, CatAppend, HeldFacts DEF Put
  <2>4. y = Append(InFlight, next)
    BY <2>1 DEF Put
  <2> HIDE DEF x, y
  <2>5. x = Cat(Held(next), Held(NoByte))
    BY <1>4, <2>3, CatNothing
  <2>6. Queue(tsr, txFifo, NoByte, Cat(Held(next), Held(NoByte)))
          = Queue(tsr, txFifo, next, Held(NoByte))
    BY <1>1, FlowTypes, NothingHeld, QueueTake
  <2>7. QED
    BY <1>4, <2>2, <2>4, <2>5, <2>6
<1>9. Len(InFlight) < N + FifoDepth
  <2>1. Len(Held(tsr)) + Len(txFifo) + 0 + 0 < N + FifoDepth
    BY <1>5, FlowTypes, SumFits
  <2>2. Len(Held(isrData)) = 0
    BY <1>1, NothingHeld
  <2>3. QED
    BY <1>3, <2>1, <2>2, QueueRoom
<1>10. QED
  BY <1>1, <1>7, <1>8, <1>9 DEF Stream!Accept

LEMMA AppendAccepts ==
  ASSUME TypeInv, StreamInv, AppendToRing
  PROVE  Stream!Accept
<1>1. /\ UNCHANGED <<transmitPos, tsr, txFifo, isrData, wire>>
      /\ ring' = [ring EXCEPT ![writePos] = next] /\ writePos' = After(writePos)
      /\ next' = (next + 1) % Ids
      /\ isrData = NoByte /\ After(writePos) # transmitPos
      /\ next \in Byte /\ writePos \in Slot /\ transmitPos \in Slot
      /\ ring \in [Slot -> Byte \cup {NoByte}]
  BY DEF AppendToRing, Goto, MainRuns, uartVars, isrVars, StreamInv, RingFull, TypeInv,
     TypeOK
<1>2. /\ Count(N, writePos, transmitPos) <= N - 2
      /\ Content(N, [ring EXCEPT ![writePos] = next], transmitPos,
                 Count(N, After(writePos), transmitPos))
           = Append(Content(N, ring, transmitPos, Count(N, writePos, transmitPos)), next)
  <2>1. N \in Nat \ {0, 1} /\ writePos \in Slots(N) /\ transmitPos \in Slots(N)
    BY <1>1, RingIs
  <2>2. Filled(N, Byte, ring, writePos, transmitPos)
    BY FlowTypes
  <2>3. After(writePos) = Wrap(N, writePos) /\ ring \in [Slots(N) -> Byte \cup {NoByte}]
    BY <1>1, RingIs
  <2>4. Wrap(N, writePos) # transmitPos /\ next \in Byte /\ next \in Byte \cup {NoByte}
    BY <1>1, <2>3
  <2>5. Adds(N, ring, writePos, transmitPos, next)
    BY <2>1, <2>2, <2>3, <2>4, RingAdd
  <2>6. QED
    BY <2>3, <2>5 DEF Adds
<1>3. RingSeq' = Append(RingSeq, next)
  BY <1>1, <1>2, RingSeqIs
<1>4. Queue(tsr, txFifo, isrData, Put(RingSeq, next))
        = Put(Queue(tsr, txFifo, isrData, RingSeq), next)
  BY <1>1, FlowTypes, QueueAdd
<1>5. InFlight' = Append(InFlight, next)
  <2>1. RingSeq' = Put(RingSeq, next)
    BY <1>3 DEF Put
  <2>2. InFlight' = Put(InFlight, next)
    BY <1>1, <1>4, <2>1, InFlightIs
  <2>3. QED
    BY <2>2 DEF Put
<1>6. Len(InFlight) < N + FifoDepth
  <2>1. Len(txFifo) <= FifoDepth /\ Len(txFifo) \in Nat
    BY DEF TypeInv, TypeOK
  <2>2. Count(N, writePos, transmitPos) \in Nat
    <3>1. N \in Nat \ {0, 1} /\ writePos \in Slots(N) /\ transmitPos \in Slots(N)
      BY <1>1, RingIs
    <3>2. Count(N, writePos, transmitPos) \in 0 .. N - 1
      BY <3>1, CountIs
    <3>3. QED
      BY <3>2
  <2>3. Len(Held(tsr)) \in 0 .. 1
    BY FlowTypes
  <2>4. Len(Held(tsr)) + Len(txFifo) + 0 + Count(N, writePos, transmitPos) < N + FifoDepth
    BY <1>2, <2>1, <2>2, <2>3, SumFits
  <2>5. Len(Held(isrData)) = 0
    BY <1>1, NothingHeld
  <2>6. QED
    BY <2>4, <2>5, QueueRoom
<1>7. QED
  BY <1>1, <1>5, <1>6 DEF Stream!Accept

LEMMA OthersStutter ==
  ASSUME UNCHANGED <<ring, writePos, transmitPos, tsr, txFifo, isrData, next, wire>>
  PROVE  UNCHANGED Stream!streamVars
<1>1. RingSeq' = RingSeq
  BY RingSeqIs
<1>2. InFlight' = InFlight
  BY <1>1, InFlightIs
<1>3. QED
  BY <1>2 DEF Stream!streamVars

(* The two writers of UxTXREG, the ring and the FIFO are together one FIFO *)
(* stream of at most N + FifoDepth bytes, for every size of the ring and    *)
(* of the FIFO and however long the code is held up: what leaves the shift *)
(* register is what serial_io_send_char was given, in its order, none lost, *)
(* repeated or overtaken.                                                   *)
THEOREM TxIsStream == Spec => IsStream
<1>1. Init => Stream!Init
  <2> SUFFICES ASSUME Init PROVE Stream!Init
    OBVIOUS
  <2>1. TypeInv /\ tsr = NoByte /\ isrData = NoByte /\ Len(txFifo) = 0
        /\ writePos = 0 /\ transmitPos = 0 /\ 0 \in Slot /\ next = 0 /\ wire = -1
    BY TypeInit, TxAssumption DEF Init, Slot, NoByte
  <2>2. Count(N, 0, 0) = 0
    BY <2>1, RingIs, CountIs
  <2>3. InFlight \in Seq(Byte) /\ Len(InFlight) = 0
    BY <2>1, <2>2, QueueRoom, NothingHeld
  <2>4. InFlight = << >>
    BY <2>3
  <2>5. QED
    BY <2>1, <2>4 DEF Stream!Init, Stream!NoByte
<1>2. Init => TypeInv /\ RoomInv /\ StreamInv
  BY TypeInit, RoomInit, StreamInit
<1>3. TypeInv /\ RoomInv /\ StreamInv /\ [Next]_vars
        => TypeInv' /\ RoomInv' /\ StreamInv'
  BY TypeStep, RoomStep, StreamStep DEF TypeInv
<1>4. TypeInv /\ RoomInv /\ StreamInv /\ [Next]_vars
        => [Stream!Next]_Stream!streamVars
  <2> SUFFICES ASSUME TypeInv, RoomInv, StreamInv, [Next]_vars
               PROVE  [Stream!Next]_Stream!streamVars
    OBVIOUS
  <2>1. CASE Shift
    BY <2>1, ShiftDelivers DEF Stream!Next
  <2>2. CASE SendDirect
    BY <2>2, DirectAccepts DEF Stream!Next
  <2>3. CASE AppendToRing
    BY <2>3, AppendAccepts DEF Stream!Next
  <2>4. CASE IsrCallbackData
    BY <2>4, IsrTakes DEF IsrCallbackData, uartVars, mainVars, Stream!streamVars
  <2>5. CASE IsrTxreg
    BY <2>5, IsrWrites DEF IsrTxreg, mainVars, Stream!streamVars
  <2>6. CASE IsrEnter \/ IsrCallbackEmpty \/ SendCall \/ TestRingEmpty \/ TestUtxbf
             \/ TestRingFull \/ IdleSleep \/ DisableTxInterrupt \/ EnableTxInterrupt
    <3>1. UNCHANGED <<ring, writePos, transmitPos, tsr, txFifo, isrData, next, wire>>
      BY <2>6 DEF IsrEnter, IsrCallbackEmpty, SendCall, TestRingEmpty, TestUtxbf,
        TestRingFull, IdleSleep, DisableTxInterrupt, EnableTxInterrupt, ringVars,
        uartVars, isrVars, mainVars
    <3>2. QED
      BY <3>1, OthersStutter
  <2>7. CASE UNCHANGED vars
    <3>1. UNCHANGED <<ring, writePos, transmitPos, tsr, txFifo, isrData, next, wire>>
      BY <2>7 DEF vars, ringVars, uartVars, isrVars, mainVars
    <3>2. QED
      BY <3>1, OthersStutter
  <2>8. QED
    BY <2>1, <2>2, <2>3, <2>4, <2>5, <2>6, <2>7 DEF Next, Isr, SendChar
<1>5. QED
  BY <1>1, <1>2, <1>3, <1>4, PTL DEF Spec, IsStream, Stream!Spec
=============================================================================
