--------------------------- MODULE SerialRxProofs ---------------------------
(***************************************************************************)
(* Theorems about SerialRx for every size of the ring and of the FIFO,     *)
(* with or without flow control, noise and sleep.                          *)
(***************************************************************************)
EXTENDS SerialRx, Rings, TLAPS

(* The regime of the code: at most one byte arrives between the move of    *)
(* read_pos and the test of user_program_busy, and none between the last   *)
(* look at URXDA and user_program_busy = false.                            *)
Prompt == BeforeTest <= 1 /\ BeforeClear = 0

(* The slots of the ring still free: a full ring keeps one slot unused. *)
Free == IF receptionPos < readPos
        THEN readPos - receptionPos - 1
        ELSE readPos - receptionPos - 1 + N

(* Who may store into the ring, and for how many bytes there is room. *)
StoreInv ==
  /\ Free = 0 => busy
  /\ isr = "poll" => ~busy
  /\ ~busy /\ Urxda => rxif \/ isr = "poll"
  /\ pc \notin {"pending", "doze"} => late = 0
  /\ pc = "pending" => late <= 1
  /\ pc = "pending" /\ ~busy =>
       Len(rxFifo) <= late /\ Free >= 2 - late + Len(rxFifo)
  /\ pc = "pending" /\ busy => Free >= 1
  /\ pc \in {"urxda", "clear"} => busy /\ Free >= 1
  /\ pc = "clear" => ~Urxda
  /\ pc \in {"read", "advance"} => Free < N - 1
  /\ pc = "advance" => c = ring[readPos]

-----------------------------------------------------------------------------
(* The position after p, without the modulo. *)
LEMMA AfterSlot ==
  ASSUME NEW p \in Slot
  PROVE  /\ After(p) \in Slot
         /\ After(p) = IF p = N - 1 THEN 0 ELSE p + 1
<1>1. CASE p = N - 1
  BY <1>1, RxAssumption DEF Slot, After
<1>2. CASE p # N - 1
  BY <1>2, RxAssumption DEF Slot, After
<1>3. QED
  BY <1>1, <1>2

(* The tests of the code, as facts about the free slots. *)
LEMMA FreeFacts ==
  ASSUME TypeOK
  PROVE  /\ Free \in 0 .. N - 1
         /\ RingFull <=> Free = 0
         /\ RingEmpty <=> Free = N - 1
         /\ Refuses <=> Free = 1
<1>1. /\ receptionPos \in Slot /\ readPos \in Slot /\ After(receptionPos) \in Slot
      /\ After(receptionPos) =
           IF receptionPos = N - 1 THEN 0 ELSE receptionPos + 1
      /\ After(After(receptionPos)) =
           IF After(receptionPos) = N - 1 THEN 0 ELSE After(receptionPos) + 1
  BY AfterSlot DEF TypeOK
<1>2. QED
  BY <1>1, RxAssumption DEF Slot, Free, RingFull, RingEmpty, Refuses

LEMMA StoreStep ==
  ASSUME TypeOK, NEW b, Store(b)
  PROVE  /\ receptionPos' \in Slot /\ readPos' = readPos
         /\ Free >= 1 => Free' = Free - 1
         /\ ring' = [ring EXCEPT ![receptionPos] = b]
<1>1. /\ receptionPos \in Slot /\ readPos \in Slot
      /\ receptionPos' \in Slot /\ readPos' = readPos
      /\ receptionPos' = IF receptionPos = N - 1 THEN 0 ELSE receptionPos + 1
  BY AfterSlot DEF TypeOK, Store
<1>2. QED
  BY <1>1, RxAssumption DEF Slot, Free, Store

LEMMA FifoTail ==
  ASSUME NEW S, NEW q \in Seq(S), q # << >>
  PROVE  /\ Head(q) \in S /\ Tail(q) \in Seq(S)
         /\ Len(q) \in Nat /\ Len(q) >= 1 /\ Len(Tail(q)) = Len(q) - 1
OBVIOUS

LEMMA TakeStep ==
  ASSUME TypeOK, Urxda, TakeRxreg
  PROVE  /\ Head(rxFifo) \in Byte \cup {Noise}
         /\ rxFifo' \in Seq(Byte \cup {Noise}) /\ Len(rxFifo') <= FifoDepth
         /\ Len(rxFifo) >= 1 /\ Len(rxFifo') = Len(rxFifo) - 1
         /\ oerr' = oerr
<1>1. /\ Head(rxFifo) \in Byte \cup {Noise}
      /\ Tail(rxFifo) \in Seq(Byte \cup {Noise})
      /\ Len(rxFifo) \in Nat /\ Len(rxFifo) >= 1
      /\ Len(Tail(rxFifo)) = Len(rxFifo) - 1
  BY FifoTail DEF TypeOK, Urxda
<1>2. QED
  BY <1>1, RxAssumption DEF TypeOK, TakeRxreg

LEMMA ReceiveStep ==
  ASSUME TypeOK, NEW b \in Byte \cup {Noise}, Receive(b)
  PROVE  /\ rxFifo' \in Seq(Byte \cup {Noise}) /\ Len(rxFifo') <= FifoDepth
         /\ oerr' \in BOOLEAN /\ rxif' \in BOOLEAN
         /\ \/ rxif' /\ Len(rxFifo') = Len(rxFifo) + 1
            \/ UNCHANGED <<rxFifo, rxif>>
<1>1. CASE ~oerr /\ Len(rxFifo) < FifoDepth
  <2>1. rxFifo' = Append(rxFifo, b) /\ rxif' = TRUE /\ UNCHANGED oerr
    BY <1>1, RxAssumption DEF Receive, TypeOK
  <2>2. rxFifo' \in Seq(Byte \cup {Noise}) /\ Len(rxFifo') = Len(rxFifo) + 1
    BY <2>1 DEF TypeOK
  <2>3. QED
    BY <1>1, <2>1, <2>2, RxAssumption DEF TypeOK
<1>2. CASE ~oerr /\ Len(rxFifo) = FifoDepth
  <2>1. oerr' = TRUE /\ UNCHANGED <<rxFifo, rxif>>
    BY <1>2, RxAssumption DEF Receive
  <2>2. QED
    BY <2>1 DEF TypeOK
<1>3. CASE oerr
  BY <1>3 DEF Receive, TypeOK, uartVars
<1>4. QED
  BY <1>1, <1>2, <1>3 DEF Receive

LEMMA LineStep ==
  ASSUME TypeOK, Line
  PROVE  /\ late' \in 0 .. BeforeTest + BeforeClear + BeforeIdle
         /\ pc = "pending" => late < BeforeTest /\ late' = late + 1
         /\ pc = "clear" => late < BeforeClear /\ late' = late + 1
         /\ pc \notin {"pending", "clear", "doze"} => late' = 0
         /\ UNCHANGED <<ring, receptionPos, readPos, busy, isr, pc, c, out>>
BY RxAssumption DEF TypeOK, Line, InWindow, Window, ringVars, mainVars

-----------------------------------------------------------------------------
LEMMA TypeInit == Init => TypeOK
<1> SUFFICES ASSUME Init PROVE TypeOK
  OBVIOUS
<1>1. 0 \in Slot /\ 0 \in Byte /\ 0 \in 0 .. BeforeTest + BeforeClear + BeforeIdle
  BY RxAssumption DEF Slot, Byte
<1>2. rxFifo \in Seq(Byte \cup {Noise}) /\ Len(rxFifo) = 0
  BY DEF Init
<1>3. QED
  BY <1>1, <1>2, RxAssumption DEF Init, TypeOK, MainPc

LEMMA TypeStep == TypeOK /\ [Next]_vars => TypeOK'
<1> SUFFICES ASSUME TypeOK, [Next]_vars PROVE TypeOK'
  OBVIOUS
<1> USE RxAssumption DEF ringVars, uartVars, mainVars
<1>1. CASE ByteArrives
  <2>1. next \in Byte /\ next' \in Byte
    BY <1>1 DEF ByteArrives, TypeOK, Byte
  <2>2. /\ rxFifo' \in Seq(Byte \cup {Noise}) /\ Len(rxFifo') <= FifoDepth
        /\ oerr' \in BOOLEAN /\ rxif' \in BOOLEAN
    BY <1>1, <2>1, ReceiveStep DEF ByteArrives
  <2>3. QED
    BY <1>1, <2>1, <2>2, LineStep DEF ByteArrives, TypeOK
<1>2. CASE NoiseArrives
  <2>1. /\ rxFifo' \in Seq(Byte \cup {Noise}) /\ Len(rxFifo') <= FifoDepth
        /\ oerr' \in BOOLEAN /\ rxif' \in BOOLEAN
    BY <1>2, ReceiveStep DEF NoiseArrives
  <2>2. QED
    BY <1>2, <2>1, LineStep DEF NoiseArrives, TypeOK
<1>3. CASE IsrEnter
  BY <1>3 DEF IsrEnter, TypeOK, MainPc
<1>4. CASE IsrStore
  <2>1. /\ Head(rxFifo) \in Byte \cup {Noise}
        /\ rxFifo' \in Seq(Byte \cup {Noise}) /\ Len(rxFifo') <= FifoDepth
        /\ oerr' = oerr
    BY <1>4, TakeStep DEF IsrStore
  <2>2. receptionPos' \in Slot /\ readPos' = readPos
        /\ ring' = [ring EXCEPT ![receptionPos] = Head(rxFifo)]
    BY <1>4, StoreStep DEF IsrStore
  <2>3. busy' \in BOOLEAN /\ isr' \in {"oerr", "poll"}
    BY <1>4 DEF IsrStore, Refuses
  <2>4. QED
    BY <1>4, <2>1, <2>2, <2>3 DEF IsrStore, TypeOK
<1>5. CASE IsrDropNoise
  BY <1>5, TakeStep DEF IsrDropNoise, TypeOK
<1>6. CASE IsrDrained \/ IsrClearOerr
  <2>1. CASE IsrDrained
    BY <2>1 DEF IsrDrained, TypeOK
  <2>2. CASE IsrClearOerr
    <3>1. oerr' \in BOOLEAN
      BY <2>2 DEF IsrClearOerr
    <3>2. QED
      BY <2>2, <3>1 DEF IsrClearOerr, TypeOK
  <2>3. QED
    BY <1>6, <2>1, <2>2
<1>7. CASE GetCall \/ TestData \/ Idle \/ TestBusy \/ NoMorePending \/ ClearBusy
  <2>1. pc' \in MainPc /\ late' \in 0 .. BeforeTest + BeforeClear + BeforeIdle
    BY <1>7 DEF GetCall, TestData, Idle, TestBusy, NoMorePending, ClearBusy, Goto,
      TypeOK, MainPc
  <2>2. QED
    BY <1>7, <2>1 DEF GetCall, TestData, Idle, TestBusy, NoMorePending, ClearBusy,
      TypeOK
<1>8. CASE ReadHead
  BY <1>8 DEF ReadHead, Goto, TypeOK, MainPc
<1>9. CASE AdvanceReadPos
  BY <1>9, AfterSlot DEF AdvanceReadPos, Goto, TypeOK, MainPc
<1>10. CASE StorePending
  <2>1. /\ Head(rxFifo) \in Byte \cup {Noise}
        /\ rxFifo' \in Seq(Byte \cup {Noise}) /\ Len(rxFifo') <= FifoDepth
        /\ oerr' = oerr
    BY <1>10, TakeStep DEF StorePending
  <2>2. receptionPos' \in Slot /\ readPos' = readPos
        /\ ring' = [ring EXCEPT ![receptionPos] = Head(rxFifo)]
    BY <1>10, StoreStep DEF StorePending
  <2>3. QED
    BY <1>10, <2>1, <2>2 DEF StorePending, Goto, TypeOK, MainPc
<1>11. CASE UNCHANGED vars
  BY <1>11 DEF vars, TypeOK
<1>12. QED
  BY <1>1, <1>2, <1>3, <1>4, <1>5, <1>6, <1>7, <1>8, <1>9, <1>10, <1>11
  DEF Next, Peer, Isr, GetChar

(* Every variable keeps its type, for every size of the ring and of the    *)
(* FIFO, with or without flow control and noise.                           *)
THEOREM RxTypeCorrect == Spec => []TypeOK
BY TypeInit, TypeStep, PTL DEF Spec

-----------------------------------------------------------------------------
LEMMA StoreInit == Init => StoreInv
BY RxAssumption DEF Init, StoreInv, Free, Urxda

(* Free moves only when the interrupt or the main program stores or reads. *)
LEMMA FreeSame ==
  ASSUME UNCHANGED <<receptionPos, readPos>>
  PROVE  Free' = Free
BY DEF Free

LEMMA StoreInvStep ==
  ASSUME Prompt, TypeOK, TypeOK', StoreInv, [Next]_vars
  PROVE  StoreInv'
<1> USE RxAssumption DEF Prompt, ringVars, uartVars, mainVars
<1>0. /\ Len(rxFifo) \in Nat /\ Len(rxFifo') \in Nat
      /\ late \in Nat /\ late' \in Nat
      /\ Free \in 0 .. N - 1 /\ Free' \in Int
      /\ busy \in BOOLEAN /\ rxif \in BOOLEAN
      /\ (Urxda <=> Len(rxFifo) >= 1) /\ (Urxda' <=> Len(rxFifo') >= 1)
  <2>1. Len(rxFifo) \in Nat /\ Len(rxFifo') \in Nat
    BY DEF TypeOK
  <2>2. late \in Nat /\ late' \in Nat
    BY DEF TypeOK
  <2>3. Free \in 0 .. N - 1
    BY FreeFacts
  <2>4. Free' \in Int
    BY DEF TypeOK, Free, Slot
  <2>5. busy \in BOOLEAN /\ rxif \in BOOLEAN
    BY DEF TypeOK
  <2>6. (Urxda <=> Len(rxFifo) >= 1) /\ (Urxda' <=> Len(rxFifo') >= 1)
    BY DEF TypeOK, Urxda
  <2>7. QED
    BY <2>1, <2>2, <2>3, <2>4, <2>5, <2>6
<1>1. CASE Peer
  <2>1. /\ \/ rxif' /\ Len(rxFifo') = Len(rxFifo) + 1
           \/ UNCHANGED <<rxFifo, rxif>>
        /\ Line
    BY <1>1, ReceiveStep DEF Peer, ByteArrives, NoiseArrives, TypeOK
  <2>2. /\ pc = "pending" => late = 0 /\ late' = 1
        /\ pc # "clear"
        /\ pc \notin {"pending", "doze"} => late' = 0
        /\ UNCHANGED <<ring, receptionPos, readPos, busy, isr, pc, c>>
    BY <1>0, <2>1, LineStep
  <2>3. Free' = Free
    BY <2>2, FreeSame
  <2>4. QED
    BY <1>0, <2>1, <2>2, <2>3 DEF StoreInv
<1>2. CASE IsrEnter
  <2>1. Free' = Free
    BY <1>2, FreeSame DEF IsrEnter
  <2>2. QED
    BY <1>0, <1>2, <2>1 DEF IsrEnter, StoreInv
<1>3. CASE IsrStore
  <2>1. ~busy /\ Free >= 1 /\ pc \notin {"urxda"}
    BY <1>0, <1>3 DEF IsrStore, StoreInv
  <2>2. /\ Free' = Free - 1 /\ Len(rxFifo') = Len(rxFifo) - 1
        /\ ring' = [ring EXCEPT ![receptionPos] = Head(rxFifo)]
        /\ readPos' = readPos
    BY <1>3, <2>1, StoreStep, TakeStep DEF IsrStore
  <2>3. busy' <=> Free = 1
    BY <1>3, FreeFacts DEF IsrStore
  <2>4. isr' = IF Free = 1 THEN "oerr" ELSE "poll"
    BY <1>3, FreeFacts DEF IsrStore
  <2>5. pc = "advance" => ring'[readPos] = ring[readPos]
    <3>1. pc = "advance" => receptionPos # readPos
      BY <1>0 DEF StoreInv, Free, TypeOK, Slot
    <3>2. QED
      BY <2>2, <3>1 DEF TypeOK
  <2>6. pc = "pending" => Len(rxFifo) = 1 /\ late = 1 /\ Free >= 2
    <3>1. Len(rxFifo) >= 1
      BY <1>0, <1>3 DEF IsrStore
    <3>2. pc = "pending" => late <= 1 /\ Len(rxFifo) <= late /\ Free >= 2 - late + Len(rxFifo)
      BY <2>1 DEF StoreInv
    <3>3. \A l, n, f \in Int : n >= 1 /\ l <= 1 /\ n <= l /\ f >= 2 - l + n
            => n = 1 /\ l = 1 /\ f >= 2
      BY ONLY SMT
    <3>4. late \in Int /\ Len(rxFifo) \in Int /\ Free \in Int
      BY <1>0
    <3>5. QED
      BY <3>1, <3>2, <3>3, <3>4, Zenon
  <2>7. UNCHANGED <<pc, c, late>>
    BY <1>3 DEF IsrStore
  <2>8. QED
    BY <1>0, <1>3, <2>1, <2>2, <2>3, <2>4, <2>5, <2>6, <2>7 DEF IsrStore, StoreInv
<1>4. CASE IsrDropNoise
  <2>1. Free' = Free /\ Len(rxFifo') = Len(rxFifo) - 1
    BY <1>4, FreeSame, TakeStep DEF IsrDropNoise
  <2>2. QED
    BY <1>0, <1>4, <2>1 DEF IsrDropNoise, StoreInv
<1>5. CASE IsrDrained \/ IsrClearOerr
  <2>1. Free' = Free
    BY <1>5, FreeSame DEF IsrDrained, IsrClearOerr
  <2>2. QED
    BY <1>0, <1>5, <2>1 DEF IsrDrained, IsrClearOerr, StoreInv
<1>6. CASE GetCall \/ TestData \/ Idle \/ ReadHead
  <2>1. Free' = Free
    BY <1>6, FreeSame DEF GetCall, TestData, Idle, ReadHead
  <2>2. RingEmpty <=> Free = N - 1
    BY FreeFacts
  <2>3. QED
    BY <1>0, <1>6, <2>1, <2>2 DEF GetCall, TestData, Idle, ReadHead, Goto, StoreInv
<1>7. CASE AdvanceReadPos
  <2>1. pc = "advance" /\ pc' = "pending" /\ isr = "off" /\ ~rxif /\ late' = 0
    BY <1>7 DEF AdvanceReadPos, Goto, MainRuns, StoreInv
  <2>2. Free' = Free + 1
    <3>1. readPos' = IF readPos = N - 1 THEN 0 ELSE readPos + 1
      BY <1>7, AfterSlot DEF AdvanceReadPos, TypeOK
    <3>2. Free < N - 1
      BY <2>1 DEF StoreInv
    <3>3. QED
      BY <1>7, <3>1, <3>2 DEF AdvanceReadPos, Free, TypeOK, Slot
  <2>3. ~busy => Len(rxFifo) = 0 /\ Free >= 1
    BY <1>0, <2>1 DEF StoreInv
  <2>4. QED
    BY <1>0, <1>7, <2>1, <2>2, <2>3 DEF AdvanceReadPos, StoreInv
<1>8. CASE TestBusy
  <2>1. Free' = Free
    BY <1>8, FreeSame DEF TestBusy
  <2>2. QED
    BY <1>0, <1>8, <2>1 DEF TestBusy, Goto, StoreInv
<1>9. CASE StorePending
  <2>1. pc = "urxda" /\ busy /\ Free >= 1 /\ isr = "off"
    BY <1>9 DEF StorePending, Goto, MainRuns, StoreInv
  <2>2. Free' = Free - 1 /\ readPos' = readPos
    BY <1>9, <2>1, StoreStep DEF StorePending
  <2>3. pc' = IF Free = 1 THEN "out" ELSE "urxda"
    BY <1>9, FreeFacts DEF StorePending, Goto
  <2>4. QED
    BY <1>0, <1>9, <2>1, <2>2, <2>3 DEF StorePending, StoreInv
<1>10. CASE NoMorePending \/ ClearBusy
  <2>1. Free' = Free
    BY <1>10, FreeSame DEF NoMorePending, ClearBusy
  <2>2. QED
    BY <1>0, <1>10, <2>1 DEF NoMorePending, ClearBusy, Goto, MainRuns, StoreInv
<1>11. CASE UNCHANGED vars
  <2>1. Free' = Free
    BY <1>11, FreeSame DEF vars
  <2>2. QED
    BY <1>0, <1>11, <2>1 DEF vars, StoreInv
<1>12. QED
  BY <1>1, <1>2, <1>3, <1>4, <1>5, <1>6, <1>7, <1>8, <1>9, <1>10, <1>11
  DEF Next, Isr, GetChar

LEMMA StoreInvAlways == ASSUME Prompt PROVE Spec => [](TypeOK /\ StoreInv)
<1>1. Init => TypeOK /\ StoreInv
  BY TypeInit, StoreInit
<1>2. TypeOK /\ StoreInv /\ [Next]_vars => TypeOK' /\ StoreInv'
  BY TypeStep, StoreInvStep
<1>3. QED
  BY <1>1, <1>2, PTL DEF Spec

(* In that regime a full ring always bars the interrupt from storing, so   *)
(* that no byte in it is overwritten.  FullIsBusy is violated when a        *)
(* second byte may come in the same window (BeforeTest = 2).               *)
THEOREM RxFullIsBusy ==
  ASSUME Prompt
  PROVE  Spec => []FullIsBusy
<1>1. TypeOK /\ StoreInv => FullIsBusy
  BY FreeFacts DEF StoreInv, FullIsBusy
<1>2. QED
  BY <1>1, StoreInvAlways, PTL

(* serial_io_get_char removes the byte it returns, although the interrupt  *)
(* may store between its two steps.                                        *)
THEOREM RxReadsWhatItRemoves ==
  ASSUME Prompt
  PROVE  Spec => []ReadsWhatItRemoves
<1>1. TypeOK /\ StoreInv => ReadsWhatItRemoves
  BY FreeFacts DEF StoreInv, ReadsWhatItRemoves
<1>2. QED
  BY <1>1, StoreInvAlways, PTL

(* No byte is forgotten in the UART by a program that has been told there  *)
(* is no more data.  A byte in the second window (BeforeClear = 1) breaks  *)
(* it.                                                                     *)
THEOREM RxNothingLeftBehind ==
  ASSUME Prompt
  PROVE  Spec => []NothingLeftBehind
<1>1. StoreInv => NothingLeftBehind
  BY DEF StoreInv, NothingLeftBehind, MainRuns
<1>2. QED
  BY <1>1, StoreInvAlways, PTL

-----------------------------------------------------------------------------
(* The filter that leaves the noise out, element by element: its recursion *)
(* is unfolded by induction on the place.                                  *)
Symbol == Byte \cup {Noise}

(* What the filter keeps of the first n elements of s. *)
KeptOf(s, n, g) == g = [i \in 0 .. n |-> IF i = 0 THEN << >> ELSE Keep(g[i - 1], s[i])]

LEMMA KeptOne ==
  ASSUME NEW s, NEW n \in Nat, NEW g, KeptOf(s, n, g)
  PROVE  \E h : KeptOf(s, n + 1, h)
<1> DEFINE h == [i \in 0 .. n + 1 |-> IF i = n + 1 THEN Keep(g[n], s[n + 1]) ELSE g[i]]
<1>1. \A i \in 0 .. n : g[i] = IF i = 0 THEN << >> ELSE Keep(g[i - 1], s[i])
  <2>1. g = [i \in 0 .. n |-> IF i = 0 THEN << >> ELSE Keep(g[i - 1], s[i])]
    BY DEF KeptOf
  <2>2. QED
    BY <2>1
<1>2. ASSUME NEW i \in 0 .. n + 1
      PROVE  h[i] = IF i = 0 THEN << >> ELSE Keep(h[i - 1], s[i])
  <2>1. CASE i = n + 1
    BY <2>1
  <2>2. CASE i # n + 1
    <3>1. i \in 0 .. n /\ h[i] = g[i]
      BY <2>2
    <3>2. i # 0 => h[i - 1] = g[i - 1]
      BY <3>1
    <3>3. QED
      BY <1>1, <3>1, <3>2
  <2>3. QED
    BY <2>1, <2>2
<1>3. h = [i \in 0 .. n + 1 |-> IF i = 0 THEN << >> ELSE Keep(h[i - 1], s[i])]
  BY <1>2
<1>4. KeptOf(s, n + 1, h)
  BY <1>3 DEF KeptOf
<1>5. QED
  BY <1>4

LEMMA KeptExists ==
  ASSUME NEW s, NEW n \in Nat
  PROVE  \E g : KeptOf(s, n, g)
<1> DEFINE S == {k \in Nat : \E g : KeptOf(s, k, g)}
<1>1. 0 \in S
  <2> DEFINE g == [i \in 0 .. 0 |-> << >>]
  <2>1. g = [i \in 0 .. 0 |-> IF i = 0 THEN << >> ELSE Keep(g[i - 1], s[i])]
    OBVIOUS
  <2>2. KeptOf(s, 0, g)
    BY <2>1 DEF KeptOf
  <2>3. QED
    BY <2>2
<1>2. ASSUME NEW k \in Nat, k \in S PROVE k + 1 \in S
  BY <1>2, KeptOne
<1> HIDE DEF S
<1>3. Nat \subseteq S
  BY <1>1, <1>2, AllNaturals
<1>4. QED
  BY <1>3 DEF S

LEMMA KeptIs ==
  ASSUME NEW s, Len(s) \in Nat
  PROVE  /\ Kept(s)[0] = << >>
         /\ \A i \in 1 .. Len(s) : Kept(s)[i] = Keep(Kept(s)[i - 1], s[i])
<1>1. Kept(s) = CHOOSE g : KeptOf(s, Len(s), g)
  BY DEF Kept, KeptOf
<1>2. \E g : KeptOf(s, Len(s), g)
  BY KeptExists
<1>3. KeptOf(s, Len(s), Kept(s))
  BY <1>1, <1>2
<1>4. Kept(s) = [i \in 0 .. Len(s) |->
                   IF i = 0 THEN << >> ELSE Keep(Kept(s)[i - 1], s[i])]
  BY <1>3 DEF KeptOf
<1>5. \A i \in 0 .. Len(s) :
        Kept(s)[i] = IF i = 0 THEN << >> ELSE Keep(Kept(s)[i - 1], s[i])
  BY <1>4
<1>6. QED
  BY <1>5

LEMMA KeepStep ==
  ASSUME NEW q \in Seq(Byte), NEW b \in Symbol
  PROVE  /\ Keep(q, b) \in Seq(Byte) /\ Len(Keep(q, b)) <= Len(q) + 1
         /\ \A p \in Seq(Byte) : Keep(p \o q, b) = p \o Keep(q, b)
<1>1. CASE b = Noise
  BY <1>1 DEF Keep
<1>2. CASE b # Noise
  <2>1. b \in Byte
    BY <1>2 DEF Symbol
  <2>2. Append(q, b) \in Seq(Byte) /\ Len(Append(q, b)) = Len(q) + 1
    BY <2>1, AppendProperties
  <2>3. ASSUME NEW p \in Seq(Byte) PROVE Append(p \o q, b) = p \o Append(q, b)
    <3>1. p \o q \in Seq(Byte) /\ <<b>> \in Seq(Byte)
      BY <2>1, ConcatProperties
    <3>2. Append(q, b) = q \o <<b>> /\ Append(p \o q, b) = (p \o q) \o <<b>>
      BY <2>1, <3>1, AppendIsConcat
    <3>3. (p \o q) \o <<b>> = p \o (q \o <<b>>)
      BY <3>1, ConcatAssociative
    <3>4. QED
      BY <3>2, <3>3
  <2>4. /\ Keep(q, b) = Append(q, b)
        /\ \A p \in Seq(Byte) : Keep(p \o q, b) = Append(p \o q, b)
    BY <1>2 DEF Keep
  <2>5. Len(q) \in Nat
    OBVIOUS
  <2>6. Keep(q, b) \in Seq(Byte) /\ Len(Keep(q, b)) <= Len(q) + 1
    BY <2>2, <2>4, <2>5
  <2>7. ASSUME NEW p \in Seq(Byte) PROVE Keep(p \o q, b) = p \o Keep(q, b)
    BY <2>3, <2>4, Zenon
  <2>8. QED
    BY <2>6, <2>7
<1>3. QED
  BY <1>1, <1>2

LEMMA KeptTyped ==
  ASSUME NEW s \in Seq(Symbol), NEW n \in 0 .. Len(s)
  PROVE  Kept(s)[n] \in Seq(Byte) /\ Len(Kept(s)[n]) <= n
<1> DEFINE S == {k \in Nat : k <= Len(s) =>
                   Kept(s)[k] \in Seq(Byte) /\ Len(Kept(s)[k]) <= k}
<1>0. Len(s) \in Nat
  OBVIOUS
<1>1. 0 \in S
  <2>1. Kept(s)[0] = << >>
    BY <1>0, KeptIs
  <2>2. << >> \in Seq(Byte) /\ Len(<< >>) = 0
    OBVIOUS
  <2>3. Kept(s)[0] \in Seq(Byte) /\ Len(Kept(s)[0]) <= 0
    BY <2>1, <2>2
  <2>4. QED
    BY <2>3
<1>2. ASSUME NEW k \in Nat, k \in S PROVE k + 1 \in S
  <2> SUFFICES ASSUME k + 1 <= Len(s)
               PROVE  Kept(s)[k + 1] \in Seq(Byte) /\ Len(Kept(s)[k + 1]) <= k + 1
    OBVIOUS
  <2>1. Kept(s)[k] \in Seq(Byte) /\ Len(Kept(s)[k]) <= k
    BY <1>0, <1>2
  <2>2. s[k + 1] \in Symbol
    BY <1>0
  <2>3. Kept(s)[k + 1] = Keep(Kept(s)[k], s[k + 1])
    <3>1. k + 1 \in 1 .. Len(s) /\ (k + 1) - 1 = k
      BY <1>0
    <3>2. QED
      BY <1>0, <3>1, KeptIs
  <2>4. /\ Keep(Kept(s)[k], s[k + 1]) \in Seq(Byte)
        /\ Len(Keep(Kept(s)[k], s[k + 1])) <= Len(Kept(s)[k]) + 1
    BY <2>1, <2>2, KeepStep
  <2>5. Len(Kept(s)[k]) \in Nat /\ Len(Keep(Kept(s)[k], s[k + 1])) \in Nat
    BY <2>1, <2>4
  <2>6. QED
    BY <2>1, <2>3, <2>4, <2>5
<1> HIDE DEF S
<1>3. n \in S
  BY <1>1, <1>2, AllNaturals
<1>4. QED
  BY <1>0, <1>3 DEF S

LEMMA KeptAlike ==
  ASSUME NEW s, Len(s) \in Nat, NEW t, Len(t) \in Nat,
         NEW n \in 0 .. Len(s), n <= Len(t), \A i \in 1 .. n : s[i] = t[i]
  PROVE  Kept(s)[n] = Kept(t)[n]
<1> DEFINE S == {k \in Nat : k <= n => Kept(s)[k] = Kept(t)[k]}
<1>1. 0 \in S
  <2>1. Kept(s)[0] = << >> /\ Kept(t)[0] = << >>
    BY KeptIs
  <2>2. QED
    BY <2>1
<1>2. ASSUME NEW k \in Nat, k \in S PROVE k + 1 \in S
  <2> SUFFICES ASSUME k + 1 <= n
               PROVE  Kept(s)[k + 1] = Kept(t)[k + 1]
    OBVIOUS
  <2>1. Kept(s)[k] = Kept(t)[k]
    BY <1>2
  <2>2. /\ k + 1 \in 1 .. Len(s) /\ k + 1 \in 1 .. Len(t)
        /\ (k + 1) - 1 = k /\ k + 1 \in 1 .. n
    OBVIOUS
  <2>3. Kept(s)[k + 1] = Keep(Kept(s)[k], s[k + 1])
    BY <2>2, KeptIs
  <2>4. Kept(t)[k + 1] = Keep(Kept(t)[k], t[k + 1])
    BY <2>2, KeptIs
  <2>5. QED
    BY <2>1, <2>2, <2>3, <2>4
<1> HIDE DEF S
<1>3. n \in S
  BY <1>1, <1>2, AllNaturals
<1>4. QED
  BY <1>3 DEF S

LEMMA CleanTyped ==
  ASSUME NEW s \in Seq(Symbol)
  PROVE  Clean(s) \in Seq(Byte) /\ Len(Clean(s)) <= Len(s)
BY KeptTyped DEF Clean

(* The filter may be applied part by part. *)
LEMMA CleanParts ==
  ASSUME NEW s \in Seq(Symbol), NEW t \in Seq(Symbol)
  PROVE  Clean(s \o t) = Clean(s) \o Clean(t)
<1> DEFINE st == s \o t
           S == {k \in Nat : k <= Len(t) => Kept(st)[Len(s) + k] = Clean(s) \o Kept(t)[k]}
<1>1. /\ Len(s) \in Nat /\ Len(t) \in Nat /\ Len(st) = Len(s) + Len(t)
      /\ \A i \in 1 .. Len(s) : st[i] = s[i]
      /\ \A i \in 1 .. Len(t) : st[Len(s) + i] = t[i]
  <2>1. /\ Len(st) = Len(s) + Len(t)
        /\ \A i \in 1 .. Len(s) + Len(t) :
             st[i] = IF i <= Len(s) THEN s[i] ELSE t[i - Len(s)]
    BY ConcatProperties
  <2>2. Len(s) \in Nat /\ Len(t) \in Nat
    OBVIOUS
  <2>3. ASSUME NEW i \in 1 .. Len(t) PROVE st[Len(s) + i] = t[i]
    <3>1. /\ Len(s) + i \in 1 .. Len(s) + Len(t) /\ ~(Len(s) + i <= Len(s))
          /\ (Len(s) + i) - Len(s) = i
      BY <2>2
    <3>2. QED
      BY <2>1, <3>1
  <2>4. QED
    BY <2>1, <2>2, <2>3
<1> HIDE DEF st
<1>2. Clean(s) \in Seq(Byte)
  BY CleanTyped
<1>3. 0 \in S
  <2>1. Kept(st)[Len(s)] = Kept(s)[Len(s)]
    <3>1. Len(s) \in 0 .. Len(st) /\ Len(st) \in Nat /\ Len(s) <= Len(s)
      BY <1>1
    <3>2. QED
      BY <1>1, <3>1, KeptAlike
  <2>2. Kept(t)[0] = << >>
    BY <1>1, KeptIs
  <2>3. Clean(s) \o << >> = Clean(s)
    BY <1>2, ConcatEmptySeq
  <2>4. Kept(st)[Len(s) + 0] = Kept(st)[Len(s)]
    BY <1>1
  <2>5. QED
    BY <2>1, <2>2, <2>3, <2>4 DEF Clean
<1>4. ASSUME NEW k \in Nat, k \in S PROVE k + 1 \in S
  <2> SUFFICES ASSUME k + 1 <= Len(t)
               PROVE  Kept(st)[Len(s) + (k + 1)] = Clean(s) \o Kept(t)[k + 1]
    OBVIOUS
  <2>1. Kept(st)[Len(s) + k] = Clean(s) \o Kept(t)[k]
    BY <1>1, <1>4
  <2>2. /\ k + 1 \in 1 .. Len(t) /\ (k + 1) - 1 = k /\ k \in 0 .. Len(t)
        /\ Len(s) + (k + 1) \in 1 .. Len(st) /\ (Len(s) + (k + 1)) - 1 = Len(s) + k
    BY <1>1
  <2>3. Kept(st)[Len(s) + (k + 1)] = Keep(Kept(st)[Len(s) + k], st[Len(s) + (k + 1)])
    BY <1>1, <2>2, KeptIs
  <2>4. Kept(t)[k + 1] = Keep(Kept(t)[k], t[k + 1])
    BY <1>1, <2>2, KeptIs
  <2>5. st[Len(s) + (k + 1)] = t[k + 1] /\ t[k + 1] \in Symbol
    BY <1>1, <2>2
  <2>6. Kept(t)[k] \in Seq(Byte)
    BY <2>2, KeptTyped
  <2>7. Keep(Clean(s) \o Kept(t)[k], t[k + 1]) = Clean(s) \o Keep(Kept(t)[k], t[k + 1])
    BY <1>2, <2>5, <2>6, KeepStep
  <2>8. QED
    BY <2>1, <2>3, <2>4, <2>5, <2>7
<1> HIDE DEF S
<1>5. Len(t) \in S
  BY <1>1, <1>3, <1>4, AllNaturals
<1>6. Kept(st)[Len(s) + Len(t)] = Clean(s) \o Kept(t)[Len(t)]
  BY <1>1, <1>5 DEF S
<1>7. QED
  BY <1>1, <1>6 DEF Clean, st

LEMMA CleanOne ==
  ASSUME NEW b \in Symbol
  PROVE  Clean(<<b>>) = IF b = Noise THEN << >> ELSE <<b>>
<1>1. Len(<<b>>) = 1 /\ <<b>>[1] = b
  OBVIOUS
<1>2. Kept(<<b>>)[0] = << >> /\ Kept(<<b>>)[1] = Keep(Kept(<<b>>)[1 - 1], b)
  BY <1>1, KeptIs
<1>3. Clean(<<b>>) = Keep(<< >>, b)
  BY <1>1, <1>2 DEF Clean
<1>4. QED
  BY <1>3 DEF Keep

-----------------------------------------------------------------------------
(* The ring of SerialRx is one of Rings. *)
LEMMA RingIs ==
  /\ N \in Nat \ {0, 1} /\ Slot = Slots(N)
  /\ \A p : After(p) = Wrap(N, p)
  /\ RingSeq = Content(N, ring, readPos, Count(N, receptionPos, readPos))
  /\ RingSeq' = Content(N, ring', readPos', Count(N, receptionPos', readPos'))
BY RxAssumption DEF Slot, Slots, After, Wrap, RingSeq, RingCount, Content, Count

(* What has been stored and not read is bytes and noise. *)
FilledInv == Filled(N, Symbol, ring, receptionPos, readPos)

LEMMA RingSeqTyped ==
  ASSUME TypeOK, FilledInv
  PROVE  /\ RingSeq \in Seq(Symbol) /\ Len(RingSeq) \in 0 .. N - 1
         /\ Len(RingSeq) = Count(N, receptionPos, readPos)
<1>1. N \in Nat \ {0, 1} /\ receptionPos \in Slots(N) /\ readPos \in Slots(N)
  BY RingIs DEF TypeOK
<1>2. Spells(N, Symbol, ring, readPos, Count(N, receptionPos, readPos))
  BY <1>1, RingTyped DEF FilledInv
<1>3. Count(N, receptionPos, readPos) \in 0 .. N - 1
  BY <1>1, CountIs
<1>4. QED
  BY <1>2, <1>3, RingIs DEF Spells

(* A byte stored by either writer is the last of the ring ... *)
LEMMA StoreSeq ==
  ASSUME TypeOK, FilledInv, Free >= 1, NEW b \in Symbol, Store(b)
  PROVE  FilledInv' /\ RingSeq' = Append(RingSeq, b)
<1>1. /\ N \in Nat \ {0, 1} /\ receptionPos \in Slots(N) /\ readPos \in Slots(N)
      /\ ring \in [Slots(N) -> Byte \cup {NoByte, Noise}]
      /\ b \in Byte \cup {NoByte, Noise}
  BY RingIs DEF TypeOK, Symbol
<1>2. Wrap(N, receptionPos) # readPos
  <2>1. ~ RingFull
    BY FreeFacts
  <2>2. QED
    BY <2>1, RingIs DEF RingFull
<1>3. /\ ring' = [ring EXCEPT ![receptionPos] = b] /\ readPos' = readPos
      /\ receptionPos' = Wrap(N, receptionPos)
  BY RingIs DEF Store
<1>4. Adds(N, ring, receptionPos, readPos, b)
  BY <1>1, <1>2, RingAdd DEF FilledInv
<1>5. RingSeq' = Append(RingSeq, b)
  BY <1>3, <1>4, RingIs DEF Adds
<1>6. FilledInv'
  <2>1. Wrap(N, receptionPos) = IF receptionPos = N - 1 THEN 0 ELSE receptionPos + 1
    BY <1>1, WrapIs
  <2>2. \A s \in Slots(N) : In(Wrap(N, receptionPos), readPos, s)
                              => s = receptionPos \/ In(receptionPos, readPos, s)
    BY <1>1, <2>1 DEF In, Slots
  <2>3. \A s \in Slots(N) : ring'[s] = IF s = receptionPos THEN b ELSE ring[s]
    BY <1>1, <1>3
  <2>4. QED
    BY <1>3, <2>2, <2>3 DEF FilledInv, Filled
<1>7. QED
  BY <1>5, <1>6

(* ... and serial_io_get_char takes the first.  *)
LEMMA ReadSeq ==
  ASSUME TypeOK, FilledInv, ~RingEmpty, UNCHANGED <<ring, receptionPos>>,
         readPos' = After(readPos)
  PROVE  /\ FilledInv' /\ ring[readPos] \in Symbol
         /\ RingSeq' \in Seq(Symbol) /\ RingSeq = <<ring[readPos]>> \o RingSeq'
<1>1. /\ N \in Nat \ {0, 1} /\ receptionPos \in Slots(N) /\ readPos \in Slots(N)
      /\ receptionPos # readPos
  BY RingIs DEF TypeOK, RingEmpty
<1>2. Takes(N, Symbol, ring, receptionPos, readPos)
  BY <1>1, RingTake DEF FilledInv
<1>3. readPos' = Wrap(N, readPos)
  BY RingIs
<1>4. /\ ring[readPos] \in Symbol /\ RingSeq' \in Seq(Symbol)
      /\ RingSeq = <<ring[readPos]>> \o RingSeq'
  BY <1>2, <1>3, RingIs DEF Takes
<1>5. FilledInv'
  <2>1. Wrap(N, readPos) = IF readPos = N - 1 THEN 0 ELSE readPos + 1
    BY <1>1, WrapIs
  <2>2. \A s \in Slots(N) : In(receptionPos, Wrap(N, readPos), s)
                              => In(receptionPos, readPos, s)
    BY <1>1, <2>1 DEF In, Slots
  <2>3. QED
    BY <1>3, <2>2 DEF FilledInv, Filled
<1>6. QED
  BY <1>4, <1>5

LEMMA FilledInit == Init => FilledInv
BY RingIs DEF Init, FilledInv, Filled, In, Slots

LEMMA FilledStep ==
  ASSUME Prompt, TypeOK, StoreInv, FilledInv, [Next]_vars
  PROVE  FilledInv'
<1>1. CASE IsrStore
  <2>1. Free >= 1
    BY <1>1, FreeFacts, RxAssumption DEF IsrStore, StoreInv
  <2>2. Head(rxFifo) \in Symbol /\ Store(Head(rxFifo))
    BY <1>1, TakeStep DEF IsrStore, Symbol
  <2>3. QED
    BY <2>1, <2>2, StoreSeq
<1>2. CASE StorePending
  <2>1. Free >= 1
    BY <1>2 DEF StorePending, Goto, StoreInv
  <2>2. Head(rxFifo) \in Symbol /\ Store(Head(rxFifo))
    BY <1>2, TakeStep DEF StorePending, Symbol
  <2>3. QED
    BY <2>1, <2>2, StoreSeq
<1>3. CASE AdvanceReadPos
  <2>1. ~RingEmpty
    BY <1>3, FreeFacts, RxAssumption DEF AdvanceReadPos, Goto, StoreInv
  <2>2. QED
    BY <1>3, <2>1, ReadSeq DEF AdvanceReadPos
<1>4. CASE UNCHANGED <<ring, receptionPos, readPos>>
  BY <1>4 DEF FilledInv, Filled
<1>5. QED
  BY <1>1, <1>2, <1>3, <1>4 DEF Next, Peer, Isr, GetChar, ByteArrives, NoiseArrives, Line,
    IsrEnter, IsrDropNoise, IsrDrained, IsrClearOerr, GetCall, TestData, Idle, ReadHead,
    TestBusy, NoMorePending, ClearBusy, vars, ringVars

-----------------------------------------------------------------------------
(* The ring and the FIFO as one queue: what is in them, noise included. *)
Laid == RingSeq \o rxFifo

LEMMA LaidIs ==
  /\ InFlight = Clean(Laid) /\ InFlight' = Clean(Laid')
  /\ Laid' = RingSeq' \o rxFifo'
BY DEF InFlight, Laid

LEMMA LaidTyped ==
  ASSUME TypeOK, FilledInv
  PROVE  /\ rxFifo \in Seq(Symbol) /\ RingSeq \in Seq(Symbol) /\ Laid \in Seq(Symbol)
         /\ Len(Laid) <= N - 1 + Len(rxFifo) /\ Len(rxFifo) \in Nat
<1>1. rxFifo \in Seq(Symbol) /\ Len(rxFifo) \in Nat
  BY DEF TypeOK, Symbol
<1>2. RingSeq \in Seq(Symbol) /\ Len(RingSeq) \in 0 .. N - 1
  BY RingSeqTyped
<1>3. Laid \in Seq(Symbol) /\ Len(Laid) = Len(RingSeq) + Len(rxFifo)
  BY <1>1, <1>2, ConcatProperties DEF Laid
<1>4. QED
  BY <1>1, <1>2, <1>3, RxAssumption

(* A byte moved from the FIFO to the ring stays in its place. *)
LEMMA StoreStutters ==
  ASSUME TypeOK, FilledInv, Free >= 1, Urxda, TakeRxreg, Store(Head(rxFifo)),
         UNCHANGED <<next, out>>
  PROVE  UNCHANGED Stream!streamVars
<1>1. /\ RingSeq \in Seq(Symbol) /\ rxFifo \in Seq(Symbol) /\ rxFifo # << >>
      /\ rxFifo' = Tail(rxFifo)
  BY LaidTyped DEF Urxda, TakeRxreg
<1>2. PICK h \in Symbol : h = Head(rxFifo)
  BY TakeStep DEF Symbol
<1>3. RingSeq' = Append(RingSeq, h)
  BY <1>2, StoreSeq
<1>4. rxFifo = <<h>> \o Tail(rxFifo) /\ Tail(rxFifo) \in Seq(Symbol)
  BY <1>1, <1>2, HeadCons, HeadTailProperties
<1>5. Append(RingSeq, h) = RingSeq \o <<h>> /\ <<h>> \in Seq(Symbol)
  BY <1>1, <1>2, AppendIsConcat
<1>6. (RingSeq \o <<h>>) \o Tail(rxFifo) = RingSeq \o (<<h>> \o Tail(rxFifo))
  BY <1>1, <1>4, <1>5, ConcatAssociative
<1>7. Laid' = Laid
  BY <1>1, <1>3, <1>4, <1>5, <1>6, LaidIs DEF Laid
<1>8. QED
  BY <1>7, LaidIs DEF Stream!streamVars

(* Noise at the head of the FIFO is not in the queue. *)
LEMMA DropStutters ==
  ASSUME TypeOK, FilledInv, IsrDropNoise
  PROVE  UNCHANGED Stream!streamVars
<1>1. /\ RingSeq \in Seq(Symbol) /\ rxFifo \in Seq(Symbol) /\ rxFifo # << >>
      /\ rxFifo' = Tail(rxFifo) /\ Head(rxFifo) = Noise /\ Noise \in Symbol
      /\ UNCHANGED <<ring, receptionPos, readPos, next, out>>
  BY LaidTyped DEF IsrDropNoise, Urxda, TakeRxreg, Symbol, ringVars, mainVars
<1>2. RingSeq' = RingSeq
  BY <1>1, RingIs
<1>3. rxFifo = <<Noise>> \o Tail(rxFifo) /\ Tail(rxFifo) \in Seq(Symbol)
  BY <1>1, HeadCons, HeadTailProperties
<1>4. <<Noise>> \in Seq(Symbol)
  BY <1>1
<1>5. Clean(rxFifo) = Clean(<<Noise>>) \o Clean(Tail(rxFifo))
  BY <1>3, <1>4, CleanParts
<1>6. Clean(<<Noise>>) = << >> /\ Clean(Tail(rxFifo)) \in Seq(Byte)
  BY <1>1, <1>3, CleanOne, CleanTyped
<1>7. Clean(rxFifo) = Clean(rxFifo')
  BY <1>1, <1>5, <1>6, ConcatEmptySeq
<1>8. Clean(Laid) = Clean(RingSeq) \o Clean(rxFifo)
  BY <1>1, CleanParts DEF Laid
<1>9. Clean(Laid') = Clean(RingSeq) \o Clean(rxFifo')
  BY <1>1, <1>2, <1>3, CleanParts, LaidIs
<1>10. QED
  BY <1>1, <1>7, <1>8, <1>9, LaidIs DEF Stream!streamVars

(* What serial_io_get_char returns is the head of the queue. *)
LEMMA AdvanceDelivers ==
  ASSUME TypeOK, StoreInv, FilledInv, AdvanceReadPos
  PROVE  Stream!Deliver \/ UNCHANGED Stream!streamVars
<1>1. /\ ~RingEmpty /\ c = ring[readPos]
      /\ UNCHANGED <<ring, receptionPos, rxFifo, next>> /\ readPos' = After(readPos)
      /\ out' = IF c = Noise THEN out ELSE c
  BY FreeFacts, RxAssumption DEF AdvanceReadPos, Goto, StoreInv, uartVars
<1>2. /\ c \in Symbol /\ RingSeq' \in Seq(Symbol) /\ RingSeq = <<c>> \o RingSeq'
      /\ rxFifo \in Seq(Symbol) /\ <<c>> \in Seq(Symbol)
  <2>1. /\ ring[readPos] \in Symbol /\ RingSeq' \in Seq(Symbol)
        /\ RingSeq = <<ring[readPos]>> \o RingSeq'
    BY <1>1, ReadSeq
  <2>2. QED
    BY <1>1, <2>1, LaidTyped
<1>3. Laid = <<c>> \o Laid' /\ Laid' \in Seq(Symbol)
  <2>1. Laid' = RingSeq' \o rxFifo
    BY <1>1, LaidIs
  <2>2. (<<c>> \o RingSeq') \o rxFifo = <<c>> \o (RingSeq' \o rxFifo)
    BY <1>2, ConcatAssociative
  <2>3. RingSeq' \o rxFifo \in Seq(Symbol)
    BY <1>2, ConcatProperties
  <2>4. QED
    BY <1>2, <2>1, <2>2, <2>3 DEF Laid
<1>4. InFlight = Clean(<<c>>) \o InFlight' /\ InFlight' \in Seq(Byte)
  <2>1. Clean(<<c>> \o Laid') = Clean(<<c>>) \o Clean(Laid')
    BY <1>2, <1>3, CleanParts
  <2>2. QED
    BY <1>3, <2>1, LaidIs, CleanTyped
<1>5. CASE c = Noise
  <2>1. InFlight' = InFlight
    BY <1>2, <1>4, <1>5, CleanOne, ConcatEmptySeq
  <2>2. QED
    BY <1>1, <1>5, <2>1 DEF Stream!streamVars
<1>6. CASE c # Noise
  <2>1. c \in Byte /\ InFlight = <<c>> \o InFlight'
    BY <1>2, <1>4, <1>6, CleanOne DEF Symbol
  <2>2. InFlight # << >> /\ Head(InFlight) = c /\ Tail(InFlight) = InFlight'
    BY <1>4, <2>1, ConsHead
  <2>3. QED
    BY <1>1, <1>6, <2>2 DEF Stream!Deliver
<1>7. QED
  BY <1>5, <1>6

(* A handshake that is in time leaves no overrun behind.                   *)
HeldOffInTime == FlowControl /\ ~Overruns => ~oerr

LEMMA HeldOffStep == TypeOK /\ HeldOffInTime /\ [Next]_vars => HeldOffInTime'
<1> SUFFICES ASSUME TypeOK, HeldOffInTime, [Next]_vars, FlowControl, ~Overruns
             PROVE  ~oerr'
  BY DEF HeldOffInTime
<1>1. ~oerr
  BY DEF HeldOffInTime
<1>2. CASE Peer
  <2>1. Line /\ (Receive(next) \/ Receive(Noise))
    BY <1>2 DEF Peer, ByteArrives, NoiseArrives
  <2>2. Len(rxFifo) < FifoDepth /\ Len(rxFifo) \in Nat
    BY <2>1 DEF Line, TypeOK
  <2>3. QED
    BY <1>1, <2>1, <2>2, RxAssumption DEF Receive, uartVars
<1>3. CASE ~Peer
  BY <1>1, <1>3 DEF Next, Isr, IsrEnter, IsrStore, IsrDropNoise, IsrDrained, IsrClearOerr,
    TakeRxreg, GetCall, GetChar, TestData, Idle, ReadHead, AdvanceReadPos, TestBusy,
    StorePending, NoMorePending, ClearBusy, vars, uartVars
<1>4. QED
  BY <1>2, <1>3

(* A byte that finds room is accepted; one that finds none, because there  *)
(* is no flow control or because it overruns, is lost; noise changes       *)
(* nothing.                                                                *)
LEMMA ReceiveKeeps ==
  ASSUME TypeOK, FilledInv, HeldOffInTime, NEW b \in Symbol, Receive(b), Line
  PROVE  /\ UNCHANGED out
         /\ \/ /\ InFlight' = InFlight \o Clean(<<b>>) /\ InFlight \in Seq(Byte)
               /\ Len(InFlight) < N - 1 + FifoDepth
            \/ (~FlowControl \/ Overruns) /\ InFlight' = InFlight
<1>1. /\ UNCHANGED <<ring, receptionPos, readPos, out>>
      /\ ~(~FlowControl \/ Overruns) => ~oerr /\ Len(rxFifo) < FifoDepth
      /\ Len(rxFifo) <= FifoDepth
  BY LineStep DEF Line, TypeOK, HeldOffInTime
<1>2. /\ RingSeq' = RingSeq /\ RingSeq \in Seq(Symbol) /\ rxFifo \in Seq(Symbol)
      /\ Laid \in Seq(Symbol) /\ Len(Laid) <= N - 1 + Len(rxFifo) /\ Len(rxFifo) \in Nat
  BY <1>1, LaidTyped, RingIs
<1>3. CASE UNCHANGED rxFifo /\ (~FlowControl \/ Overruns)
  <2>1. Laid' = Laid
    BY <1>2, <1>3, LaidIs DEF Laid
  <2>2. QED
    BY <1>1, <1>3, <2>1, LaidIs
<1>4. CASE rxFifo' = Append(rxFifo, b) /\ Len(rxFifo) < FifoDepth
  <2>1. <<b>> \in Seq(Symbol) /\ Append(rxFifo, b) = rxFifo \o <<b>>
    BY <1>2, AppendIsConcat
  <2>2. RingSeq \o (rxFifo \o <<b>>) = (RingSeq \o rxFifo) \o <<b>>
    BY <1>2, <2>1, ConcatAssociative
  <2>3. Laid' = Laid \o <<b>>
    BY <1>2, <1>4, <2>1, <2>2, LaidIs DEF Laid
  <2>4. Clean(Laid \o <<b>>) = Clean(Laid) \o Clean(<<b>>)
    BY <1>2, <2>1, CleanParts
  <2>5. Clean(Laid) \in Seq(Byte) /\ Len(Clean(Laid)) <= Len(Laid)
    BY <1>2, CleanTyped
  <2>6. Len(Clean(Laid)) < N - 1 + FifoDepth
    <3>1. Len(Clean(Laid)) \in Nat /\ Len(Laid) \in Nat
      BY <1>2, <2>5
    <3>2. QED
      BY <1>2, <1>4, <2>5, <3>1, RxAssumption
  <2>7. QED
    BY <1>1, <2>3, <2>4, <2>5, <2>6, LaidIs
<1>5. QED
  <2>1. CASE ~oerr /\ Len(rxFifo) < FifoDepth
    <3>1. rxFifo' = Append(rxFifo, b)
      BY <1>2, <2>1, RxAssumption DEF Receive
    <3>2. QED
      BY <1>4, <2>1, <3>1
  <2>2. CASE oerr \/ ~(Len(rxFifo) < FifoDepth)
    <3>1. UNCHANGED rxFifo /\ (~FlowControl \/ Overruns)
      BY <1>1, <1>2, <2>2, RxAssumption DEF Receive, uartVars
    <3>2. QED
      BY <1>3, <3>1
  <2>3. QED
    BY <2>1, <2>2

LEMMA ArrivalAccepted ==
  ASSUME TypeOK, FilledInv, HeldOffInTime, ByteArrives
  PROVE  Stream!Accept \/ Stream!Lose
<1>1. next \in Byte /\ next \in Symbol /\ next # Noise /\ next' = (next + 1) % Ids
      /\ Receive(next) /\ Line
  BY RxAssumption DEF ByteArrives, TypeOK, Byte, Symbol, Noise
<1>2. Clean(<<next>>) = <<next>>
  BY <1>1, CleanOne
<1>3. CASE InFlight' = InFlight \o Clean(<<next>>) /\ InFlight \in Seq(Byte)
           /\ Len(InFlight) < N - 1 + FifoDepth
  <2>1. InFlight' = Append(InFlight, next)
    BY <1>1, <1>2, <1>3, AppendIsConcat
  <2>2. QED
    BY <1>1, <1>3, <2>1, ReceiveKeeps DEF Stream!Accept
<1>4. CASE (~FlowControl \/ Overruns) /\ InFlight' = InFlight
  BY <1>1, <1>4, ReceiveKeeps DEF Stream!Lose
<1>5. QED
  BY <1>1, <1>3, <1>4, ReceiveKeeps

LEMMA NoiseStutters ==
  ASSUME TypeOK, FilledInv, HeldOffInTime, NoiseArrives
  PROVE  UNCHANGED Stream!streamVars
<1>1. Noise \in Symbol /\ Receive(Noise) /\ Line /\ UNCHANGED next
  BY DEF NoiseArrives, Symbol
<1>2. Clean(<<Noise>>) = << >>
  BY <1>1, CleanOne
<1>3. InFlight' = InFlight /\ UNCHANGED out
  BY <1>1, <1>2, ReceiveKeeps, ConcatEmptySeq
<1>4. QED
  BY <1>1, <1>3 DEF Stream!streamVars

LEMMA OthersStutter ==
  ASSUME UNCHANGED <<ring, receptionPos, readPos, rxFifo, next, out>>
  PROVE  UNCHANGED Stream!streamVars
<1>1. RingSeq' = RingSeq
  BY RingIs
<1>2. Laid' = Laid
  BY <1>1, LaidIs DEF Laid
<1>3. QED
  BY <1>2, LaidIs DEF Stream!streamVars

(* In the same regime the receive path is a FIFO stream of at most          *)
(* N - 1 + FifoDepth bytes, from the line through the FIFO, either of the   *)
(* two writers of the ring and serial_io_get_char: with flow control that   *)
(* is in time none is lost, otherwise only bytes that find the FIFO full    *)
(* are, or an overrun not yet cleared, and noise is never taken for a byte. *)
THEOREM RxIsStream ==
  ASSUME Prompt
  PROVE  Spec => IsStream
<1>1. Init => Stream!Init
  <2> SUFFICES ASSUME Init PROVE Stream!Init
    OBVIOUS
  <2>1. TypeOK /\ FilledInv /\ receptionPos = readPos /\ rxFifo = << >>
        /\ next = 0 /\ out = -1
    BY TypeInit, FilledInit DEF Init, NoByte
  <2>2. Count(N, receptionPos, readPos) = 0
    <3>1. N \in Nat \ {0, 1} /\ receptionPos \in Slots(N) /\ readPos \in Slots(N)
      BY <2>1, RingIs DEF TypeOK
    <3>2. Count(N, receptionPos, readPos)
            = IF readPos <= receptionPos THEN receptionPos - readPos
                                         ELSE receptionPos - readPos + N
      BY <3>1, CountIs
    <3>3. QED
      BY <2>1, <3>1, <3>2 DEF Slots
  <2>3. RingSeq = << >>
    BY <2>1, <2>2, RingSeqTyped
  <2>4. Laid = << >>
    BY <2>1, <2>3 DEF Laid
  <2>5. Clean(Laid) \in Seq(Byte) /\ Len(Clean(Laid)) <= 0
    BY <2>1, <2>4, LaidTyped, CleanTyped
  <2>6. InFlight = << >>
    BY <2>5, LaidIs
  <2>7. QED
    BY <2>1, <2>6 DEF Stream!Init, Stream!NoByte
<1>2. Init => TypeOK /\ StoreInv /\ FilledInv /\ HeldOffInTime
  BY TypeInit, StoreInit, FilledInit DEF Init, HeldOffInTime
<1>3. TypeOK /\ StoreInv /\ FilledInv /\ HeldOffInTime /\ [Next]_vars
        => TypeOK' /\ StoreInv' /\ FilledInv' /\ HeldOffInTime'
  BY TypeStep, StoreInvStep, FilledStep, HeldOffStep
<1>4. TypeOK /\ StoreInv /\ FilledInv /\ HeldOffInTime /\ [Next]_vars
        => [Stream!Next]_Stream!streamVars
  <2> SUFFICES ASSUME TypeOK, StoreInv, FilledInv, HeldOffInTime, [Next]_vars
               PROVE  [Stream!Next]_Stream!streamVars
    OBVIOUS
  <2>1. CASE ByteArrives
    BY <2>1, ArrivalAccepted DEF Stream!Next
  <2>2. CASE NoiseArrives
    BY <2>2, NoiseStutters
  <2>3. CASE IsrStore
    <3>1. Free >= 1
      BY <2>3, FreeFacts, RxAssumption DEF IsrStore, StoreInv
    <3>2. QED
      BY <2>3, <3>1, StoreStutters DEF IsrStore, mainVars
  <2>4. CASE StorePending
    <3>1. Free >= 1
      BY <2>4 DEF StorePending, Goto, StoreInv
    <3>2. QED
      BY <2>4, <3>1, StoreStutters DEF StorePending
  <2>5. CASE IsrDropNoise
    BY <2>5, DropStutters
  <2>6. CASE AdvanceReadPos
    BY <2>6, AdvanceDelivers DEF Stream!Next
  <2>7. CASE IsrEnter \/ IsrDrained \/ IsrClearOerr \/ GetCall \/ TestData \/ Idle
             \/ ReadHead \/ TestBusy \/ NoMorePending \/ ClearBusy \/ UNCHANGED vars
    <3>1. UNCHANGED <<ring, receptionPos, readPos, rxFifo, next, out>>
      BY <2>7 DEF IsrEnter, IsrDrained, IsrClearOerr, GetCall, TestData, Idle, ReadHead,
        TestBusy, NoMorePending, ClearBusy, vars, ringVars, uartVars, mainVars
    <3>2. QED
      BY <3>1, OthersStutter
  <2>8. QED
    BY <2>1, <2>2, <2>3, <2>4, <2>5, <2>6, <2>7 DEF Next, Peer, Isr, GetChar
<1>5. QED
  BY <1>1, <1>2, <1>3, <1>4, PTL DEF Spec, IsStream, Stream!Spec
=============================================================================
