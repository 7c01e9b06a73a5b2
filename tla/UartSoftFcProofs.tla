-------------------------- MODULE UartSoftFcProofs --------------------------
(***************************************************************************)
(* Theorems about UartSoftFc for every size of the FIFOs and rings, every  *)
(* stop level and every number of late bytes.                              *)
(***************************************************************************)
EXTENDS UartSoftFc, TLAPS

-----------------------------------------------------------------------------
(* The variables' types and the places of the three programs. *)

DrainPlaces == {"drain", "test", "low", "testLast", "lowLast", "busy"}
ReadPlaces == {"rpBusy", "rp", "rpRts", "rpLow", "rpClear", "rpRtsLast", "rpLowLast"}
DisablePlaces == {"d1", "d2", "d3", "d4"}
EnablePlaces == {"e1", "e2", "e3"}

BhPlace ==
  /\ bh = <<bh[1], bh[2]>>
  /\ \/ bh[1] = "off" /\ bh[2] = "off"
     \/ bh[1] = "rx" /\ bh[2] \in DrainPlaces \cup {"loop"}
     \/ bh[1] = "tx" /\ bh[2] \in {"cts", "fill"}
     \/ bh[1] = "timer" /\ bh[2] \in DrainPlaces \cup {"fake", "clear", "restart"}

MainPlaces ==
  {"out", "masked", "wait", "poll", "cts", "utxbf", "txreg", "append"}
  \cup ReadPlaces \cup DisablePlaces \cup EnablePlaces

Counts ==
  /\ skid \in Nat /\ rxHw \in Nat /\ level \in Nat /\ rxRing \in Nat
  /\ txHw \in Nat /\ txRing \in Nat /\ stopTx \in 0 .. 2
Booleans ==
  /\ cts \in BOOLEAN /\ rts \in BOOLEAN /\ rxif \in BOOLEAN /\ th \in BOOLEAN
  /\ busy \in BOOLEAN /\ txif \in BOOLEAN /\ txie \in BOOLEAN
  /\ timerOn \in BOOLEAN /\ tif \in BOOLEAN /\ fake \in BOOLEAN

MainPlace ==
  /\ pc \in MainPlaces /\ flags \subseteq {"irq", "timer"}
  /\ ret \in {"out", "direct", "wait", "poll", "append"}

(* Where each continuation is in force. *)
Returns ==
  /\ pc \in ReadPlaces \cup {"out", "masked", "txreg"} => ret = "out"
  /\ pc \in {"cts", "utxbf"} => ret = "direct"
  /\ pc = "append" => ret = "append"
  /\ pc \in DisablePlaces => ret \in {"direct", "append"}
  /\ pc \in EnablePlaces => ret \in {"out", "wait", "poll"}
  /\ pc \in {"wait", "poll"} => ret \in {"wait", "poll"}

(* The peer is stopped in time: the level passes STOP_RX_LEVEL by what was *)
(* late, by one hardware FIFO and by the peer's skid, and no more.         *)
LevelInv ==
  /\ rxHw > 0 => rxif \/ th
  /\ rxHw <= RxDepth /\ skid <= Skid
  /\ ~rts => level <= STOP_RX_LEVEL + Late
  /\ rts => level + rxHw <= STOP_RX_LEVEL + Late + RxDepth + skid
  /\ LoweringRts => level + rxHw <= STOP_RX_LEVEL + Late

(* What is sent directly overtakes nothing, and what is appended has room. *)
SendInv ==
  /\ txHw <= TxDepth /\ txRing <= TxRing
  /\ ret = "direct" => txRing = 0
  /\ pc = "txreg" => txRing = 0 /\ ~Utxbf
  /\ ret = "append" /\ pc \in DisablePlaces \cup {"append"} => txRing < TxRing

(* One consumer of the internal FIFO at a time, and each finds room for    *)
(* what it takes: user_program_busy keeps the callbacks away from a ring   *)
(* without room, and from uart_read_pending_data.                          *)
LastPlaces == {"testLast", "lowLast", "busy"}
Draining == bh[2] \in DrainPlaces
Quiet == ~rxif /\ ~th /\ rxHw = 0 /\ ~fake /\ bh[1] # "rx" /\ ~Draining
RingInv ==
  /\ rxRing <= RxRing
  /\ Draining => ~busy
  /\ ~busy /\ bh[2] \notin LastPlaces => rxRing < RxRing
  /\ pc \in ReadPlaces \ {"rpBusy"} => busy
  /\ pc \in {"rpBusy", "rp", "rpRts", "rpLow", "rpClear"} => rxRing < RxRing
  /\ pc \in {"rpBusy", "rpRts", "rpLow", "rpClear"} => Quiet

(* Somebody comes for what is in the internal FIFO. *)
HandInv ==
  /\ fake => tif \/ bh = <<"timer", "fake">>
  /\ level > 0 /\ ~busy => fake \/ th \/ bh[1] = "rx" \/ Draining
  /\ pc \in {"rpRts", "rpLow", "rpClear"} => level = 0

(* Somebody comes for what is in the transmission ring, and a refusal that *)
(* leaves the transmitter empty leaves the poll of CTS with a timer.       *)
OffPlaces == {"d2", "d3", "d4", "cts", "utxbf", "txreg", "append", "e1"}
OnItsWay ==
  \/ pc = "d4" \/ pc = "e3" \/ pc = "poll"
  \/ pc \in {"cts", "utxbf", "txreg", "append", "e1", "e2"} /\ "timer" \in flags
  \/ pc \in {"e1", "e2"} /\ ret = "poll"
EnableInv ==
  /\ pc \in OffPlaces <=> ~txie
  /\ pc \in OffPlaces => "irq" \in flags
PollInv ==
  /\ stopTx # 0 => (stopTx = 1 /\ timerOn) \/ OnItsWay
  /\ stopTx = 2 => pc \in {"cts", "utxbf", "txreg", "append", "e1", "e2"} /\ "timer" \in flags
StrandedInv ==
  /\ txRing > 0 => txif \/ txHw > 0 \/ bh[1] = "tx" \/ stopTx # 0
  /\ Refused /\ txHw = 0 => /\ stopTx # 0 /\ ~tif /\ bh[1] # "timer"
                            /\ rxif \/ th => bh[1] \in {"off", "rx"}

-----------------------------------------------------------------------------
(* One lemma for each part of the invariant, with a step for each handler. *)
LEMMA CountsStep ==
  Counts /\ [Next]_vars => Counts'
<1> SUFFICES ASSUME Counts, [Next]_vars PROVE Counts'
  OBVIOUS
<1> USE DEF rx, rxUse, txVars, poll, main, Counts
<1>1. CASE PeerCts \/ ByteArrives \/ Shift \/ TimerExpires
  BY <1>1 DEF PeerCts, ByteArrives, Shift, TimerExpires
<1>2. CASE RxInterrupt
  BY <1>2 DEF RxInterrupt, TopEnter, TopStore, TopEnd, BottomLoop
<1>3. CASE Drain
  BY <1>3 DEF Drain, DrainTake, Take, DrainTest, DrainRts, DrainBusy, DrainEmpty
<1>4. CASE TxInterrupt
  BY <1>4 DEF TxInterrupt, TxEnter, TxCts, TxFill
<1>5. CASE TimerInterrupt
  BY <1>5 DEF TimerInterrupt, TimerEnter, TimerFake, TimerPoll, TimerRestart, TimerExit
<1>6. CASE MaskRx \/ GetByte \/ SendCall
  BY <1>6 DEF MaskRx, readOnly, GetByte, SendCall, sendOnly
<1>7. CASE ReadPending
  BY <1>7 DEF ReadPending, RpBusy, readOnly, RpTake, Take, RpEmpty, RpTest, RpRts, RpClear
<1>8. CASE SendChar
  BY <1>8 DEF SendChar, DisableIrq, sendOnly, DisableTest, DisableTimer, DisableMark,
         TransmitCts, TransmitUtxbf, TransmitTxreg, EnableIrq, EnableMark, EnableTimer,
         WaitForRoom, AppendByte
<1>9. CASE UNCHANGED vars
  BY <1>9 DEF vars
<1>10. QED
  BY <1>1, <1>2, <1>3, <1>4, <1>5, <1>6, <1>7, <1>8,
     <1>9 DEF Next, Interrupts, RxInterrupt, Drain, TxInterrupt, TimerInterrupt,
            ReadPending, SendChar

LEMMA BooleansStep ==
  Booleans /\ [Next]_vars => Booleans'
<1> SUFFICES ASSUME Booleans, [Next]_vars PROVE Booleans'
  OBVIOUS
<1> USE SoftFcAssumption DEF rx, rxUse, txVars, poll, main, Booleans
<1>1. CASE PeerCts
  BY <1>1 DEF PeerCts
<1>2. CASE ByteArrives
  BY <1>2 DEF ByteArrives
<1>3. CASE Shift
  BY <1>3 DEF Shift
<1>4. CASE TimerExpires
  BY <1>4 DEF TimerExpires
<1>5. CASE TopEnter
  BY <1>5 DEF TopEnter
<1>6. CASE TopStore
  BY <1>6 DEF TopStore
<1>7. CASE TopEnd
  BY <1>7 DEF TopEnd
<1>8. CASE BottomLoop
  BY <1>8 DEF BottomLoop
<1>9. CASE DrainTake
  BY <1>9 DEF DrainTake
<1>10. CASE DrainTest
  BY <1>10 DEF DrainTest
<1>11. CASE DrainRts
  BY <1>11 DEF DrainRts
<1>12. CASE DrainBusy
  BY <1>12 DEF DrainBusy
<1>13. CASE DrainEmpty
  BY <1>13 DEF DrainEmpty
<1>14. CASE TxEnter
  BY <1>14 DEF TxEnter
<1>15. CASE TxCts
  BY <1>15 DEF TxCts
<1>16. CASE TxFill
  BY <1>16 DEF TxFill
<1>17. CASE TimerEnter
  BY <1>17 DEF TimerEnter
<1>18. CASE TimerFake
  BY <1>18 DEF TimerFake
<1>19. CASE TimerPoll
  BY <1>19 DEF TimerPoll
<1>20. CASE TimerRestart
  BY <1>20 DEF TimerRestart
<1>21. CASE TimerExit
  BY <1>21 DEF TimerExit
<1>22. CASE MaskRx \/ GetByte \/ SendCall
  BY <1>22 DEF MaskRx, readOnly, GetByte, SendCall, sendOnly
<1>23. CASE RpBusy
  BY <1>23 DEF RpBusy, readOnly
<1>24. CASE RpTake
  BY <1>24 DEF RpTake, readOnly
<1>25. CASE RpEmpty
  BY <1>25 DEF RpEmpty, readOnly
<1>26. CASE RpTest
  BY <1>26 DEF RpTest, readOnly
<1>27. CASE RpRts
  BY <1>27 DEF RpRts, readOnly
<1>28. CASE RpClear
  BY <1>28 DEF RpClear, readOnly
<1>29. CASE DisableIrq
  BY <1>29 DEF DisableIrq, sendOnly
<1>30. CASE DisableTest
  BY <1>30 DEF DisableTest, sendOnly
<1>31. CASE DisableTimer
  BY <1>31 DEF DisableTimer, sendOnly
<1>32. CASE DisableMark
  BY <1>32 DEF DisableMark, sendOnly
<1>33. CASE TransmitCts
  BY <1>33 DEF TransmitCts, sendOnly
<1>34. CASE TransmitUtxbf
  BY <1>34 DEF TransmitUtxbf, sendOnly
<1>35. CASE TransmitTxreg
  BY <1>35 DEF TransmitTxreg, sendOnly
<1>36. CASE EnableIrq
  BY <1>36 DEF EnableIrq, sendOnly
<1>37. CASE EnableMark
  BY <1>37 DEF EnableMark, sendOnly
<1>38. CASE EnableTimer
  BY <1>38 DEF EnableTimer, sendOnly
<1>39. CASE WaitForRoom
  BY <1>39 DEF WaitForRoom, sendOnly
<1>40. CASE AppendByte
  BY <1>40 DEF AppendByte, sendOnly
<1>41. CASE UNCHANGED vars
  BY <1>41 DEF vars
<1>42. QED
  BY <1>1, <1>2, <1>3, <1>4, <1>5, <1>6, <1>7, <1>8, <1>9, <1>10, <1>11, <1>12, <1>13,
     <1>14, <1>15, <1>16, <1>17, <1>18, <1>19, <1>20, <1>21, <1>22, <1>23, <1>24, <1>25,
     <1>26, <1>27, <1>28, <1>29, <1>30, <1>31, <1>32, <1>33, <1>34, <1>35, <1>36, <1>37,
     <1>38, <1>39, <1>40,
     <1>41 DEF Next, Interrupts, RxInterrupt, Drain, TxInterrupt, TimerInterrupt,
            ReadPending, SendChar

LEMMA BhPlaceStep == BhPlace /\ [Next]_vars => BhPlace'
<1> SUFFICES ASSUME BhPlace, [Next]_vars PROVE BhPlace'
  OBVIOUS
<1>1. ASSUME bh' = bh PROVE BhPlace'
  BY <1>1 DEF BhPlace
<1>2. ASSUME NEW p \in {<<"off", "off">>, <<"rx", "loop">>, <<"rx", "drain">>, <<"tx", "cts">>,
                        <<"tx", "fill">>, <<"timer", "fake">>, <<"timer", "drain">>,
                        <<"timer", "clear">>, <<"timer", "restart">>},
             bh' = p
      PROVE  BhPlace'
  BY <1>2 DEF BhPlace, DrainPlaces
<1>3. CASE RxInterrupt
  <2>1. bh' = bh \/ bh' = <<"rx", "loop">> \/ bh' = <<"rx", "drain">> \/ bh' = <<"off", "off">>
    BY <1>3 DEF RxInterrupt, TopEnter, TopStore, TopEnd, BottomLoop
  <2>2. QED
    BY <2>1, <1>1, <1>2
<1>4. CASE Drain
  <2>1. bh[1] \in {"rx", "timer"}
    BY <1>4 DEF BhPlace, DrainPlaces, Drain, DrainTake, DrainTest, DrainRts, DrainBusy, DrainEmpty,
                At
  <2>2. \/ \E place \in DrainPlaces : bh' = <<bh[1], place>>
        \/ bh' = <<"rx", "loop">>
        \/ bh' = <<"timer", "clear">>
    BY <1>4 DEF DrainPlaces, Drain, DrainTake, DrainTest, DrainRts, DrainBusy, DrainEmpty, LeaveDrain
  <2>3. ASSUME NEW place \in DrainPlaces, bh' = <<bh[1], place>> PROVE BhPlace'
    BY <2>1, <2>3 DEF BhPlace
  <2>4. QED
    BY <2>2, <2>3, <1>2
<1>5. CASE TxInterrupt
  <2>1. bh' = bh \/ bh' = <<"tx", "cts">> \/ bh' = <<"tx", "fill">> \/ bh' = <<"off", "off">>
    BY <1>5 DEF TxInterrupt, TxEnter, TxCts, TxFill
  <2>2. QED
    BY <2>1, <1>1, <1>2
<1>6. CASE TimerInterrupt
  <2>1. \/ bh' = <<"timer", "fake">> \/ bh' = <<"timer", "drain">> \/ bh' = <<"timer", "clear">>
        \/ bh' = <<"timer", "restart">> \/ bh' = <<"off", "off">>
    BY <1>6 DEF TimerInterrupt, TimerEnter, TimerFake, TimerPoll, TimerRestart, TimerExit
  <2>2. QED
    BY <2>1, <1>2
<1>7. CASE PeerCts \/ ByteArrives \/ Shift \/ TimerExpires \/ MaskRx \/ GetByte \/ ReadPending
  BY <1>1, <1>7 DEF PeerCts, ByteArrives, Shift, TimerExpires, MaskRx, GetByte, ReadPending, RpBusy,
                    RpTake, RpEmpty, RpTest, RpRts, RpClear, readOnly
<1>8. CASE SendCall \/ SendChar
  BY <1>1, <1>8 DEF SendCall, SendChar, DisableIrq, DisableTest, DisableTimer, DisableMark,
                    TransmitCts, TransmitUtxbf, TransmitTxreg, EnableIrq, EnableMark, EnableTimer,
                    WaitForRoom, AppendByte, sendOnly
<1>9. CASE UNCHANGED vars
  BY <1>1, <1>9 DEF vars
<1>10. QED
  BY <1>3, <1>4, <1>5, <1>6, <1>7, <1>8, <1>9 DEF Next, Interrupts

LEMMA MainPlaceStep ==
  MainPlace /\ Returns /\ [Next]_vars => MainPlace'
<1> SUFFICES ASSUME MainPlace, Returns, [Next]_vars PROVE MainPlace'
  OBVIOUS
<1> USE DEF rx, rxUse, txVars, poll, main, MainPlace, Returns, MainPlaces, ReadPlaces,
          DisablePlaces, EnablePlaces
<1>1. CASE PeerCts \/ ByteArrives \/ Shift \/ TimerExpires
  BY <1>1 DEF PeerCts, ByteArrives, Shift, TimerExpires
<1>2. CASE RxInterrupt
  BY <1>2 DEF RxInterrupt, TopEnter, TopStore, TopEnd, BottomLoop
<1>3. CASE Drain
  BY <1>3 DEF Drain, DrainTake, DrainTest, DrainRts, DrainBusy, DrainEmpty
<1>4. CASE TxInterrupt
  BY <1>4 DEF TxInterrupt, TxEnter, TxCts, TxFill
<1>5. CASE TimerInterrupt
  BY <1>5 DEF TimerInterrupt, TimerEnter, TimerFake, TimerPoll, TimerRestart, TimerExit
<1>6. CASE MaskRx \/ GetByte \/ SendCall
  BY <1>6 DEF MaskRx, Step, readOnly, GetByte, SendCall
<1>7. CASE ReadPending
  BY <1>7 DEF ReadPending, RpBusy, Step, readOnly, RpTake, RpEmpty, RpTest, RpRts, RpClear
<1>8. CASE SendChar
  BY <1>8 DEF SendChar, DisableIrq, Step, DisableTest, AfterDisable, DisableTimer,
         DisableMark, TransmitCts, TransmitUtxbf, TransmitTxreg, EnableIrq, EnableMark,
         EnableTimer, WaitForRoom, AppendByte
<1>9. CASE UNCHANGED vars
  BY <1>9 DEF vars
<1>10. QED
  BY <1>1, <1>2, <1>3, <1>4, <1>5, <1>6, <1>7, <1>8,
     <1>9 DEF Next, Interrupts, RxInterrupt, Drain, TxInterrupt, TimerInterrupt,
            ReadPending, SendChar

LEMMA ReturnsStep ==
  MainPlace /\ Returns /\ [Next]_vars => Returns'
<1> SUFFICES ASSUME MainPlace, Returns, [Next]_vars PROVE Returns'
  OBVIOUS
<1> USE DEF rx, rxUse, txVars, poll, main, MainPlace, Returns, ReadPlaces, DisablePlaces,
          EnablePlaces
<1>1. CASE PeerCts \/ ByteArrives \/ Shift \/ TimerExpires
  BY <1>1 DEF PeerCts, ByteArrives, Shift, TimerExpires
<1>2. CASE RxInterrupt
  BY <1>2 DEF RxInterrupt, TopEnter, TopStore, TopEnd, BottomLoop
<1>3. CASE Drain
  BY <1>3 DEF Drain, DrainTake, DrainTest, DrainRts, DrainBusy, DrainEmpty
<1>4. CASE TxInterrupt
  BY <1>4 DEF TxInterrupt, TxEnter, TxCts, TxFill
<1>5. CASE TimerInterrupt
  BY <1>5 DEF TimerInterrupt, TimerEnter, TimerFake, TimerPoll, TimerRestart, TimerExit
<1>6. CASE MaskRx \/ GetByte \/ SendCall
  BY <1>6 DEF MaskRx, Step, readOnly, GetByte, SendCall
<1>7. CASE ReadPending
  BY <1>7 DEF ReadPending, RpBusy, Step, readOnly, RpTake, RpEmpty, RpTest, RpRts, RpClear
<1>8. CASE SendChar
  BY <1>8 DEF SendChar, DisableIrq, Step, DisableTest, AfterDisable, DisableTimer,
         DisableMark, TransmitCts, TransmitUtxbf, TransmitTxreg, EnableIrq, EnableMark,
         EnableTimer, WaitForRoom, AppendByte
<1>9. CASE UNCHANGED vars
  BY <1>9 DEF vars
<1>10. QED
  BY <1>1, <1>2, <1>3, <1>4, <1>5, <1>6, <1>7, <1>8,
     <1>9 DEF Next, Interrupts, RxInterrupt, Drain, TxInterrupt, TimerInterrupt,
            ReadPending, SendChar

(* A byte is stored only below the level at which the peer was told to     *)
(* stop, or is one of those that were still on their way.                  *)
LEMMA LevelStep ==
  Counts /\ Booleans /\ BhPlace /\ Returns /\ LevelInv /\ [Next]_vars => LevelInv'
<1> SUFFICES ASSUME Counts, Booleans, BhPlace, Returns, LevelInv, [Next]_vars PROVE LevelInv'
  OBVIOUS
<1> USE SoftFcAssumption DEF rx, rxUse, txVars, poll, main, Counts, Returns, BhPlace,
          LevelInv, LoweringRts, DrainPlaces, ReadPlaces, DisablePlaces, EnablePlaces
<1>1. CASE PeerCts \/ ByteArrives \/ Shift \/ TimerExpires
  BY <1>1 DEF PeerCts, ByteArrives, Shift, TimerExpires
<1>2. CASE TopStore
  <2>1. CASE level' = level + 1 /\ rts' = (rts \/ level' > STOP_RX_LEVEL)
    <3>1. rts' <=> rts \/ level' > STOP_RX_LEVEL
      BY <2>1
    <3>2. rxHw' = rxHw - 1 /\ rxHw > 0 /\ th' /\ skid' = (IF rts THEN skid ELSE 0)
          /\ UNCHANGED <<bh, pc>>
      BY <1>2 DEF TopStore
    <3>3. QED
      BY <2>1, <3>1, <3>2
  <2>2. CASE UNCHANGED <<level, rts>>
    BY <1>2, <2>2 DEF TopStore
  <2>3. QED
    BY <1>2, <2>1, <2>2 DEF TopStore
<1>3. CASE TopEnter \/ TopEnd \/ BottomLoop
  BY <1>3 DEF TopEnter, TopEnd, BottomLoop
<1>4. CASE Drain
  BY <1>4 DEF Drain, DrainTake, At, BhRuns, Take, DrainTest, DrainRts, DrainBusy,
         LeaveDrain, DrainEmpty
<1>5. CASE TxInterrupt
  BY <1>5 DEF TxInterrupt, TxEnter, BhRuns, TxCts, TxFill
<1>6. CASE TimerInterrupt
  BY <1>6 DEF TimerInterrupt, TimerEnter, BhRuns, TimerFake, At, TimerPoll, TimerRestart,
         TimerExit
<1>7. CASE MaskRx \/ GetByte \/ SendCall
  BY <1>7 DEF MaskRx, Step, MainRuns, readOnly, GetByte, SendCall, sendOnly
<1>8. CASE ReadPending
  BY <1>8 DEF ReadPending, RpBusy, Step, MainRuns, readOnly, RpTake, Take, RpEmpty, RpTest,
         RpRts, RpClear
<1>9. CASE EnableMark
  <2>1. pc' \in {"e3", "out", "wait", "poll"} /\ (pc' = "e3" \/ pc' = ret)
    BY <1>9 DEF EnableMark, Step
  <2>2. QED
    BY <1>9, <2>1 DEF EnableMark, Step, MainRuns, BhIdle, Masked, sendOnly
<1>10. CASE EnableTimer
  <2>1. pc' \in {"out", "wait", "poll"}
    BY <1>10 DEF EnableTimer, Step
  <2>2. QED
    BY <1>10, <2>1 DEF EnableTimer, Step, MainRuns, BhIdle, Masked, sendOnly
<1>11. CASE DisableIrq \/ DisableTest \/ DisableTimer \/ DisableMark \/ TransmitCts
           \/ TransmitUtxbf \/ TransmitTxreg \/ EnableIrq \/ WaitForRoom \/ AppendByte
  BY <1>11 DEF DisableIrq, Step, MainRuns, sendOnly, DisableTest, AfterDisable,
         DisableTimer, DisableMark, TransmitCts, TransmitUtxbf, TransmitTxreg, EnableIrq,
         WaitForRoom, AppendByte
<1>12. CASE UNCHANGED vars
  BY <1>12 DEF vars
<1>13. QED
  BY <1>1, <1>2, <1>3, <1>4, <1>5, <1>6, <1>7, <1>8, <1>9, <1>10, <1>11,
     <1>12 DEF Next, Interrupts, RxInterrupt, Drain, TxInterrupt, TimerInterrupt,
            ReadPending, SendChar

(* Only the main program appends, and nothing else fills the transmitter   *)
(* while the ring is empty.                                                *)
LEMMA SendStep ==
  Counts /\ Returns /\ SendInv /\ [Next]_vars => SendInv'
<1> SUFFICES ASSUME Counts, Returns, SendInv, [Next]_vars PROVE SendInv'
  OBVIOUS
<1> USE SoftFcAssumption DEF rx, rxUse, txVars, poll, main, Counts, Returns, SendInv, Utxbf,
          ReadPlaces, DisablePlaces, EnablePlaces
<1>1. CASE PeerCts \/ ByteArrives \/ Shift \/ TimerExpires
  BY <1>1 DEF PeerCts, ByteArrives, Shift, TimerExpires
<1>2. CASE RxInterrupt
  BY <1>2 DEF RxInterrupt, TopEnter, TopStore, TopEnd, BottomLoop
<1>3. CASE Drain
  BY <1>3 DEF Drain, DrainTake, DrainTest, DrainRts, DrainBusy, DrainEmpty
<1>4. CASE TxInterrupt
  BY <1>4 DEF TxInterrupt, TxEnter, TxCts, TxFill
<1>5. CASE TimerInterrupt
  BY <1>5 DEF TimerInterrupt, TimerEnter, TimerFake, TimerPoll, TimerRestart, TimerExit
<1>6. CASE MaskRx \/ GetByte \/ SendCall
  BY <1>6 DEF MaskRx, Step, readOnly, GetByte, SendCall
<1>7. CASE ReadPending
  BY <1>7 DEF ReadPending, RpBusy, Step, readOnly, RpTake, RpEmpty, RpTest, RpRts, RpClear
<1>8. CASE EnableMark
  <2>1. pc' \in {"e3", "out", "wait", "poll"} /\ (pc' = "e3" \/ pc' = ret)
    BY <1>8 DEF EnableMark, Step
  <2>2. QED
    BY <1>8, <2>1 DEF EnableMark, Step, MainRuns, BhIdle, Masked, sendOnly
<1>9. CASE EnableTimer
  <2>1. pc' \in {"out", "wait", "poll"}
    BY <1>9 DEF EnableTimer, Step
  <2>2. QED
    BY <1>9, <2>1 DEF EnableTimer, Step, MainRuns, BhIdle, Masked, sendOnly
<1>10. CASE DisableIrq \/ DisableTest \/ DisableTimer \/ DisableMark \/ TransmitCts
           \/ TransmitUtxbf \/ TransmitTxreg \/ EnableIrq \/ WaitForRoom \/ AppendByte
  BY <1>10 DEF DisableIrq, Step, DisableTest, AfterDisable, DisableTimer, DisableMark,
         TransmitCts, TransmitUtxbf, TransmitTxreg, EnableIrq, WaitForRoom, AppendByte
<1>11. CASE UNCHANGED vars
  BY <1>11 DEF vars
<1>12. QED
  BY <1>1, <1>2, <1>3, <1>4, <1>5, <1>6, <1>7, <1>8, <1>9, <1>10,
     <1>11 DEF Next, Interrupts, RxInterrupt, Drain, TxInterrupt, TimerInterrupt,
            ReadPending, SendChar

(* The transmit interrupt is off exactly inside a critical section.        *)
LEMMA EnableStep ==
  MainPlace /\ Returns /\ EnableInv /\ [Next]_vars => EnableInv'
<1> SUFFICES ASSUME MainPlace, Returns, EnableInv, [Next]_vars PROVE EnableInv'
  OBVIOUS
<1> USE DEF rx, rxUse, txVars, poll, main, EnableInv
<1>1. CASE DisableIrq
  <2>1. pc = "d1" /\ pc' = "d2"
    BY <1>1 DEF DisableIrq, Step
  <2>2. txie
    BY <2>1 DEF OffPlaces
  <2>3. flags' = {"irq"} /\ txie' = FALSE
    BY <1>1, <2>2 DEF DisableIrq
  <2>4. QED
    BY <2>1, <2>3 DEF OffPlaces
<1>2. CASE DisableTest \/ DisableTimer \/ DisableMark \/ TransmitCts \/ TransmitUtxbf
           \/ TransmitTxreg \/ AppendByte
  <2>1. pc \in OffPlaces /\ pc' \in OffPlaces
    BY <1>2 DEF DisableTest, DisableTimer, DisableMark, TransmitCts, TransmitUtxbf, TransmitTxreg,
                AppendByte, AfterDisable, Step, OffPlaces
  <2>2. flags \subseteq flags' /\ txie' = txie
    BY <1>2 DEF DisableTest, DisableTimer, DisableMark, TransmitCts, TransmitUtxbf, TransmitTxreg,
                AppendByte
  <2>3. QED
    BY <2>1, <2>2
<1>3. CASE EnableIrq
  <2>1. pc = "e1" /\ pc' = "e2"
    BY <1>3 DEF EnableIrq, Step
  <2>2. txie'
    BY <1>3, <2>1 DEF EnableIrq, OffPlaces
  <2>3. QED
    BY <2>1, <2>2 DEF OffPlaces
<1>4. CASE EnableMark \/ EnableTimer \/ WaitForRoom
  <2>1. pc \notin OffPlaces /\ pc' \notin OffPlaces
    BY <1>4 DEF EnableMark, EnableTimer, WaitForRoom, Step, Returns, EnablePlaces, OffPlaces
  <2>2. txie' = txie
    BY <1>4 DEF EnableMark, EnableTimer, WaitForRoom, sendOnly
  <2>3. QED
    BY <2>1, <2>2
<1>5. CASE MaskRx \/ GetByte \/ SendCall \/ ReadPending
  <2>1. pc \notin OffPlaces /\ pc' \notin OffPlaces
    BY <1>5 DEF MaskRx, GetByte, SendCall, ReadPending, RpBusy, RpTake, RpEmpty, RpTest, RpRts,
                RpClear, Step, OffPlaces
  <2>2. txie' = txie
    BY <1>5 DEF MaskRx, GetByte, SendCall, ReadPending, RpBusy, RpTake, RpEmpty, RpTest, RpRts,
                RpClear, readOnly
  <2>3. QED
    BY <2>1, <2>2
<1>6. CASE PeerCts \/ ByteArrives \/ Shift \/ TimerExpires \/ Interrupts
  <2>1. UNCHANGED <<pc, flags, txie>>
    BY <1>6 DEF PeerCts, ByteArrives, Shift, TimerExpires, Interrupts, RxInterrupt, TopEnter,
                TopStore, TopEnd, BottomLoop, Drain, DrainTake, DrainTest, DrainRts, DrainBusy,
                DrainEmpty, TxInterrupt, TxEnter, TxCts, TxFill, TimerInterrupt, TimerEnter,
                TimerFake, TimerPoll, TimerRestart, TimerExit
  <2>2. QED
    BY <2>1
<1>7. CASE UNCHANGED vars
  BY <1>7 DEF vars
<1>8. QED
  BY <1>1, <1>2, <1>3, <1>4, <1>5, <1>6, <1>7 DEF Next, SendChar

(* uart_disable_tx_interrupt takes the timer, uart_enable_tx_interrupt and  *)
(* uart_transmit_byte give it back.                                        *)
LEMMA PollStep ==
  Counts /\ Returns /\ PollInv /\ [Next]_vars => PollInv'
<1> SUFFICES ASSUME Counts, Returns, PollInv, [Next]_vars PROVE PollInv'
  OBVIOUS
<1> USE DEF rx, rxUse, txVars, poll, main, Counts, Returns, PollInv, OnItsWay, ReadPlaces,
          DisablePlaces, EnablePlaces
<1>1. CASE PeerCts \/ ByteArrives \/ Shift \/ TimerExpires
  BY <1>1 DEF PeerCts, ByteArrives, Shift, TimerExpires
<1>2. CASE RxInterrupt
  BY <1>2 DEF RxInterrupt, TopEnter, TopStore, TopEnd, BottomLoop
<1>3. CASE Drain
  BY <1>3 DEF Drain, DrainTake, DrainTest, DrainRts, DrainBusy, DrainEmpty
<1>4. CASE TxInterrupt
  BY <1>4 DEF TxInterrupt, TxEnter, TxCts, TxFill
<1>5. CASE TimerInterrupt
  BY <1>5 DEF TimerInterrupt, TimerEnter, TimerFake, TimerPoll, TimerRestart, TimerExit
<1>6. CASE MaskRx \/ GetByte \/ SendCall
  BY <1>6 DEF MaskRx, Step, readOnly, GetByte, SendCall
<1>7. CASE ReadPending
  BY <1>7 DEF ReadPending, RpBusy, Step, readOnly, RpTake, RpEmpty, RpTest, RpRts, RpClear
<1>8. CASE EnableMark
  <2>1. pc' \in {"e3", "out", "wait", "poll"} /\ (pc' = "e3" \/ pc' = ret)
    BY <1>8 DEF EnableMark, Step
  <2>2. QED
    BY <1>8, <2>1 DEF EnableMark, Step, MainRuns, BhIdle, Masked, sendOnly
<1>9. CASE EnableTimer
  <2>1. pc' \in {"out", "wait", "poll"}
    BY <1>9 DEF EnableTimer, Step
  <2>2. QED
    BY <1>9, <2>1 DEF EnableTimer, Step, MainRuns, BhIdle, Masked, sendOnly
<1>10. CASE DisableIrq \/ DisableTest \/ DisableTimer \/ DisableMark \/ TransmitCts
           \/ TransmitUtxbf \/ TransmitTxreg \/ EnableIrq \/ WaitForRoom \/ AppendByte
  BY <1>10 DEF DisableIrq, Step, DisableTest, AfterDisable, DisableTimer, DisableMark,
         TransmitCts, TransmitUtxbf, TransmitTxreg, EnableIrq, WaitForRoom, AppendByte
<1>11. CASE UNCHANGED vars
  BY <1>11 DEF vars
<1>12. QED
  BY <1>1, <1>2, <1>3, <1>4, <1>5, <1>6, <1>7, <1>8, <1>9, <1>10,
     <1>11 DEF Next, Interrupts, RxInterrupt, Drain, TxInterrupt, TimerInterrupt,
            ReadPending, SendChar

(* Without a byte in the windows of uart_read_pending_data, nobody takes   *)
(* from the internal FIFO while the main program does.                     *)
LEMMA RingStep ==
  ASSUME ~LateByte
  PROVE  Counts /\ Booleans /\ BhPlace /\ Returns /\ LevelInv /\ HandInv /\
         RingInv /\ [Next]_vars => RingInv'
<1> SUFFICES ASSUME Counts, Booleans, BhPlace, Returns, LevelInv, HandInv, RingInv, [Next]_vars
             PROVE  RingInv'
  OBVIOUS
<1> USE SoftFcAssumption DEF rx, rxUse, txVars, poll, main, Counts, BhPlace, Returns,
          LevelInv, HandInv, RingInv, Quiet, Draining, LastPlaces, DrainPlaces, ReadPlaces,
          DisablePlaces, EnablePlaces
<1>1. CASE PeerCts \/ ByteArrives \/ Shift \/ TimerExpires
  BY <1>1 DEF PeerCts, ByteArrives, BhIdle, Shift, TimerExpires
<1>2. CASE RxInterrupt
  BY <1>2 DEF RxInterrupt, TopEnter, TopStore, TopEnd, BhIdle, Masked, BottomLoop
<1>3. CASE Drain
  BY <1>3 DEF Drain, DrainTake, At, Take, TakeRefused, DrainTest, DrainRts, DrainBusy,
         LeaveDrain, DrainEmpty
<1>4. CASE TxInterrupt
  BY <1>4 DEF TxInterrupt, TxEnter, BhIdle, BhMayStart, Masked, TxCts, TxFill
<1>5. CASE TimerInterrupt
  BY <1>5 DEF TimerInterrupt, TimerEnter, BhIdle, BhMayStart, Masked, TimerFake, At,
         TimerPoll, TimerRestart, TimerExit
<1>6. CASE MaskRx \/ GetByte \/ SendCall
  BY <1>6 DEF MaskRx, Step, MainRuns, BhIdle, Masked, readOnly, GetByte, SendCall, sendOnly
<1>7. CASE ReadPending
  BY <1>7 DEF ReadPending, RpBusy, Step, MainRuns, BhIdle, Masked, readOnly, RpTake, Take,
         TakeRefused, RpEmpty, RpTest, RpRts, RpClear
<1>8. CASE EnableMark
  <2>1. pc' \in {"e3", "out", "wait", "poll"} /\ (pc' = "e3" \/ pc' = ret)
    BY <1>8 DEF EnableMark, Step
  <2>2. QED
    BY <1>8, <2>1 DEF EnableMark, Step, MainRuns, BhIdle, Masked, sendOnly
<1>9. CASE EnableTimer
  <2>1. pc' \in {"out", "wait", "poll"}
    BY <1>9 DEF EnableTimer, Step
  <2>2. QED
    BY <1>9, <2>1 DEF EnableTimer, Step, MainRuns, BhIdle, Masked, sendOnly
<1>10. CASE DisableIrq \/ DisableTest \/ DisableTimer \/ DisableMark \/ TransmitCts
           \/ TransmitUtxbf \/ TransmitTxreg \/ EnableIrq \/ WaitForRoom \/ AppendByte
  BY <1>10 DEF DisableIrq, Step, MainRuns, BhIdle, Masked, sendOnly, DisableTest,
         AfterDisable, DisableTimer, DisableMark, TransmitCts, TransmitUtxbf, TransmitTxreg,
         EnableIrq, WaitForRoom, AppendByte
<1>11. CASE UNCHANGED vars
  BY <1>11 DEF vars
<1>12. QED
  BY <1>1, <1>2, <1>3, <1>4, <1>5, <1>6, <1>7, <1>8, <1>9, <1>10,
     <1>11 DEF Next, Interrupts, RxInterrupt, Drain, TxInterrupt, TimerInterrupt,
            ReadPending, SendChar

(* With a flag cleared on entry, a forced interrupt is never forgotten.    *)
LEMMA HandStep ==
  ASSUME ~FlagClearedLast
  PROVE  Counts /\ Booleans /\ BhPlace /\ Returns /\ RingInv /\ HandInv /\
         [Next]_vars => HandInv'
<1> SUFFICES ASSUME Counts, Booleans, BhPlace, Returns, RingInv, HandInv, [Next]_vars
             PROVE  HandInv'
  OBVIOUS
<1> USE DEF rx, rxUse, txVars, poll, main, Counts, BhPlace, Returns, HandInv, RingInv,
          Quiet, Draining, LastPlaces, DrainPlaces, ReadPlaces, DisablePlaces, EnablePlaces
<1>1. CASE PeerCts \/ ByteArrives \/ Shift \/ TimerExpires
  BY <1>1 DEF PeerCts, ByteArrives, BhIdle, Shift, TimerExpires
<1>2. CASE RxInterrupt
  BY <1>2 DEF RxInterrupt, TopEnter, TopStore, TopEnd, BhIdle, InsideSoftirq, BottomLoop
<1>3. CASE Drain
  BY <1>3 DEF Drain, DrainTake, At, DrainTest, DrainRts, DrainBusy, DrainEmpty
<1>4. CASE TxInterrupt
  BY <1>4 DEF TxInterrupt, TxEnter, BhIdle, BhMayStart, TxCts, TxFill
<1>5. CASE TimerExit
  <2>1. tif => tif'
    BY <1>5 DEF TimerExit
  <2>2. bh[2] = "clear" /\ bh' = <<"off", "off">> /\ UNCHANGED <<fake, level, busy, th, pc>>
    BY <1>5 DEF TimerExit, At
  <2>3. QED
    BY <2>1, <2>2
<1>6. CASE TimerEnter \/ TimerFake \/ TimerPoll \/ TimerRestart
  BY <1>6 DEF TimerEnter, BhIdle, BhMayStart, TimerFake, At, TimerPoll, TimerRestart
<1>7. CASE MaskRx \/ GetByte \/ SendCall
  BY <1>7 DEF MaskRx, Step, BhIdle, readOnly, GetByte, SendCall, sendOnly
<1>8. CASE ReadPending
  BY <1>8 DEF ReadPending, RpBusy, Step, BhIdle, readOnly, RpTake, RpEmpty, RpTest, RpRts,
         RpClear
<1>9. CASE EnableMark
  <2>1. pc' \in {"e3", "out", "wait", "poll"} /\ (pc' = "e3" \/ pc' = ret)
    BY <1>9 DEF EnableMark, Step
  <2>2. QED
    BY <1>9, <2>1 DEF EnableMark, Step, MainRuns, BhIdle, Masked, sendOnly
<1>10. CASE EnableTimer
  <2>1. pc' \in {"out", "wait", "poll"}
    BY <1>10 DEF EnableTimer, Step
  <2>2. QED
    BY <1>10, <2>1 DEF EnableTimer, Step, MainRuns, BhIdle, Masked, sendOnly
<1>11. CASE DisableIrq \/ DisableTest \/ DisableTimer \/ DisableMark \/ TransmitCts
           \/ TransmitUtxbf \/ TransmitTxreg \/ EnableIrq \/ WaitForRoom \/ AppendByte
  BY <1>11 DEF DisableIrq, Step, BhIdle, sendOnly, DisableTest, AfterDisable, DisableTimer,
         DisableMark, TransmitCts, TransmitUtxbf, TransmitTxreg, EnableIrq, WaitForRoom,
         AppendByte
<1>12. CASE UNCHANGED vars
  BY <1>12 DEF vars
<1>13. QED
  BY <1>1, <1>2, <1>3, <1>4, <1>5, <1>6, <1>7, <1>8, <1>9, <1>10, <1>11,
     <1>12 DEF Next, Interrupts, RxInterrupt, Drain, TxInterrupt, TimerInterrupt,
            ReadPending, SendChar

(* Without a poll between the refusal and the append, who refused stays to *)
(* come back for the byte.                                                 *)
LEMMA StrandedStep ==
  ASSUME ~Overtaken
  PROVE  Counts /\ Booleans /\ BhPlace /\ Returns /\ EnableInv /\ SendInv /\
         StrandedInv /\ [Next]_vars => StrandedInv'
<1> SUFFICES ASSUME Counts, Booleans, BhPlace, Returns, EnableInv, SendInv, StrandedInv, [Next]_vars
             PROVE  StrandedInv'
  OBVIOUS
<1> USE SoftFcAssumption DEF rx, rxUse, txVars, poll, main, Counts, BhPlace, EnableInv,
          OffPlaces, SendInv, Returns, StrandedInv, Refused, Utxbf, DrainPlaces, ReadPlaces,
          DisablePlaces, EnablePlaces
<1>1. CASE PeerCts
  BY <1>1 DEF PeerCts
<1>2. CASE ByteArrives
  BY <1>2 DEF ByteArrives, BhIdle
<1>3. CASE Shift
  BY <1>3 DEF Shift
<1>4. CASE TimerExpires
  BY <1>4 DEF TimerExpires
<1>5. CASE RxInterrupt
  BY <1>5 DEF RxInterrupt, TopEnter, TopStore, TopEnd, BhIdle, Masked, InsideSoftirq,
         BottomLoop
<1>6. CASE Drain
  BY <1>6 DEF Drain, DrainTake, At, DrainTest, DrainRts, DrainBusy, LeaveDrain, DrainEmpty
<1>7. CASE TxInterrupt
  BY <1>7 DEF TxInterrupt, TxEnter, BhIdle, BhMayStart, Masked, TxCts, TxFill
<1>8. CASE TimerInterrupt
  BY <1>8 DEF TimerInterrupt, TimerEnter, BhIdle, BhMayStart, Masked, TimerFake, At,
         TimerPoll, TimerRestart, TimerExit
<1>9. CASE MaskRx \/ GetByte \/ SendCall
  BY <1>9 DEF MaskRx, Step, MainRuns, BhIdle, Masked, readOnly, GetByte, SendCall, sendOnly
<1>10. CASE ReadPending
  BY <1>10 DEF ReadPending, RpBusy, Step, MainRuns, BhIdle, Masked, readOnly, RpTake,
         RpEmpty, RpTest, RpRts, RpClear
<1>11. CASE SendChar
  BY <1>11 DEF SendChar, DisableIrq, Step, MainRuns, BhIdle, Masked, sendOnly, DisableTest,
         DisableTimer, DisableMark, TransmitCts, TransmitUtxbf, TransmitTxreg, EnableIrq,
         EnableMark, EnableTimer, WaitForRoom, AppendByte
<1>12. CASE UNCHANGED vars
  BY <1>12 DEF vars
<1>13. QED
  BY <1>1, <1>2, <1>3, <1>4, <1>5, <1>6, <1>7, <1>8, <1>9, <1>10, <1>11,
     <1>12 DEF Next, Interrupts, RxInterrupt, Drain, TxInterrupt, TimerInterrupt,
            ReadPending, SendChar

-----------------------------------------------------------------------------
(* What holds whatever the timer and however late the bytes are. *)
Always == Counts /\ Booleans /\ BhPlace /\ MainPlace /\ Returns /\ LevelInv /\ SendInv

LEMMA AlwaysInit == Init => Always
<1> SUFFICES ASSUME Init PROVE Always
  OBVIOUS
<1> USE SoftFcAssumption DEF Init
<1>1. Counts
  BY DEF Counts
<1>2. Booleans
  BY DEF Booleans
<1>3. MainPlace
  BY DEF MainPlace, MainPlaces
<1>4. BhPlace /\ Returns
  BY DEF BhPlace, Returns, ReadPlaces, DisablePlaces, EnablePlaces
<1>5. LevelInv /\ SendInv
  BY DEF LevelInv, LoweringRts, SendInv, DisablePlaces
<1>6. QED
  BY <1>1, <1>2, <1>3, <1>4, <1>5 DEF Always

LEMMA AlwaysStep == Always /\ [Next]_vars => Always'
BY CountsStep, BooleansStep, BhPlaceStep, MainPlaceStep, ReturnsStep, LevelStep, SendStep
   DEF Always

LEMMA AlwaysHolds == Spec => []Always
BY AlwaysInit, AlwaysStep, PTL DEF Spec

(* The internal FIFO never fills, wherever the test and the write of RTS   *)
(* are interrupted (uart-software-fc.c:511); nor is the hardware FIFO or   *)
(* the user's ring given a byte it has no room for when sending.           *)
BuffersFit == level < FIFO_SIZE /\ rxHw <= RxDepth /\ txHw <= TxDepth /\ txRing <= TxRing
THEOREM FlowControlWorks == Spec => []BuffersFit
<1>1. Always => BuffersFit
  BY SoftFcAssumption DEF Always, Counts, Booleans, LevelInv, SendInv, BuffersFit
<1>2. QED
  BY <1>1, AlwaysHolds, PTL

(* While the main program is about to write UxTXREG, the ring is empty and *)
(* the transmitter has room: a byte sent directly overtakes none and none  *)
(* is written over (uart-software-fc.c:287), however the interrupts of     *)
(* three priorities come in between.                                       *)
THEOREM DirectInOrder == Spec => []NoOvertaking
<1>1. Always => NoOvertaking
  BY DEF Always, SendInv, NoOvertaking
<1>2. QED
  BY <1>1, AlwaysHolds, PTL

-----------------------------------------------------------------------------
(* The two parts about the internal FIFO need each other: the main program *)
(* is alone in uart_read_pending_data because no forced interrupt is       *)
(* outstanding, and none is forgotten because the main program was alone.  *)
FifoInv == Always /\ RingInv /\ HandInv

LEMMA FifoHolds ==
  ASSUME ~LateByte, ~FlagClearedLast
  PROVE  Spec => []FifoInv
<1>1. Init => RingInv /\ HandInv
  BY SoftFcAssumption DEF Init, RingInv, HandInv, Quiet, Draining, DrainPlaces, LastPlaces,
                          ReadPlaces
<1>2. Init => FifoInv
  BY <1>1, AlwaysInit DEF FifoInv
<1>3. FifoInv /\ [Next]_vars => FifoInv'
  <2> SUFFICES ASSUME FifoInv, [Next]_vars PROVE FifoInv'
    OBVIOUS
  <2>1. Always'
    BY AlwaysStep DEF FifoInv
  <2>2. RingInv'
    BY RingStep DEF FifoInv, Always
  <2>3. HandInv'
    BY HandStep DEF FifoInv, Always
  <2>4. QED
    BY <2>1, <2>2, <2>3 DEF FifoInv
<1>4. QED
  BY <1>2, <1>3, PTL DEF Spec

(* No buffer is written over by any of its writers: the bottom half, the   *)
(* forced timer interrupt and uart_read_pending_data each find room in the *)
(* user's ring for what they take (uart-software-fc.c:188), if no byte     *)
(* comes in the two windows and the timer clears its flag on entry.        *)
THEOREM NothingOverrun ==
  ASSUME ~LateByte, ~FlagClearedLast
  PROVE  Spec => []NoOverrun
<1>1. FifoInv => NoOverrun
  BY SoftFcAssumption DEF FifoInv, Always, Counts, Booleans, LevelInv, SendInv, RingInv, NoOverrun
<1>2. QED
  BY <1>1, FifoHolds, PTL

(* With the program at rest, a byte in the internal FIFO that the user has *)
(* room for has a forced timer interrupt on its way                        *)
(* (uart-software-fc.c:530).                                               *)
THEOREM NobodyLeavesBytes ==
  ASSUME ~LateByte, ~FlagClearedLast
  PROVE  Spec => []NothingLeftBehind
<1>1. FifoInv => NothingLeftBehind
  <2> SUFFICES ASSUME FifoInv, AtRest, ~busy, level > 0 PROVE fake /\ tif
    BY DEF NothingLeftBehind
  <2>1. bh[1] = "off" /\ ~Draining /\ ~th
    BY DEF AtRest, BhIdle, FifoInv, Always, BhPlace, Draining, DrainPlaces
  <2>2. fake
    BY <2>1 DEF FifoInv, HandInv
  <2>3. QED
    BY <2>1, <2>2 DEF FifoInv, HandInv
<1>2. QED
  BY <1>1, FifoHolds, PTL

-----------------------------------------------------------------------------
(* The transmission ring. *)
RingSentInv == Always /\ EnableInv /\ PollInv /\ StrandedInv

LEMMA RingSentHolds ==
  ASSUME ~Overtaken
  PROVE  Spec => []RingSentInv
<1>1. Init => EnableInv /\ PollInv /\ StrandedInv
  BY SoftFcAssumption DEF Init, EnableInv, OffPlaces, PollInv, StrandedInv, Refused
<1>2. Init => RingSentInv
  BY <1>1, AlwaysInit DEF RingSentInv
<1>3. RingSentInv /\ [Next]_vars => RingSentInv'
  <2> SUFFICES ASSUME RingSentInv, [Next]_vars PROVE RingSentInv'
    OBVIOUS
  <2>1. Always'
    BY AlwaysStep DEF RingSentInv
  <2>2. EnableInv'
    BY EnableStep DEF RingSentInv, Always
  <2>3. PollInv'
    BY PollStep DEF RingSentInv, Always
  <2>4. StrandedInv'
    BY StrandedStep DEF RingSentInv, Always
  <2>5. QED
    BY <2>1, <2>2, <2>3, <2>4 DEF RingSentInv
<1>4. QED
  BY <1>2, <1>3, PTL DEF Spec

(* With the program at rest, bytes in the ring have the transmit interrupt *)
(* or a poll of CTS that runs to send them (uart-software-fc.c:213), if    *)
(* neither comes between a refusal of uart_transmit_byte and the append.   *)
THEOREM RingIsSent ==
  ASSUME ~Overtaken
  PROVE  Spec => []NeverStranded
<1>1. RingSentInv => NeverStranded
  <2> SUFFICES ASSUME RingSentInv, AtRest, txRing > 0
               PROVE  (txie /\ (txif \/ txHw > 0)) \/ (stopTx = 1 /\ timerOn)
    BY DEF NeverStranded
  <2>1. pc = "out" /\ bh[1] = "off"
    BY DEF AtRest, BhIdle
  <2>2. txie /\ ~OnItsWay
    BY <2>1 DEF RingSentInv, EnableInv, OffPlaces, OnItsWay
  <2>3. txif \/ txHw > 0 \/ stopTx # 0
    BY <2>1 DEF RingSentInv, StrandedInv
  <2>4. QED
    BY <2>2, <2>3 DEF RingSentInv, PollInv
<1>2. QED
  BY <1>1, RingSentHolds, PTL
=============================================================================
