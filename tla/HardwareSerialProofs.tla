------------------------ MODULE HardwareSerialProofs ------------------------
(* Theorems about HardwareSerial for every buffer size and every bound.      *)
(* ShapeInv is inductive by itself and gives type correctness; OrderInv is   *)
(* inductive relative to it and gives the order and completeness of what is  *)
(* transmitted, under the timing assumption PromptTask.  ReceiveInv, also    *)
(* relative to ShapeInv and without an assumption on timing, says where the  *)
(* handler may write, that the bytes received and held are in the order of   *)
(* their arrival, and that none is held or lost unnoticed.                   *)
EXTENDS HardwareSerial, TLAPS

-----------------------------------------------------------------------------
(* Ring arithmetic.                                                          *)

\* Stepping an index modulo the size without the modulus.
LEMMA SuccValue ==
    ASSUME NEW size \in Nat, size >= 2, NEW i \in 0..size-1
    PROVE  /\ Succ(i, size) = IF i = size - 1 THEN 0 ELSE i + 1
           /\ Succ(i, size) \in 0..size-1
<1>1. CASE i = size - 1
  <2>1. size % size = 0
    OBVIOUS
  <2> QED BY <1>1, <2>1 DEF Succ
<1>2. CASE i # size - 1
  <2>1. i + 1 \in 0..size-1
    BY <1>2
  <2>2. (i + 1) % size = i + 1
    BY <2>1
  <2> QED BY <1>2, <2>1, <2>2 DEF Succ
<1> QED BY <1>1, <1>2

\* A ring holds between 0 and size - 1 bytes; it is empty when head meets tail.
LEMMA UsedRange ==
    ASSUME NEW size \in Nat, size >= 2,
           NEW head \in 0..size-1, NEW tail \in 0..size-1
    PROVE  /\ Used(head, tail, size) \in 0..size-1
           /\ Used(head, tail, size) = 0 <=> head = tail
           /\ Used(head, tail, size) = size - 1 <=> tail = Succ(head, size)
<1> Succ(head, size) = IF head = size - 1 THEN 0 ELSE head + 1
  BY SuccValue
<1> QED BY DEF Used

\* The slots between tail and head are slots of the buffer, and head is not
\* one of them.
LEMMA SlotRange ==
    ASSUME NEW size \in Nat, size >= 2,
           NEW head \in 0..size-1, NEW tail \in 0..size-1,
           NEW k \in 0..Used(head, tail, size)-1
    PROVE  /\ Slot(tail, k, size) \in 0..size-1
           /\ Slot(tail, k, size) # head
           /\ k \in Nat
<1> Used(head, tail, size) \in 0..size-1
  BY UsedRange
<1> QED BY DEF Used, Slot

\* Filling the slot at head.
LEMMA RingFill ==
    ASSUME NEW size \in Nat, size >= 2,
           NEW head \in 0..size-1, NEW tail \in 0..size-1,
           Used(head, tail, size) < size - 1
    PROVE  /\ Used(Succ(head, size), tail, size) = Used(head, tail, size) + 1
           /\ Slot(tail, Used(head, tail, size), size) = head
<1> Succ(head, size) = IF head = size - 1 THEN 0 ELSE head + 1
  BY SuccValue
<1> QED BY DEF Used, Slot

\* Freeing the slot at tail.
LEMMA RingFree ==
    ASSUME NEW size \in Nat, size >= 2,
           NEW head \in 0..size-1, NEW tail \in 0..size-1,
           head # tail
    PROVE  /\ Used(head, Succ(tail, size), size) = Used(head, tail, size) - 1
           /\ Slot(tail, 0, size) = tail
           /\ \A k \in 0..Used(head, tail, size)-2 :
                 Slot(Succ(tail, size), k, size) = Slot(tail, k + 1, size)
<1>1. Succ(tail, size) = IF tail = size - 1 THEN 0 ELSE tail + 1
  BY SuccValue
<1>2. Used(head, Succ(tail, size), size) = Used(head, tail, size) - 1
  BY <1>1 DEF Used
<1>3. Slot(tail, 0, size) = tail
  BY DEF Slot
<1>4. ASSUME NEW k \in 0..Used(head, tail, size)-2
      PROVE  Slot(Succ(tail, size), k, size) = Slot(tail, k + 1, size)
  <2>1. Used(head, tail, size) \in 0..size-1
    BY UsedRange
  <2>2. k \in 0..size-2
    BY <2>1
  <2> QED BY <1>1, <2>2 DEF Slot
<1> QED BY <1>2, <1>3, <1>4

LEMMA SlotZero ==
    ASSUME NEW size \in Nat, NEW tail \in 0..size-1
    PROVE  Slot(tail, 0, size) = tail
BY DEF Slot

\* What a ring holds, as a sequence, is made of bytes.
LEMMA RingBytesType ==
    ASSUME NEW size \in Nat, size >= 2,
           NEW head \in 0..size-1, NEW tail \in 0..size-1,
           NEW buf \in [0..size-1 -> Nat]
    PROVE  Range(RingBytes(buf, head, tail, size)) \subseteq Nat
<1> SUFFICES ASSUME NEW k \in 1..Used(head, tail, size)
             PROVE  buf[Slot(tail, k - 1, size)] \in Nat
  BY DEF Range, RingBytes
<1>1. Used(head, tail, size) \in 0..size-1
  BY UsedRange
<1>2. k - 1 \in 0..Used(head, tail, size)-1
  BY <1>1
<1>3. Slot(tail, k - 1, size) \in 0..size-1
  BY <1>2, SlotRange
<1> QED BY <1>3
-----------------------------------------------------------------------------
(* Type correctness.                                                         *)

\* The receive request: armed at a slot of the ring while the receive
\* interrupt is on; in the callback a byte has just been stored behind rxPtr.
RxShape ==
    /\ rxIE => isr = "idle" /\ rxPtr < RxSize
    /\ isr = "rxCallback" => rxPtr >= 1

\* The transmit request: the TBE interrupt is never used; with no transfer
\* under way the transmitter is empty; TC is not raised while it holds a byte.
TxShape ==
    /\ ~tbeIE
    /\ txState # "BUSY_TX" => tdr = NoByte /\ shift = NoByte /\ ~tcIE
    /\ pc = "transmit" => txState # "BUSY_TX"
    /\ pc = "kick" => /\ txState = "BUSY_TX"
                      /\ tdr = NoByte /\ shift = NoByte /\ ~tcIE
                      /\ txCount = 1 /\ txPtr < TxSize
    /\ tdr # NoByte => ~tc /\ shift = NoByte
    /\ shift # NoByte => ~tc

TxInv == TxType /\ TxShape
RxInv == RxType /\ RxShape
ShapeInv == TaskType /\ TxInv /\ RxInv

USE SizeAssumption

\* A lost byte's record.
LEMMA LossType ==
    ASSUME NEW b \in Nat
    PROVE  /\ <<b, "end">> \in Losses /\ <<b, "reread">> \in Losses
           /\ <<b, "full">> \in Losses /\ <<b, "overrun">> \in Losses
BY DEF Losses

LEMMA InitShape == Init => ShapeInv
<1> SUFFICES ASSUME Init PROVE ShapeInv
  OBVIOUS
<1>1. TaskType
  BY DEF Init, TaskType
<1>2. /\ TxHistType /\ RxHistType
      /\ txBuf \in [0..TxSize-1 -> Nat] /\ rxBuf \in [0..RxSize-1 -> Nat]
  BY DEF Init, TxHistType, RxHistType, NoByte
<1>3. TxInv
  <2>1. /\ tc \in BOOLEAN /\ tbeIE \in BOOLEAN /\ tcIE \in BOOLEAN
        /\ written \in BOOLEAN
    BY DEF Init
  <2>2. /\ txHead \in 0..TxSize-1 /\ txTail \in 0..TxSize-1
        /\ txPtr \in 0..TxSize /\ txCount \in Nat /\ count \in Nat
    BY DEF Init
  <2>3. /\ txState \in {"RESET", "READY", "BUSY_TX"}
        /\ tdr \in Nat /\ shift \in Nat
    BY DEF Init, NoByte
  <2>4. TxShape
    BY DEF Init, TxShape, NoByte
  <2>5. TxType
    BY <1>2, <2>1, <2>2, <2>3 DEF TxType
  <2> QED BY <2>4, <2>5 DEF TxInv
<1>4. RxInv
  <2>1. rbne \in BOOLEAN /\ err \in BOOLEAN /\ rxIE \in BOOLEAN
    BY DEF Init
  <2>2. /\ rxHead \in 0..RxSize-1 /\ rxTail \in 0..RxSize-1
        /\ rxPtr \in 0..RxSize
    BY DEF Init
  <2>3. /\ rxState \in {"RESET", "READY", "BUSY_RX"}
        /\ rdr \in Nat /\ char \in Nat
    BY DEF Init, NoByte
  <2>4. RxShape
    BY DEF Init, RxShape
  <2>5. RxType
    BY <1>2, <2>1, <2>2, <2>3 DEF RxType
  <2> QED BY <2>4, <2>5 DEF RxInv
<1> QED BY <1>1, <1>3, <1>4 DEF ShapeInv

\* A step that leaves one side of the driver alone keeps that side's part.
LEMMA TxUnchanged == TxInv /\ UNCHANGED <<txVars, pc>> => TxInv'
BY DEF TxInv, TxType, TxShape, txVars, txRing, txReq, txHw, txHist, TxHistType

LEMMA RxUnchanged == RxInv /\ UNCHANGED <<rxVars, isr>> => RxInv'
BY DEF RxInv, RxType, RxShape, rxVars, rxRing, rxReq, rxHw, rxHist,
       RxHistType

LEMMA StepShape == ShapeInv /\ [Next]_vars => ShapeInv'
<1> SUFFICES ASSUME ShapeInv, [Next]_vars PROVE ShapeInv'
  OBVIOUS
<1> USE DEF ShapeInv
<1>s. /\ Succ(txHead, TxSize) \in 0..TxSize-1
      /\ Succ(txTail, TxSize) \in 0..TxSize-1
      /\ Succ(rxHead, RxSize) \in 0..RxSize-1
      /\ Succ(rxTail, RxSize) \in 0..RxSize-1
  BY SuccValue DEF TxInv, TxType, RxInv, RxType, TxHistType, RxHistType
<1>1. ASSUME NEW config \in Configs, Begin(config)
      PROVE  ShapeInv'
  <2>0. FormatCompletes(config) \in BOOLEAN
    BY DEF FormatCompletes
  <2>1. TaskType'
    BY <1>1, <2>0 DEF Begin, TaskType, TaskAt, task
  <2>2. TxInv'
    BY <1>s, <1>1 DEF Begin, ResetUsart, ArmReceive, FormatCompletes,
       TaskAt, TxInv, TxType, TxShape, NoByte, task, txRing, txReq, txHw,
       txHist, txVars, TxHistType
  <2>4. RxHistType'
    BY <1>1, LossType DEF Begin, ResetUsart, RxInv, RxType, RxHistType
  <2>3. RxInv'
    <3>1. /\ rbne' = FALSE /\ err' = FALSE /\ rxIE' = TRUE /\ isr' = "idle"
          /\ rdr' = NoByte /\ rxPtr' = rxHead /\ rxState' = "BUSY_RX"
          /\ UNCHANGED <<rxRing, char>>
      BY <1>1 DEF Begin, ResetUsart, ArmReceive
    <3>2. RxType'
      <4>1. /\ rxBuf' \in [0..RxSize-1 -> Nat]
            /\ rxHead' \in 0..RxSize-1 /\ rxTail' \in 0..RxSize-1
            /\ char' \in Nat
        BY <3>1 DEF RxInv, RxType, rxRing
      <4>2. rxPtr' \in 0..RxSize /\ rdr' \in Nat
        BY <3>1 DEF RxInv, RxType, NoByte
      <4> QED
        BY <2>4, <3>1, <4>1, <4>2 DEF RxType
    <3>3. RxShape'
      BY <3>1 DEF RxShape, RxInv, RxType
    <3> QED BY <3>2, <3>3 DEF RxInv
  <2> QED BY <2>1, <2>2, <2>3
<1>2. CASE WriteCall
  <2>1. TaskType'
    BY <1>2 DEF WriteCall, TaskType, TaskAt, task
  <2>2. TxInv'
    BY <1>s, <1>2 DEF WriteCall, TaskAt, TxInv, TxType, TxShape, NoByte,
       task, txRing, txReq, txHw, txHist, txVars, TxHistType
  <2>3. RxInv'
    BY <1>2, RxUnchanged DEF WriteCall, rxVars, task
  <2> QED BY <2>1, <2>2, <2>3
<1>3. CASE WriteSpin
  <2>1. TaskType'
    BY <1>3 DEF WriteSpin, TaskType, TaskAt, task
  <2>2. TxInv'
    BY <1>s, <1>3 DEF WriteSpin, TaskAt, TxInv, TxType, TxShape, NoByte,
       task, txRing, txReq, txHw, txHist, txVars, TxHistType
  <2>3. RxInv'
    BY <1>3, RxUnchanged DEF WriteSpin, rxVars, task
  <2> QED BY <2>1, <2>2, <2>3
<1>4. CASE WriteStore
  <2>1. TaskType'
    BY <1>4 DEF WriteStore, TaskType, TaskAt, task
  <2>4. accepted + 1 \in Nat
    BY DEF TxInv, TxType, TxHistType
  <2>5. txBuf' \in [0..TxSize-1 -> Nat]
    BY <1>4, <2>4 DEF WriteStore, TxInv, TxType, TxHistType
  <2>2. TxInv'
    BY <1>4, <2>5 DEF WriteStore, TxInv, TxType, TxShape, txReq, txHw,
       txHist, TxHistType
  <2>3. RxInv'
    BY <1>4, RxUnchanged DEF WriteStore, rxVars, task
  <2> QED BY <2>1, <2>2, <2>3
<1>5. CASE WritePublish
  <2>1. TaskType'
    BY <1>5 DEF WritePublish, TaskType, TaskAt, task
  <2>4. TxHistType'
    BY <1>5 DEF WritePublish, TxInv, TxType, TxHistType
  <2>2. TxInv'
    BY <1>s, <1>5, <2>4 DEF WritePublish, TxInv, TxType, TxShape, txReq,
       txHw, TxHistType
  <2>3. RxInv'
    BY <1>5, RxUnchanged DEF WritePublish, rxVars, task
  <2> QED BY <2>1, <2>2, <2>3
<1>6. CASE WriteCountLoad
  <2>1. TaskType'
    BY <1>6 DEF WriteCountLoad, TaskType, TaskAt, task
  <2>2. TxInv'
    BY <1>s, <1>6 DEF WriteCountLoad, TaskAt, TxInv, TxType, TxShape,
       NoByte, task, txRing, txReq, txHw, txHist, txVars, TxHistType
  <2>3. RxInv'
    BY <1>6, RxUnchanged DEF WriteCountLoad, rxVars, task
  <2> QED BY <2>1, <2>2, <2>3
<1>7. CASE WriteCountStore
  <2>1. TaskType'
    BY <1>7 DEF WriteCountStore, TaskType, TaskAt, task
  <2>2. TxInv'
    <3>1. count + 1 \in Nat
      BY DEF TxInv, TxType
    <3>2. TxType'
      BY <1>7, <3>1 DEF WriteCountStore, TxInv, TxType, TxHistType, txRing,
         txHw, txHist
    <3>3. TxShape'
      BY <1>7 DEF WriteCountStore, TxInv, TxShape, txHw
    <3> QED BY <3>2, <3>3 DEF TxInv
  <2>3. RxInv'
    BY <1>7, RxUnchanged DEF WriteCountStore, rxVars, task
  <2> QED BY <2>1, <2>2, <2>3
<1>8. CASE WriteLeave
  <2>1. TaskType'
    BY <1>8 DEF WriteLeave, TaskType, TaskAt, task
  <2>2. TxInv'
    BY <1>s, <1>8 DEF WriteLeave, TaskAt, TxInv, TxType, TxShape, NoByte,
       task, txRing, txReq, txHw, txHist, txVars, TxHistType
  <2>3. RxInv'
    BY <1>8, RxUnchanged DEF WriteLeave, rxVars, task
  <2> QED BY <2>1, <2>2, <2>3
<1>9. CASE WriteIdleLine
  <2>1. TaskType'
    BY <1>9 DEF WriteIdleLine, TaskType, TaskAt, task
  <2>2. TxInv'
    BY <1>s, <1>9 DEF WriteIdleLine, TaskAt, TxInv, TxType, TxShape, NoByte,
       task, txRing, txReq, txHw, txHist, txVars, TxHistType
  <2>3. RxInv'
    BY <1>9, RxUnchanged DEF WriteIdleLine, rxVars, task
  <2> QED BY <2>1, <2>2, <2>3
<1>10. CASE WriteTransmit
  <2>1. TaskType'
    BY <1>10 DEF WriteTransmit, TaskType, TaskAt, task
  <2>2. TxInv'
    <3>1. TxType'
      BY <1>10 DEF WriteTransmit, TxInv, TxType, TxHistType, txRing, txHw,
         txHist
    <3>2. TxShape'
      BY <1>10 DEF WriteTransmit, TaskAt, TxInv, TxType, TxShape, txRing, txHw
    <3> QED BY <3>1, <3>2 DEF TxInv
  <2>3. RxInv'
    BY <1>10, RxUnchanged DEF WriteTransmit, rxVars, task
  <2> QED BY <2>1, <2>2, <2>3
<1>11. CASE WriteKick
  <2>1. TaskType'
    BY <1>11 DEF WriteKick, SendByte, TaskType, TaskAt, task
  <2>4. /\ tdr = NoByte /\ txCount = 1 /\ txPtr \in 0..TxSize-1
        /\ txState = "BUSY_TX" /\ shift = NoByte
    BY <1>11 DEF WriteKick, TaskAt, TxInv, TxType, TxShape, TxHistType
  <2>5. txBuf[txPtr] \in Nat
    BY <2>4 DEF TxInv, TxType, TxHistType
  <2>6. /\ tdr' \in Nat /\ tc' = FALSE /\ txPtr' \in 0..TxSize /\ txCount' = 0
        /\ tbeIE' = FALSE /\ tcIE' = TRUE /\ pc' = "idle"
        /\ UNCHANGED <<txRing, txState, txHist, count, written, shift>>
    BY <1>11, <2>4, <2>5 DEF WriteKick, SendByte
  <2>7. TxHistType'
    BY <2>6 DEF TxInv, TxType, TxHistType, txHist
  <2>2. TxInv'
    BY <2>4, <2>6, <2>7 DEF TxInv, TxType, TxShape, txRing, TxHistType
  <2>3. RxInv'
    BY <1>11, RxUnchanged DEF WriteKick, rxVars, task
  <2> QED BY <2>1, <2>2, <2>3
<1>12. CASE FlushCall
  <2>1. TaskType'
    BY <1>12 DEF FlushCall, TaskType, TaskAt, task
  <2>2. TxInv'
    BY <1>s, <1>12 DEF FlushCall, TaskAt, TxInv, TxType, TxShape, NoByte,
       task, txRing, txReq, txHw, txHist, txVars, TxHistType
  <2>3. RxInv'
    BY <1>12, RxUnchanged DEF FlushCall, rxVars, task
  <2> QED BY <2>1, <2>2, <2>3
<1>13. CASE FlushDone
  <2>1. TaskType'
    BY <1>13 DEF FlushDone, TaskType, TaskAt, task
  <2>2. TxInv'
    BY <1>s, <1>13 DEF FlushDone, TaskAt, TxInv, TxType, TxShape, NoByte,
       task, txRing, txReq, txHw, txHist, txVars, TxHistType
  <2>3. RxInv'
    BY <1>13, RxUnchanged DEF FlushDone, rxVars, task
  <2> QED BY <2>1, <2>2, <2>3
<1>14. CASE EndFlushed
  <2>1. TaskType'
    BY <1>14 DEF EndFlushed, TaskType, TaskAt, task
  <2>2. TxInv'
    BY <1>s, <1>14 DEF EndFlushed, TaskAt, TxInv, TxType, TxShape, NoByte,
       task, txRing, txReq, txHw, txHist, txVars, TxHistType
  <2>3. RxInv'
    BY <1>14, RxUnchanged DEF EndFlushed, rxVars, task
  <2> QED BY <2>1, <2>2, <2>3
<1>15. CASE IsrTransmit
  <2>1. TaskType'
    BY <1>15 DEF IsrTransmit, TxPending, TbePending, TcPending, TxNextTail,
       TxMore, SendByte, TaskType, TaskAt, task
  <2>4. ~TbePending /\ tcIE /\ tc /\ tdr = NoByte /\ shift = NoByte
    BY <1>15 DEF IsrTransmit, TxPending, TbePending, TcPending, TxInv, TxShape
  <2>5. TxNextTail \in 0..TxSize-1 /\ txBuf[TxNextTail] \in Nat
    BY <1>s DEF TxNextTail, TxInv, TxType, TxHistType
  <2>6. pc # "kick" /\ pc # "transmit"
    BY <2>4 DEF TxInv, TxShape
  <2>7. TxHistType' /\ UNCHANGED <<pc, txBuf, txHead, count, written>>
    BY <1>15 DEF IsrTransmit, TxInv, TxType, TxHistType, txHist, task
  <2>8. ASSUME TxMore(TxNextTail) PROVE TxInv'
    <3>1. /\ tdr' \in Nat /\ tc' = FALSE /\ txPtr' \in 0..TxSize
          /\ txCount' = 0 /\ tbeIE' = FALSE /\ tcIE' = TRUE
          /\ txState' = "BUSY_TX" /\ txTail' = TxNextTail /\ UNCHANGED shift
      BY <1>15, <2>4, <2>5, <2>8 DEF IsrTransmit, SendByte
    <3>2. TxType'
      BY <2>4, <2>5, <2>7, <3>1 DEF TxInv, TxType
    <3>3. TxShape'
      BY <2>4, <2>6, <2>7, <3>1 DEF TxInv, TxShape, NoByte
    <3> QED BY <3>2, <3>3 DEF TxInv
  <2>9. ASSUME ~TxMore(TxNextTail) PROVE TxInv'
    <3>1. /\ tc' = FALSE /\ tcIE' = FALSE
          /\ txState' = "READY" /\ txTail' = TxNextTail
          /\ UNCHANGED <<txPtr, txCount, tdr, shift, tbeIE>>
      BY <1>15, <2>4, <2>9 DEF IsrTransmit
    <3>2. TxType'
      BY <2>4, <2>5, <2>7, <3>1 DEF TxInv, TxType
    <3>3. TxShape'
      BY <2>4, <2>6, <2>7, <3>1 DEF TxInv, TxShape, NoByte
    <3> QED BY <3>2, <3>3 DEF TxInv
  <2>2. TxInv'
    BY <2>8, <2>9
  <2>3. RxInv'
    BY <1>15, RxUnchanged DEF IsrTransmit, rxVars, task
  <2> QED BY <2>1, <2>2, <2>3
<1>16. CASE LineLoad
  <2>1. TaskType'
    BY <1>16 DEF LineLoad, TaskType, TaskAt, task
  <2>2. TxInv'
    BY <1>s, <1>16 DEF LineLoad, TaskAt, TxInv, TxType, TxShape, NoByte,
       task, txRing, txReq, txHw, txHist, txVars, TxHistType
  <2>3. RxInv'
    BY <1>16, RxUnchanged DEF LineLoad, rxVars, task
  <2> QED BY <2>1, <2>2, <2>3
<1>17. CASE LineOut
  <2>1. TaskType'
    BY <1>17 DEF LineOut, TaskType, TaskAt, task
  <2>4. TxHistType'
    BY <1>17 DEF LineOut, TxInv, TxType, TxHistType
  <2>5. tc' \in BOOLEAN
    BY <1>17 DEF LineOut
  <2>6. tdr = NoByte /\ pc # "kick" /\ txState = "BUSY_TX"
    BY <1>17 DEF LineOut, TxInv, TxShape
  <2>7. shift' = NoByte
    BY <1>17 DEF LineOut
  <2>8. UNCHANGED <<pc, txRing, txReq, tdr, tbeIE, tcIE, accepted, count,
                    written>>
    BY <1>17 DEF LineOut, task
  <2>2. TxInv'
    BY <2>4, <2>5, <2>6, <2>7, <2>8 DEF TxInv, TxType, TxShape, txRing,
       txReq, TxHistType
  <2>3. RxInv'
    BY <1>17, RxUnchanged DEF LineOut, rxVars, task
  <2> QED BY <2>1, <2>2, <2>3
<1>18. CASE ReadCall
  <2>1. TaskType'
    BY <1>18 DEF ReadCall, TaskType, TaskAt, task
  <2>2. TxInv'
    BY <1>18 DEF ReadCall, TaskAt, TxInv, TxType, TxShape, NoByte, task,
       txRing, txReq, txHw, txHist, txVars, TxHistType
  <2>3. RxInv'
    BY <1>s, <1>18 DEF ReadCall, TaskAt, RxInv, RxType, RxShape, NoByte,
       task, rxRing, rxReq, rxHw, rxHist, rxVars, RxHistType
  <2> QED BY <2>1, <2>2, <2>3
<1>19. CASE ReadAdvance
  <2>1. TaskType'
    BY <1>19 DEF ReadAdvance, TaskType, TaskAt, task
  <2>2. TxInv'
    BY <1>19 DEF ReadAdvance, TaskAt, TxInv, TxType, TxShape, NoByte, task,
       txRing, txReq, txHw, txHist, txVars, TxHistType
  <2>4. RxHistType'
    BY <1>19 DEF ReadAdvance, RxInv, RxType, RxHistType
  <2>3. RxInv'
    BY <1>s, <1>19, <2>4 DEF ReadAdvance, RxInv, RxType, RxShape, NoByte,
       rxReq, rxHw, RxHistType
  <2> QED BY <2>1, <2>2, <2>3
<1>20. CASE IsrReceive
  <2>1. TaskType'
    BY <1>20 DEF IsrReceive, RxPending, TaskType, TaskAt, task
  <2>2. TxInv'
    BY <1>20, TxUnchanged DEF IsrReceive, txVars, task
  <2>4. rxPtr \in 0..RxSize-1
    BY <1>20 DEF IsrReceive, RxPending, RxInv, RxType, RxShape, RxHistType
  <2>5. rxBuf' \in [0..RxSize-1 -> Nat]
    BY <1>20, <2>4 DEF IsrReceive, RxInv, RxType, RxHistType
  <2>6. RxHistType'
    BY <1>20 DEF IsrReceive, RxInv, RxType, RxHistType, rxHist
  <2>7. /\ rxPtr' = rxPtr + 1 /\ rbne' = FALSE /\ rxIE' = FALSE
        /\ rxState' = "READY" /\ isr' = "rxCallback"
        /\ UNCHANGED <<rxHead, rxTail, rdr, err, char>>
    BY <1>20 DEF IsrReceive, task
  <2>3. RxInv'
    <3>1. RxType'
      <4>1. rxPtr' \in 0..RxSize
        BY <2>4, <2>7
      <4>2. rbne' \in BOOLEAN /\ err' \in BOOLEAN /\ rxIE' \in BOOLEAN
        BY <2>7 DEF RxInv, RxType
      <4>3. /\ rxHead' \in 0..RxSize-1 /\ rxTail' \in 0..RxSize-1
            /\ rdr' \in Nat /\ char' \in Nat
        BY <2>7 DEF RxInv, RxType
      <4> QED
        BY <2>5, <2>6, <2>7, <4>1, <4>2, <4>3 DEF RxType
    <3>2. RxShape'
      BY <2>4, <2>7 DEF RxShape
    <3> QED BY <3>1, <3>2 DEF RxInv
  <2> QED BY <2>1, <2>2, <2>3
<1>21. CASE IsrRxCallback
  <2>1. TaskType'
    BY <1>21 DEF IsrRxCallback, RxRoom, RxNextHead, ArmReceive, TaskType,
       TaskAt, task
  <2>2. TxInv'
    BY <1>21, TxUnchanged DEF IsrRxCallback, txVars, task
  <2>4. rxPtr - 1 \in 0..RxSize-1 /\ rxBuf[rxPtr - 1] \in Nat
    BY <1>21 DEF IsrRxCallback, RxInv, RxType, RxShape, RxHistType
  <2>5. rxBuf' \in [0..RxSize-1 -> Nat]
    BY <1>21 DEF IsrRxCallback, RxInv, RxType, RxHistType
  <2>6. rxHead' \in 0..RxSize-1
    BY <1>21, <1>s DEF IsrRxCallback, RxNextHead, RxInv, RxType, RxHistType
  <2>7. RxHistType'
    <3>1. rdr \in Nat
      BY DEF RxInv, RxType
    <3>2. <<rxBuf[rxPtr - 1], "reread">> \in Losses /\ <<rdr, "full">> \in Losses
      BY <2>4, <3>1, LossType
    <3> QED BY <1>21, <3>2 DEF IsrRxCallback, RxInv, RxType, RxHistType, RxHistType
  <2>8. /\ rbne' = FALSE /\ rxPtr' = rxHead' /\ rxState' = "BUSY_RX"
        /\ rxIE' = TRUE /\ isr' = "idle" /\ UNCHANGED <<rxTail, rdr, err, char>>
    BY <1>21 DEF IsrRxCallback, ArmReceive, task
  <2>3. RxInv'
    <3>1. RxType'
      <4>1. /\ rxTail' \in 0..RxSize-1 /\ rdr' \in Nat /\ char' \in Nat
            /\ err' \in BOOLEAN
        BY <2>8 DEF RxInv, RxType
      <4>2. rxPtr' \in 0..RxSize
        BY <2>6, <2>8
      <4>3. rbne' \in BOOLEAN /\ rxIE' \in BOOLEAN
        BY <2>8
      <4>4. rxState' \in {"RESET", "READY", "BUSY_RX"}
        BY <2>8
      <4> QED
        BY <2>5, <2>6, <2>7, <4>1, <4>2, <4>3, <4>4 DEF RxType
    <3>2. RxShape'
      BY <2>6, <2>8 DEF RxShape
    <3> QED BY <3>1, <3>2 DEF RxInv
  <2> QED BY <2>1, <2>2, <2>3
<1>22. CASE IsrError
  <2>1. TaskType'
    BY <1>22 DEF IsrError, TaskType, TaskAt, task
  <2>2. TxInv'
    BY <1>22, TxUnchanged DEF IsrError, txVars, task
  <2>3. RxInv'
    BY <1>s, <1>22 DEF IsrError, TaskAt, RxInv, RxType, RxShape, NoByte,
       task, rxRing, rxReq, rxHw, rxHist, rxVars, RxHistType
  <2> QED BY <2>1, <2>2, <2>3
<1>23. CASE EndCall
  <2>1. TaskType'
    BY <1>23 DEF EndCall, RxRingIds, TaskType, TaskAt, task
  <2>2. TxInv'
    BY <1>23 DEF EndCall, TaskAt, TxInv, TxType, TxShape, NoByte, task,
       txRing, txReq, txHw, txHist, txVars, TxHistType
  <2>4. RxRingIds \subseteq Nat
    BY RingBytesType DEF RxRingIds, RxInv, RxType, RxHistType
  <2>5. RxHistType'
    BY <1>23, <2>4, LossType DEF EndCall, RxInv, RxType, RxHistType
  <2>3. RxInv'
    BY <1>23, <2>5 DEF EndCall, RxInv, RxType, RxShape, rxReq, rxHw, RxHistType
  <2> QED BY <2>1, <2>2, <2>3
<1>24. ASSUME NEW damaged \in BOOLEAN, LineIn(damaged)
      PROVE  ShapeInv'
  <2>1. TaskType'
    BY <1>24 DEF LineIn, TaskType, TaskAt, task
  <2>2. TxInv'
    BY <1>24, TxUnchanged DEF LineIn, txVars, task
  <2>4. arrived + 1 \in Nat
    BY DEF RxInv, RxType, RxHistType
  <2>5. RxHistType'
    <3>1. <<arrived + 1, "overrun">> \in Losses
      BY <2>4, LossType
    <3>2. lost' \subseteq lost \cup {<<arrived + 1, "overrun">>}
      BY <1>24 DEF LineIn
    <3>3. arrived' \in Nat /\ delivered' = delivered
      BY <1>24, <2>4 DEF LineIn
    <3> QED BY <3>1, <3>2, <3>3 DEF RxInv, RxType, RxHistType, RxHistType
  <2>6. err' \in BOOLEAN
    BY <1>24 DEF LineIn, RxInv, RxType, RxHistType
  <2>7. rdr' \in Nat /\ rbne' \in BOOLEAN
    BY <1>24, <2>4 DEF LineIn, RxInv, RxType, RxHistType
  <2>8. UNCHANGED <<rxRing, rxReq, rxIE, char, isr>>
    BY <1>24, <2>4 DEF LineIn, task
  <2>3. RxInv'
    BY <2>5, <2>6, <2>7, <2>8 DEF RxInv, RxType, RxShape, rxRing, rxReq,
       RxHistType
  <2> QED BY <2>1, <2>2, <2>3
<1>25. CASE EndFree
  <2>1. TaskType'
    BY <1>25 DEF EndFree, ResetUsart, TaskType, TaskAt, task
  <2>2. TxInv'
    BY <1>s, <1>25 DEF EndFree, ResetUsart, TaskAt, TxInv, TxType, TxShape,
       NoByte, task, txRing, txReq, txHw, txHist, txVars, TxHistType
  <2>4. RxHistType'
    BY <1>25, LossType DEF EndFree, ResetUsart, RxInv, RxType, RxHistType
  <2>3. RxInv'
    BY <1>25, <2>4 DEF EndFree, ResetUsart, RxInv, RxType, RxShape, NoByte,
       rxRing, rxReq, RxHistType
  <2> QED BY <2>1, <2>2, <2>3
<1>26. CASE UNCHANGED vars
  <2>1. TaskType'
    BY <1>26 DEF vars, TaskType, TaskAt, task
  <2>2. TxInv'
    BY <1>26, TxUnchanged DEF vars, txVars, task
  <2>3. RxInv'
    BY <1>26, RxUnchanged DEF vars, rxVars, task
  <2> QED BY <2>1, <2>2, <2>3
<1> QED
  BY <1>1, <1>2, <1>3, <1>4, <1>5, <1>6, <1>7, <1>8, <1>9, <1>10, <1>11,
     <1>12, <1>13, <1>14, <1>15, <1>16, <1>17, <1>18, <1>19, <1>20, <1>21,
     <1>22, <1>23, <1>24, <1>25, <1>26
  DEF Next, CallStep, Isr, Line

\* Every variable keeps its type and every index stays inside its buffer, for
\* every buffer size, config byte and number of calls.
THEOREM TypeCorrect == Spec => []TypeOK
<1>1. Spec => []ShapeInv
  BY InitShape, StepShape, PTL DEF Spec
<1>2. ShapeInv => TypeOK
  BY DEF ShapeInv, TypeOK, TxInv, RxInv
<1> QED BY <1>1, <1>2, PTL
-----------------------------------------------------------------------------
(* Order of transmission.                                                    *)

TxUsed == Used(txHead, txTail, TxSize)

\* The bytes whose transmission the interrupt handler has confirmed.
Confirmed == accepted - TxUsed

Writing == {"spin", "store", "publish", "countLoad", "countStore", "check",
            "transmit", "kick"}

\* What each point of a call knows: space once past the spin loop, the byte
\* stored before it is published, the ring drained before the port closes.
CallInv ==
    /\ pc \in Writing => open /\ written
    /\ pc \in {"flush", "endFlush", "free"} => open
    /\ pc \in {"store", "publish"} => TxUsed < TxSize - 1
    /\ pc = "publish" => txBuf[txHead] = accepted + 1
    /\ pc = "free" => txHead = txTail
    /\ ~written => txHead = txTail
    /\ ~open => txHead = txTail

\* The ring holds the accepted bytes above Confirmed, in order.
RingInv ==
    /\ TxUsed <= accepted
    /\ \A k \in 0..TxUsed-1 : txBuf[Slot(txTail, k, TxSize)] = Confirmed + 1 + k

\* The line carried the confirmed bytes and at most the one being confirmed.
LineInv ==
    /\ Len(wire) \in {Confirmed, Confirmed + 1}
    /\ \A i \in 1..Len(wire) : wire[i] = i

\* With no transfer under way everything on the line is confirmed, and waiting
\* bytes are about to be started by write(); with one under way the oldest
\* unconfirmed byte is in TDATA, in the shift register, or out with TC raised.
TransferInv ==
    /\ txState # "BUSY_TX" \/ pc = "kick" =>
          /\ Len(wire) = Confirmed
          /\ txHead # txTail => pc \in {"countLoad", "countStore", "check",
                                        "transmit", "kick"}
    /\ pc \in {"transmit", "kick"} => txHead # txTail
    /\ pc = "kick" => txPtr = txTail
    /\ txState = "BUSY_TX" /\ pc # "kick" =>
          /\ txHead # txTail
          /\ tcIE
          /\ \/ tdr = Confirmed + 1 /\ shift = NoByte /\ Len(wire) = Confirmed
             \/ tdr = NoByte /\ shift = Confirmed + 1 /\ Len(wire) = Confirmed
             \/ /\ tdr = NoByte /\ shift = NoByte /\ tc
                /\ Len(wire) = Confirmed + 1

\* PromptTask at work: a byte just published is not out before write() tests
\* tx_state.
PromptInv ==
    pc \in {"countLoad", "countStore", "check", "transmit", "kick"}
        => Len(wire) < accepted

OrderInv == CallInv /\ RingInv /\ LineInv /\ TransferInv /\ PromptInv

\* What the types say of the quantities above.
LEMMA OrderFacts ==
    ASSUME ShapeInv, RingInv
    PROVE  /\ TxUsed \in 0..TxSize-1
           /\ TxUsed = 0 <=> txHead = txTail
           /\ accepted \in Nat /\ Len(wire) \in Nat /\ Confirmed \in Nat
           /\ wire \in Seq(Nat)
<1>1. /\ txHead \in 0..TxSize-1 /\ txTail \in 0..TxSize-1
      /\ accepted \in Nat /\ wire \in Seq(Nat)
  BY DEF ShapeInv, TxInv, TxType, TxHistType
<1>2. TxUsed \in 0..TxSize-1 /\ (TxUsed = 0 <=> txHead = txTail)
  BY <1>1, UsedRange DEF TxUsed
<1>3. Confirmed \in Nat
  BY <1>1, <1>2 DEF RingInv, Confirmed
<1> QED BY <1>1, <1>2, <1>3

\* The oldest byte in the ring is the first unconfirmed one.
LEMMA Oldest ==
    ASSUME ShapeInv, RingInv, txHead # txTail
    PROVE  txBuf[txTail] = Confirmed + 1
<1>1. /\ txHead \in 0..TxSize-1 /\ txTail \in 0..TxSize-1
  BY DEF ShapeInv, TxInv, TxType
<1>2. 0 \in 0..TxUsed-1
  BY OrderFacts
<1>3. Slot(txTail, 0, TxSize) = txTail
  BY <1>1, RingFree
<1> QED BY <1>2, <1>3, OrderFacts DEF RingInv

\* A step that leaves the ring and the line alone.
LEMMA DataUnchanged ==
    RingInv /\ LineInv /\ UNCHANGED <<txRing, txHist>>
        => RingInv' /\ LineInv' /\ TxUsed' = TxUsed /\ Confirmed' = Confirmed
BY DEF RingInv, LineInv, TxUsed, Confirmed, txRing, txHist

\* A step of the receiver.
LEMMA OrderUnchanged ==
    OrderInv /\ UNCHANGED <<pc, open, txVars>> => OrderInv'
<1> SUFFICES ASSUME OrderInv, UNCHANGED <<pc, open, txVars>> PROVE OrderInv'
  OBVIOUS
<1>1. UNCHANGED <<txBuf, txHead, txTail, txPtr, txState, tdr, shift, tc, tcIE,
                  accepted, wire, written>>
  BY DEF txVars, txRing, txReq, txHw, txHist
<1>2. RingInv' /\ LineInv' /\ TxUsed' = TxUsed /\ Confirmed' = Confirmed
  BY <1>1, DataUnchanged DEF OrderInv, txRing, txHist
<1>3. CallInv'
  BY <1>1, <1>2 DEF OrderInv, CallInv
<1>4. TransferInv'
  BY <1>1, <1>2 DEF OrderInv, TransferInv
<1>5. PromptInv'
  BY <1>1 DEF OrderInv, PromptInv
<1> QED BY <1>2, <1>3, <1>4, <1>5 DEF OrderInv

LEMMA InitOrder == Init => OrderInv
<1> SUFFICES ASSUME Init PROVE OrderInv
  OBVIOUS
<1>1. TxUsed = 0 /\ Confirmed = 0
  BY DEF Init, TxUsed, Confirmed, Used
<1>2. CallInv
  BY DEF Init, CallInv, Writing
<1>3. RingInv /\ LineInv
  BY <1>1 DEF Init, RingInv, LineInv
<1>4. TransferInv /\ PromptInv
  BY <1>1 DEF Init, TransferInv, PromptInv
<1> QED BY <1>2, <1>3, <1>4 DEF OrderInv

LEMMA StepOrder ==
    ASSUME PromptTask, ShapeInv, OrderInv, [Next]_vars
    PROVE  OrderInv'
<1> USE DEF OrderInv
<1>t. /\ TxUsed \in 0..TxSize-1
      /\ TxUsed = 0 <=> txHead = txTail
      /\ accepted \in Nat /\ Len(wire) \in Nat /\ Confirmed \in Nat
      /\ wire \in Seq(Nat)
      /\ txHead \in 0..TxSize-1 /\ txTail \in 0..TxSize-1
  BY OrderFacts DEF ShapeInv, TxInv, TxType
<1>c. Confirmed = accepted - TxUsed
  BY DEF Confirmed
<1>1. ASSUME NEW config \in Configs, Begin(config)
      PROVE  OrderInv'
  <2>1. RingInv' /\ LineInv' /\ TxUsed' = TxUsed /\ Confirmed' = Confirmed
    BY <1>1, DataUnchanged DEF Begin
  <2>2. /\ pc = "idle" /\ ~open /\ txHead = txTail
        /\ pc' = pc /\ open' /\ txState' = "READY"
        /\ UNCHANGED <<written, txHead, txTail, txHist>>
    BY <1>1 DEF Begin, TaskAt, CallInv, txRing
  <2>3. CallInv'
    BY <2>2 DEF CallInv, Writing
  <2>4. TransferInv'
    BY <2>1, <2>2 DEF TransferInv, txHist
  <2>5. PromptInv'
    BY <2>2 DEF PromptInv
  <2> QED BY <2>1, <2>3, <2>4, <2>5
<1>2. CASE WriteCall
  <2>1. RingInv' /\ LineInv' /\ TxUsed' = TxUsed /\ Confirmed' = Confirmed
    BY <1>2, DataUnchanged DEF WriteCall, txVars, txRing, txHist
  <2>2. CallInv'
    BY <1>t, <1>2, <2>1 DEF WriteCall, TaskAt, CallInv, Writing, txVars,
       txRing, txHist
  <2>3. TransferInv'
    BY <1>t, <1>c, <1>2, <2>1 DEF WriteCall, TaskAt, TransferInv,
       PromptInv, CallInv, Writing, txVars, txRing, txReq, txHw, txHist
  <2>4. PromptInv'
    BY <1>t, <1>2 DEF WriteCall, TaskAt, PromptInv, TransferInv, txVars,
       txRing, txHist
  <2> QED BY <2>1, <2>2, <2>3, <2>4
<1>3. CASE WriteSpin
  <2>1. RingInv' /\ LineInv' /\ TxUsed' = TxUsed /\ Confirmed' = Confirmed
    BY <1>3, DataUnchanged DEF WriteSpin, txVars, txRing, txHist
  <2>2. CallInv'
    BY <1>t, <1>3, <2>1, UsedRange DEF WriteSpin, TaskAt, CallInv, Writing,
       txVars, txRing, txHist, TxSpace, TxUsed
  <2>3. TransferInv'
    BY <1>t, <1>c, <1>3, <2>1 DEF WriteSpin, TaskAt, TransferInv,
       PromptInv, CallInv, Writing, txVars, txRing, txReq, txHw, txHist
  <2>4. PromptInv'
    BY <1>t, <1>3 DEF WriteSpin, TaskAt, PromptInv, TransferInv, txVars,
       txRing, txHist
  <2> QED BY <2>1, <2>2, <2>3, <2>4
<1>4. CASE WriteStore
  <2>1. /\ pc = "store" /\ pc' = "publish" /\ txBuf' = [txBuf EXCEPT ![txHead] = accepted + 1]
        /\ UNCHANGED <<open, written, txHead, txTail, txReq, txHw, txHist>>
    BY <1>4 DEF WriteStore, TaskAt
  <2>2. TxUsed' = TxUsed /\ Confirmed' = Confirmed
    BY <2>1 DEF TxUsed, Confirmed, txHist
  <2>3. txBuf \in [0..TxSize-1 -> Nat]
    BY DEF ShapeInv, TxInv, TxType
  <2>4. RingInv'
    <3>1. ASSUME NEW k \in 0..TxUsed-1
          PROVE  txBuf'[Slot(txTail, k, TxSize)] = Confirmed + 1 + k
      <4>1. Slot(txTail, k, TxSize) \in 0..TxSize-1 /\ Slot(txTail, k, TxSize) # txHead
        BY <1>t, SlotRange DEF TxUsed
      <4> QED BY <2>1, <2>3, <4>1 DEF RingInv
    <3> QED BY <2>1, <2>2, <3>1 DEF RingInv, txHist
  <2>5. LineInv'
    BY <2>1, <2>2 DEF LineInv, txHist
  <2>6. CallInv'
    <3>1. txBuf'[txHead'] = accepted' + 1
      BY <1>t, <2>1, <2>3 DEF txHist
    <3> QED BY <2>1, <2>2, <3>1 DEF CallInv, Writing
  <2>7. TransferInv'
    BY <2>1, <2>2 DEF TransferInv, txReq, txHw, txHist
  <2>8. PromptInv'
    BY <2>1 DEF PromptInv
  <2> QED BY <2>4, <2>5, <2>6, <2>7, <2>8
<1>5. CASE WritePublish
  <2>1. /\ pc = "publish" /\ pc' = "countLoad" /\ txHead' = Succ(txHead, TxSize)
        /\ accepted' = accepted + 1
        /\ UNCHANGED <<open, written, txBuf, txTail, txReq, txHw, wire>>
    BY <1>5 DEF WritePublish, TaskAt
  <2>2. TxUsed < TxSize - 1 /\ txBuf[txHead] = accepted + 1 /\ open /\ written
    BY <2>1 DEF CallInv, Writing
  <2>3. TxUsed' = TxUsed + 1 /\ Slot(txTail, TxUsed, TxSize) = txHead
    BY <1>t, <2>1, <2>2, RingFill DEF TxUsed
  <2>4. Confirmed' = Confirmed
    BY <1>t, <1>c, <2>1, <2>3 DEF Confirmed
  <2>5. txHead' # txTail'
    <3>1. txHead' \in 0..TxSize-1
      BY <1>t, <2>1, SuccValue
    <3> QED BY <1>t, <2>1, <2>3, <3>1, UsedRange DEF TxUsed
  <2>6. RingInv'
    <3>1. ASSUME NEW k \in 0..TxUsed
          PROVE  txBuf[Slot(txTail, k, TxSize)] = Confirmed + 1 + k
      <4>1. k = TxUsed \/ k \in 0..TxUsed-1
        BY <1>t
      <4>2. k = TxUsed => txBuf[Slot(txTail, k, TxSize)] = Confirmed + 1 + k
        BY <1>t, <1>c, <2>2, <2>3
      <4> QED BY <4>1, <4>2 DEF RingInv
    <3>2. 0..TxUsed'-1 = 0..TxUsed
      BY <1>t, <2>3
    <3>3. TxUsed' <= accepted'
      BY <1>t, <2>1, <2>3 DEF RingInv
    <3> QED BY <2>1, <2>4, <3>1, <3>2, <3>3 DEF RingInv
  <2>7. LineInv'
    BY <2>1, <2>4 DEF LineInv
  <2>8. CallInv'
    BY <2>1, <2>2 DEF CallInv, Writing
  <2>9. TransferInv'
    BY <2>1, <2>4, <2>5 DEF TransferInv, txReq, txHw
  <2>10. PromptInv'
    BY <1>t, <1>c, <2>1, <2>4 DEF PromptInv, LineInv, TransferInv, txReq
  <2> QED BY <2>6, <2>7, <2>8, <2>9, <2>10
<1>6. CASE WriteCountLoad
  <2>1. RingInv' /\ LineInv' /\ TxUsed' = TxUsed /\ Confirmed' = Confirmed
    BY <1>6, DataUnchanged DEF WriteCountLoad, txVars, txRing, txHist
  <2>2. CallInv'
    BY <1>t, <1>6, <2>1 DEF WriteCountLoad, TaskAt, CallInv, Writing,
       txVars, txRing, txHist
  <2>3. TransferInv'
    BY <1>t, <1>c, <1>6, <2>1 DEF WriteCountLoad, TaskAt, TransferInv,
       PromptInv, CallInv, Writing, txVars, txRing, txReq, txHw, txHist
  <2>4. PromptInv'
    BY <1>t, <1>6 DEF WriteCountLoad, TaskAt, PromptInv, TransferInv,
       txVars, txRing, txHist
  <2> QED BY <2>1, <2>2, <2>3, <2>4
<1>7. CASE WriteCountStore
  <2>1. RingInv' /\ LineInv' /\ TxUsed' = TxUsed /\ Confirmed' = Confirmed
    BY <1>7, DataUnchanged DEF WriteCountStore, txVars, txRing, txHist
  <2>2. CallInv'
    BY <1>t, <1>7, <2>1 DEF WriteCountStore, TaskAt, CallInv, Writing,
       txVars, txRing, txHist
  <2>3. TransferInv'
    BY <1>t, <1>c, <1>7, <2>1 DEF WriteCountStore, TaskAt, TransferInv,
       PromptInv, CallInv, Writing, txVars, txRing, txReq, txHw, txHist
  <2>4. PromptInv'
    BY <1>t, <1>7 DEF WriteCountStore, TaskAt, PromptInv, TransferInv,
       txVars, txRing, txHist
  <2> QED BY <2>1, <2>2, <2>3, <2>4
<1>8. CASE WriteLeave
  <2>1. RingInv' /\ LineInv' /\ TxUsed' = TxUsed /\ Confirmed' = Confirmed
    BY <1>8, DataUnchanged DEF WriteLeave, txVars, txRing, txHist
  <2>2. CallInv'
    BY <1>t, <1>8, <2>1 DEF WriteLeave, TaskAt, CallInv, Writing, txVars,
       txRing, txHist
  <2>3. TransferInv'
    BY <1>t, <1>c, <1>8, <2>1 DEF WriteLeave, TaskAt, TransferInv,
       PromptInv, CallInv, Writing, txVars, txRing, txReq, txHw, txHist
  <2>4. PromptInv'
    BY <1>t, <1>8 DEF WriteLeave, TaskAt, PromptInv, TransferInv, txVars,
       txRing, txHist
  <2> QED BY <2>1, <2>2, <2>3, <2>4
<1>9. CASE WriteIdleLine
  <2>1. RingInv' /\ LineInv' /\ TxUsed' = TxUsed /\ Confirmed' = Confirmed
    BY <1>9, DataUnchanged DEF WriteIdleLine, txVars, txRing, txHist
  <2>2. CallInv'
    BY <1>t, <1>9, <2>1 DEF WriteIdleLine, TaskAt, CallInv, Writing,
       txVars, txRing, txHist
  <2>3. TransferInv'
    BY <1>t, <1>c, <1>9, <2>1 DEF WriteIdleLine, TaskAt, TransferInv,
       PromptInv, CallInv, Writing, txVars, txRing, txReq, txHw, txHist
  <2>4. PromptInv'
    BY <1>t, <1>9 DEF WriteIdleLine, TaskAt, PromptInv, TransferInv,
       txVars, txRing, txHist
  <2> QED BY <2>1, <2>2, <2>3, <2>4
<1>10. CASE WriteTransmit
  <2>1. /\ pc = "transmit" /\ pc' = "kick" /\ txPtr' = txTail
        /\ txState' = "BUSY_TX"
        /\ UNCHANGED <<open, written, txRing, txHw, txHist>>
    BY <1>10 DEF WriteTransmit, TaskAt
  <2>2. txState # "BUSY_TX"
    BY <2>1 DEF ShapeInv, TxInv, TxShape
  <2>3. RingInv' /\ LineInv' /\ TxUsed' = TxUsed /\ Confirmed' = Confirmed
    BY <2>1, DataUnchanged
  <2>4. CallInv'
    BY <2>1, <2>3 DEF CallInv, Writing, txRing
  <2>5. TransferInv'
    BY <2>1, <2>2, <2>3 DEF TransferInv, txRing, txHist
  <2>6. PromptInv'
    BY <2>1 DEF PromptInv, txHist
  <2> QED BY <2>3, <2>4, <2>5, <2>6
<1>11. CASE WriteKick
  <2>1. /\ pc = "kick" /\ pc' = "idle"
        /\ UNCHANGED <<open, written, txRing, txState, txHist>>
    BY <1>11 DEF WriteKick, TaskAt
  <2>2. /\ txState = "BUSY_TX" /\ tdr = NoByte /\ shift = NoByte /\ txCount = 1
        /\ txPtr = txTail /\ txHead # txTail /\ Len(wire) = Confirmed
    BY <2>1 DEF ShapeInv, TxInv, TxShape, TransferInv
  <2>3. tdr' = txBuf[txTail] /\ shift' = NoByte /\ tcIE'
    BY <1>11, <2>2 DEF WriteKick, SendByte
  <2>4. RingInv' /\ LineInv' /\ TxUsed' = TxUsed /\ Confirmed' = Confirmed
    BY <2>1, DataUnchanged
  <2>5. CallInv'
    BY <2>1, <2>4 DEF CallInv, Writing, txRing
  <2>6. tdr' = Confirmed + 1
    BY <2>2, <2>3, Oldest
  <2>7. TransferInv'
    BY <2>1, <2>2, <2>3, <2>4, <2>6 DEF TransferInv, txRing, txHist
  <2>8. PromptInv'
    BY <2>1 DEF PromptInv
  <2> QED BY <2>4, <2>5, <2>7, <2>8
<1>12. CASE FlushCall
  <2>1. RingInv' /\ LineInv' /\ TxUsed' = TxUsed /\ Confirmed' = Confirmed
    BY <1>12, DataUnchanged DEF FlushCall, txVars, txRing, txHist
  <2>2. CallInv'
    BY <1>t, <1>12, <2>1 DEF FlushCall, TaskAt, CallInv, Writing, txVars,
       txRing, txHist
  <2>3. TransferInv'
    BY <1>t, <1>c, <1>12, <2>1 DEF FlushCall, TaskAt, TransferInv,
       PromptInv, CallInv, Writing, txVars, txRing, txReq, txHw, txHist
  <2>4. PromptInv'
    BY <1>t, <1>12 DEF FlushCall, TaskAt, PromptInv, TransferInv, txVars,
       txRing, txHist
  <2> QED BY <2>1, <2>2, <2>3, <2>4
<1>13. CASE FlushDone
  <2>1. RingInv' /\ LineInv' /\ TxUsed' = TxUsed /\ Confirmed' = Confirmed
    BY <1>13, DataUnchanged DEF FlushDone, txVars, txRing, txHist
  <2>2. CallInv'
    BY <1>t, <1>13, <2>1 DEF FlushDone, TaskAt, CallInv, Writing, txVars,
       txRing, txHist
  <2>3. TransferInv'
    BY <1>t, <1>c, <1>13, <2>1 DEF FlushDone, TaskAt, TransferInv,
       PromptInv, CallInv, Writing, txVars, txRing, txReq, txHw, txHist
  <2>4. PromptInv'
    BY <1>t, <1>13 DEF FlushDone, TaskAt, PromptInv, TransferInv, txVars,
       txRing, txHist
  <2> QED BY <2>1, <2>2, <2>3, <2>4
<1>14. CASE EndCall
  <2>1. RingInv' /\ LineInv' /\ TxUsed' = TxUsed /\ Confirmed' = Confirmed
    BY <1>14, DataUnchanged DEF EndCall, txVars, txRing, txHist
  <2>2. CallInv'
    BY <1>t, <1>14, <2>1 DEF EndCall, TaskAt, CallInv, Writing, txVars,
       txRing, txHist
  <2>3. TransferInv'
    BY <1>t, <1>c, <1>14, <2>1 DEF EndCall, TaskAt, TransferInv, PromptInv,
       CallInv, Writing, txVars, txRing, txReq, txHw, txHist
  <2>4. PromptInv'
    BY <1>t, <1>14 DEF EndCall, TaskAt, PromptInv, TransferInv, txVars,
       txRing, txHist
  <2> QED BY <2>1, <2>2, <2>3, <2>4
<1>15. CASE EndFlushed
  <2>1. RingInv' /\ LineInv' /\ TxUsed' = TxUsed /\ Confirmed' = Confirmed
    BY <1>15, DataUnchanged DEF EndFlushed, txVars, txRing, txHist
  <2>2. CallInv'
    BY <1>t, <1>15, <2>1 DEF EndFlushed, TaskAt, CallInv, Writing, txVars,
       txRing, txHist
  <2>3. TransferInv'
    BY <1>t, <1>c, <1>15, <2>1 DEF EndFlushed, TaskAt, TransferInv,
       PromptInv, CallInv, Writing, txVars, txRing, txReq, txHw, txHist
  <2>4. PromptInv'
    BY <1>t, <1>15 DEF EndFlushed, TaskAt, PromptInv, TransferInv, txVars,
       txRing, txHist
  <2> QED BY <2>1, <2>2, <2>3, <2>4
<1>16. CASE EndFree
  <2>1. /\ pc = "free" /\ pc' = "idle" /\ ~open'
        /\ UNCHANGED <<written, txRing, txState, txHist>>
    BY <1>16 DEF EndFree, TaskAt, txReq
  <2>2. txHead = txTail
    BY <2>1 DEF CallInv
  <2>3. RingInv' /\ LineInv' /\ TxUsed' = TxUsed /\ Confirmed' = Confirmed
    BY <2>1, DataUnchanged
  <2>4. CallInv'
    BY <2>1, <2>2 DEF CallInv, Writing, txRing
  <2>5. TransferInv'
    BY <2>1, <2>2, <2>3 DEF TransferInv, txRing, txHist
  <2>6. PromptInv'
    BY <2>1 DEF PromptInv
  <2> QED BY <2>3, <2>4, <2>5, <2>6
<1>17. CASE ReadCall
  <2>1. RingInv' /\ LineInv' /\ TxUsed' = TxUsed /\ Confirmed' = Confirmed
    BY <1>17, DataUnchanged DEF ReadCall, txVars, txRing, txHist
  <2>2. CallInv'
    BY <1>t, <1>17, <2>1 DEF ReadCall, TaskAt, CallInv, Writing, txVars,
       txRing, txHist
  <2>3. TransferInv'
    BY <1>t, <1>c, <1>17, <2>1 DEF ReadCall, TaskAt, TransferInv,
       PromptInv, CallInv, Writing, txVars, txRing, txReq, txHw, txHist
  <2>4. PromptInv'
    BY <1>t, <1>17 DEF ReadCall, TaskAt, PromptInv, TransferInv, txVars,
       txRing, txHist
  <2> QED BY <2>1, <2>2, <2>3, <2>4
<1>18. CASE ReadAdvance
  <2>1. RingInv' /\ LineInv' /\ TxUsed' = TxUsed /\ Confirmed' = Confirmed
    BY <1>18, DataUnchanged DEF ReadAdvance, txVars, txRing, txHist
  <2>2. CallInv'
    BY <1>t, <1>18, <2>1 DEF ReadAdvance, TaskAt, CallInv, Writing, txVars,
       txRing, txHist
  <2>3. TransferInv'
    BY <1>t, <1>c, <1>18, <2>1 DEF ReadAdvance, TaskAt, TransferInv,
       PromptInv, CallInv, Writing, txVars, txRing, txReq, txHw, txHist
  <2>4. PromptInv'
    BY <1>t, <1>18 DEF ReadAdvance, TaskAt, PromptInv, TransferInv, txVars,
       txRing, txHist
  <2> QED BY <2>1, <2>2, <2>3, <2>4
<1>19. CASE IsrReceive
  BY <1>19, OrderUnchanged DEF IsrReceive, task, txVars
<1>20. CASE IsrRxCallback
  BY <1>20, OrderUnchanged DEF IsrRxCallback, task, txVars
<1>21. CASE IsrError
  BY <1>21, OrderUnchanged DEF IsrError, task, txVars
<1>22. ASSUME NEW damaged \in BOOLEAN, LineIn(damaged)
      PROVE  OrderInv'
  BY <1>22, OrderUnchanged DEF LineIn, task, txVars
<1>23. CASE IsrTransmit
  <2>1. /\ tcIE /\ tc /\ tdr = NoByte /\ shift = NoByte /\ txState = "BUSY_TX"
        /\ pc # "kick" /\ pc # "transmit" /\ ~TbePending
    BY <1>23 DEF IsrTransmit, TxPending, TbePending, TcPending, ShapeInv, TxInv,
       TxShape
  <2>2. txHead # txTail /\ Len(wire) = Confirmed + 1
    BY <1>t, <2>1 DEF TransferInv, NoByte
  <2>3. /\ txTail' = TxNextTail
        /\ UNCHANGED <<pc, open, written, txBuf, txHead, accepted, wire>>
    BY <1>23, <2>1 DEF IsrTransmit, task, txHist
  <2>4. txTail' \in 0..TxSize-1
    BY <1>t, <2>3, SuccValue DEF TxNextTail
  <2>5. /\ TxUsed' = TxUsed - 1
        /\ \A k \in 0..TxUsed-2 : Slot(txTail', k, TxSize) = Slot(txTail, k + 1, TxSize)
    BY <1>t, <2>2, <2>3, RingFree DEF TxNextTail, TxUsed
  <2>6. Confirmed' = Confirmed + 1
    BY <1>t, <1>c, <2>3, <2>5 DEF Confirmed
  <2>7. RingInv'
    <3>1. ASSUME NEW k \in 0..TxUsed'-1
          PROVE  txBuf'[Slot(txTail', k, TxSize)] = Confirmed' + 1 + k
      <4>1. k \in 0..TxUsed-2 /\ k + 1 \in 0..TxUsed-1
        BY <1>t, <2>5
      <4>2. txBuf[Slot(txTail, k + 1, TxSize)] = Confirmed + 1 + (k + 1)
        BY <4>1 DEF RingInv
      <4> QED BY <1>t, <2>3, <2>5, <2>6, <4>1, <4>2
    <3>2. TxUsed' <= accepted'
      BY <1>t, <2>3, <2>5 DEF RingInv
    <3> QED BY <3>1, <3>2 DEF RingInv
  <2>8. LineInv'
    BY <1>t, <2>2, <2>3, <2>6 DEF LineInv
  <2>9. TxUsed' = 0 <=> txHead' = txTail'
    BY <1>t, <2>3, <2>4, UsedRange DEF TxUsed
  <2>10. CallInv'
    BY <1>t, <2>2, <2>3, <2>5, <2>9 DEF CallInv, Writing
  <2>11. PromptInv'
    BY <2>3 DEF PromptInv
  <2>12. TransferInv'
    <3>1. ASSUME TxMore(TxNextTail) PROVE TransferInv'
      <4>1. /\ tdr' = txBuf[TxNextTail] /\ shift' = NoByte /\ tcIE'
            /\ txState' = "BUSY_TX"
        BY <1>23, <2>1, <3>1 DEF IsrTransmit, SendByte
      <4>2. txHead' # txTail' /\ 0 \in 0..TxUsed'-1
        BY <1>t, <2>2, <2>3, <2>5, <2>9, <3>1 DEF TxMore
      <4>3. Slot(txTail', 0, TxSize) = txTail'
        BY <2>4, SlotZero
      <4>4. tdr' = Confirmed' + 1
        BY <1>t, <2>3, <2>6, <2>7, <4>1, <4>2, <4>3 DEF RingInv
      <4> QED BY <1>t, <2>1, <2>2, <2>3, <2>6, <4>1, <4>2, <4>4 DEF TransferInv
    <3>2. ASSUME ~TxMore(TxNextTail) PROVE TransferInv'
      <4>1. txState' = "READY" /\ txHead' = txTail'
        BY <1>23, <2>1, <2>3, <3>2 DEF IsrTransmit, TxMore
      <4> QED BY <2>1, <2>2, <2>3, <2>6, <4>1 DEF TransferInv
    <3> QED BY <3>1, <3>2
  <2> QED BY <2>7, <2>8, <2>10, <2>11, <2>12
<1>24. CASE LineLoad
  <2>1. /\ tdr # NoByte /\ shift = NoByte /\ shift' = tdr /\ tdr' = NoByte
        /\ UNCHANGED <<pc, open, written, txRing, txReq, tcIE, txHist>>
    BY <1>24 DEF LineLoad, task
  <2>2. RingInv' /\ LineInv' /\ TxUsed' = TxUsed /\ Confirmed' = Confirmed
    BY <2>1, DataUnchanged
  <2>3. CallInv'
    BY <2>1, <2>2 DEF CallInv, txRing, txHist
  <2>4. pc # "kick" /\ pc # "transmit" /\ txState = "BUSY_TX"
    BY <2>1 DEF ShapeInv, TxInv, TxShape
  <2>5. tdr = Confirmed + 1 /\ Len(wire) = Confirmed /\ txHead # txTail /\ tcIE
    BY <2>1, <2>4 DEF TransferInv
  <2>6. TransferInv'
    BY <2>1, <2>2, <2>4, <2>5 DEF TransferInv, txRing, txReq, txHist
  <2>7. PromptInv'
    BY <2>1 DEF PromptInv, txHist
  <2> QED BY <2>2, <2>3, <2>6, <2>7
<1>25. CASE LineOut
  <2>1. /\ shift # NoByte /\ shift' = NoByte /\ wire' = Append(wire, shift)
        /\ tc' = (tc \/ tdr = NoByte)
        /\ ~(WriteWindow /\ shift = accepted)
        /\ UNCHANGED <<pc, open, written, txRing, txReq, tdr, tcIE, accepted>>
    BY <1>25 DEF LineOut, task
  <2>2. pc # "kick" /\ pc # "transmit" /\ txState = "BUSY_TX"
    BY <2>1 DEF ShapeInv, TxInv, TxShape
  <2>3. /\ shift = Confirmed + 1 /\ tdr = NoByte /\ Len(wire) = Confirmed
        /\ txHead # txTail /\ tcIE
    BY <1>t, <2>1, <2>2 DEF TransferInv, NoByte
  <2>4. tc'
    BY <2>1, <2>3
  <2>5. /\ TxUsed' = TxUsed /\ Confirmed' = Confirmed
        /\ RingInv'
    BY <2>1 DEF TxUsed, Confirmed, RingInv, txRing
  <2>6. Len(wire') = Confirmed + 1
    BY <1>t, <2>1, <2>3
  <2>7. LineInv'
    <3>1. ASSUME NEW i \in 1..Len(wire')
          PROVE  wire'[i] = i
      <4>1. i \in 1..Len(wire) \/ i = Len(wire) + 1
        BY <1>t, <2>3, <2>6
      <4> QED BY <1>t, <2>1, <2>3, <4>1 DEF LineInv
    <3> QED BY <2>5, <2>6, <3>1 DEF LineInv
  <2>8. CallInv'
    BY <2>1, <2>5 DEF CallInv, txRing
  <2>9. TransferInv'
    BY <2>1, <2>2, <2>3, <2>4, <2>5, <2>6 DEF TransferInv, txRing, txReq, NoByte
  <2>10. PromptInv'
    <3>1. Confirmed + 1 <= accepted
      BY <1>t, <1>c, <2>3
    <3>2. WriteWindow => Confirmed + 1 < accepted
      BY <1>t, <2>1, <2>3, <3>1
    <3> QED BY <2>1, <2>2, <2>6, <3>2 DEF PromptInv, WriteWindow
  <2> QED BY <2>5, <2>7, <2>8, <2>9, <2>10
<1>26. CASE UNCHANGED vars
  BY <1>26, OrderUnchanged DEF vars, task, txVars
<1> QED
  BY <1>1, <1>2, <1>3, <1>4, <1>5, <1>6, <1>7, <1>8, <1>9, <1>10, <1>11,
     <1>12, <1>13, <1>14, <1>15, <1>16, <1>17, <1>18, <1>19, <1>20, <1>21,
     <1>22, <1>23, <1>24, <1>25, <1>26
  DEF Next, CallStep, Isr, Line

\* The invariant of transmission, from the two inductive parts.
LEMMA OrderAlways ==
    ASSUME PromptTask
    PROVE  Spec => [](ShapeInv /\ OrderInv)
<1>1. Spec => []ShapeInv
  BY InitShape, StepShape, PTL DEF Spec
<1>2. ShapeInv /\ OrderInv /\ [Next]_vars => OrderInv'
  BY StepOrder
<1> QED BY <1>1, <1>2, InitOrder, PTL DEF Spec

\* Bytes go out once each and in order, for every buffer size.
THEOREM TransmitsInOrder ==
    ASSUME PromptTask
    PROVE  Spec => []WireInOrder
<1>1. ShapeInv /\ OrderInv => WireInOrder
  <2> SUFFICES ASSUME ShapeInv, OrderInv PROVE WireInOrder
    OBVIOUS
  <2>1. Confirmed \in Nat /\ accepted \in Nat /\ TxUsed \in 0..TxSize-1
        /\ (TxUsed = 0 <=> txHead = txTail)
    BY OrderFacts DEF OrderInv
  <2>2. Len(wire) = Confirmed \/ txHead # txTail
    BY DEF OrderInv, LineInv, TransferInv
  <2>3. Len(wire) <= accepted
    BY <2>1, <2>2 DEF OrderInv, LineInv, Confirmed
  <2> QED BY <2>3 DEF OrderInv, LineInv, WireInOrder
<1> QED BY <1>1, OrderAlways, PTL

\* The ring always holds exactly the unconfirmed bytes.
THEOREM RingIsExact ==
    ASSUME PromptTask
    PROVE  Spec => []RingHoldsUnsent
<1>1. ShapeInv /\ OrderInv => RingHoldsUnsent
  <2> SUFFICES ASSUME ShapeInv, OrderInv PROVE RingHoldsUnsent
    OBVIOUS
  <2>1. Confirmed \in Nat /\ accepted \in Nat
    BY OrderFacts DEF OrderInv
  <2>2. accepted - TxUsed \in {Len(wire), Len(wire) - 1}
    BY <2>1 DEF OrderInv, LineInv, Confirmed
  <2> QED BY <2>2 DEF OrderInv, RingInv, RingHoldsUnsent, TxUsed, Confirmed
<1> QED BY <1>1, OrderAlways, PTL

\* Waiting bytes with no transfer under way are about to be started.
THEOREM NeverStalls ==
    ASSUME PromptTask
    PROVE  Spec => []NoStall
<1>1. ShapeInv /\ OrderInv => NoStall
  BY DEF ShapeInv, TxInv, TxShape, OrderInv, TransferInv, NoStall
<1> QED BY <1>1, OrderAlways, PTL

\* end() closes the port with everything sent.
THEOREM EndIsClean ==
    ASSUME PromptTask
    PROVE  Spec => EndLosesNothing
<1>1. ShapeInv /\ OrderInv /\ [Next]_vars
        => [open /\ ~open' => Len(wire) = accepted]_vars
  <2> SUFFICES ASSUME ShapeInv, OrderInv, [Next]_vars, open, ~open'
               PROVE  Len(wire) = accepted
    OBVIOUS
  <2>1. EndFree
    BY DEF Next, CallStep, Isr, Line, Begin, WriteCall, FlushCall, EndCall,
       ReadCall, WriteSpin, WriteStore, WritePublish, WriteCountLoad,
       WriteCountStore, WriteLeave, WriteIdleLine, WriteTransmit, WriteKick,
       FlushDone, EndFlushed, ReadAdvance, IsrReceive, IsrRxCallback,
       IsrTransmit, IsrError, LineLoad, LineOut, LineIn, vars, task
  <2>2. pc = "free"
    BY <2>1 DEF EndFree, TaskAt
  <2>3. txHead = txTail
    BY <2>2 DEF OrderInv, CallInv
  <2>4. Len(wire) = Confirmed
    BY <2>2, <2>3 DEF OrderInv, TransferInv
  <2>5. TxUsed = 0 /\ accepted \in Nat
    BY <2>3, OrderFacts DEF OrderInv
  <2> QED BY <2>4, <2>5 DEF Confirmed
<1> QED BY <1>1, OrderAlways, PTL DEF Spec, EndLosesNothing

-----------------------------------------------------------------------------
(* HardwareSerial implements SerialStream.                                   *)

\* The bytes from one number to another, in order: the queue of the stream.
Span(from, n) == [i \in 1..n |-> from + i]

LEMMA SpanPut ==
    ASSUME NEW from \in Nat, NEW n \in Nat
    PROVE  Span(from, n + 1) = Append(Span(from, n), from + n + 1)
<1>1. Span(from, n) \in Seq(Nat) /\ Len(Span(from, n)) = n
  BY DEF Span
<1>2. /\ Span(from, n + 1) \in Seq(Nat) /\ Len(Span(from, n + 1)) = n + 1
      /\ \A i \in 1..n : Span(from, n + 1)[i] = Span(from, n)[i]
      /\ Span(from, n + 1)[n + 1] = from + n + 1
  BY DEF Span
<1> HIDE DEF Span
<1> QED BY <1>1, <1>2

LEMMA SpanEmit ==
    ASSUME NEW from \in Nat, NEW n \in Nat, n > 0
    PROVE  /\ Span(from, n) # <<>>
           /\ Head(Span(from, n)) = from + 1
           /\ Tail(Span(from, n)) = Span(from + 1, n - 1)
<1>1. Span(from, n) \in Seq(Nat) /\ Len(Span(from, n)) = n
  BY DEF Span
<1>2. Head(Span(from, n)) = from + 1
  BY <1>1 DEF Span
<1>3. Tail(Span(from, n)) = Span(from + 1, n - 1)
  <2>1. /\ Tail(Span(from, n)) \in Seq(Nat) /\ Len(Tail(Span(from, n))) = n - 1
        /\ \A i \in 1..n-1 : Tail(Span(from, n))[i] = Span(from, n)[i + 1]
    BY <1>1
  <2>2. \A i \in 1..n-1 : Span(from, n)[i + 1] = (from + 1) + i
    BY DEF Span
  <2>3. /\ Span(from + 1, n - 1) \in Seq(Nat) /\ Len(Span(from + 1, n - 1)) = n - 1
        /\ \A i \in 1..n-1 : Span(from + 1, n - 1)[i] = (from + 1) + i
    BY DEF Span
  <2>4. \A i \in 1..n-1 : Tail(Span(from, n))[i] = Span(from + 1, n - 1)[i]
    BY <2>1, <2>2, <2>3
  <2> DEFINE left == Tail(Span(from, n))  right == Span(from + 1, n - 1)
  <2>5. left \in Seq(Nat) /\ right \in Seq(Nat) /\ Len(left) = Len(right)
    BY <2>1, <2>3
  <2>6. \A i \in 1..Len(left) : left[i] = right[i]
    BY <2>1, <2>4
  <2> HIDE DEF left, right
  <2>7. left = right
    BY <2>5, <2>6
  <2> QED BY <2>7 DEF left, right
<1> QED BY <1>1, <1>2, <1>3

\* How many accepted bytes are not yet on the line.
LEMMA WaitingBytes ==
    ASSUME ShapeInv, OrderInv
    PROVE  /\ accepted - Len(wire) \in 0..TxUsed
           /\ TxUsed \in 0..TxSize-1 /\ accepted \in Nat /\ Len(wire) \in Nat
           /\ wire \in Seq(Nat)
<1>1. /\ Confirmed \in Nat /\ accepted \in Nat /\ TxUsed \in 0..TxSize-1
      /\ Len(wire) \in Nat /\ (TxUsed = 0 <=> txHead = txTail) /\ wire \in Seq(Nat)
  BY OrderFacts DEF OrderInv
<1>2. Len(wire) = Confirmed \/ txHead # txTail
  BY DEF OrderInv, LineInv, TransferInv
<1> QED BY <1>1, <1>2 DEF OrderInv, LineInv, Confirmed

LEMMA StreamStep ==
    ASSUME PromptTask, ShapeInv, OrderInv, [Next]_vars, (ShapeInv /\ OrderInv)'
    PROVE  [Stream!Next]_(Stream!vars)
<1> DEFINE queue == Span(Len(wire), accepted - Len(wire))
<1>q. queue = [i \in 1..accepted - Len(wire) |-> Len(wire) + i]
  BY DEF Span
<1>1. /\ accepted - Len(wire) \in 0..TxUsed /\ TxUsed \in 0..TxSize-1
      /\ accepted \in Nat /\ Len(wire) \in Nat /\ wire \in Seq(Nat)
  BY WaitingBytes
<1>l. Len(queue) = accepted - Len(wire)
  BY <1>1 DEF Span
<1>2. CASE \E config \in Configs : Begin(config)
  <2>1. ~open /\ open' /\ UNCHANGED <<accepted, wire>>
    BY <1>2 DEF Begin, txHist
  <2>2. open' = TRUE
    BY <1>2 DEF Begin
  <2> QED BY <2>1, <2>2 DEF Stream!Next, Stream!Open
<1>3. CASE WritePublish
  <2>1. /\ pc = "publish" /\ accepted' = accepted + 1 /\ UNCHANGED <<wire, open>>
    BY <1>3 DEF WritePublish, TaskAt
  <2>2. open /\ TxUsed < TxSize - 1
    BY <2>1 DEF OrderInv, CallInv, Writing
  <2>3. Len(queue) < TxSize - 1
    BY <1>1, <1>l, <2>2
  <2>4. queue' = Append(queue, Len(wire) + Len(queue) + 1)
    <3>1. PICK n \in Nat : n = accepted - Len(wire)
      BY <1>1
    <3>2. accepted' - Len(wire') = n + 1
      BY <1>1, <2>1, <3>1
    <3>3. queue' = Span(Len(wire), n + 1)
      BY <2>1, <3>2
    <3>4. Span(Len(wire), n + 1) = Append(Span(Len(wire), n), Len(wire) + n + 1)
      BY <1>1, <3>1, SpanPut
    <3> QED BY <1>l, <3>1, <3>3, <3>4
  <2>5. Stream!Put
    BY <1>q, <2>1, <2>2, <2>3, <2>4 DEF Stream!Put, Span
  <2> QED BY <2>5 DEF Stream!Next
<1>4. CASE LineOut
  <2>1. /\ shift # NoByte /\ wire' = Append(wire, shift) /\ UNCHANGED <<accepted, open>>
    BY <1>4 DEF LineOut, task
  <2>2. Len(wire') = Len(wire) + 1 /\ wire' \in Seq(Nat)
    <3>1. shift \in Nat
      BY DEF ShapeInv, TxInv, TxType
    <3> QED BY <1>1, <2>1, <3>1
  <2>3. wire'[Len(wire')] = Len(wire') /\ accepted' - Len(wire') \in Nat
    <3>1. \A i \in 1..Len(wire') : wire'[i] = i
      BY DEF OrderInv, LineInv
    <3>2. accepted' - Len(wire') \in 0..TxUsed' /\ TxUsed' \in 0..TxSize-1
      <4>1. (accepted - Len(wire) \in 0..TxUsed /\ TxUsed \in 0..TxSize-1)'
        <5>1. (ShapeInv /\ OrderInv => accepted - Len(wire) \in 0..TxUsed
                                       /\ TxUsed \in 0..TxSize-1)'
          BY WaitingBytes, PTL
        <5> QED BY <5>1
      <4> QED BY <4>1
    <3> QED BY <1>1, <2>2, <3>1, <3>2
  <2>4. shift = Len(wire) + 1
    BY <1>1, <2>1, <2>2, <2>3
  <2>5. accepted - Len(wire) > 0
    BY <1>1, <2>1, <2>2, <2>3
  <2>6. queue # <<>> /\ Head(queue) = shift /\ queue' = Tail(queue)
    <3>1. PICK n \in Nat : n = accepted - Len(wire)
      BY <1>1
    <3>2. accepted' - Len(wire') = n - 1 /\ n > 0
      BY <1>1, <2>1, <2>2, <2>5, <3>1
    <3>3. queue' = Span(Len(wire) + 1, n - 1)
      BY <2>2, <3>2
    <3>4. /\ Span(Len(wire), n) # <<>>
          /\ Head(Span(Len(wire), n)) = Len(wire) + 1
          /\ Tail(Span(Len(wire), n)) = Span(Len(wire) + 1, n - 1)
      BY <1>1, <3>1, <3>2, SpanEmit
    <3> QED BY <2>4, <3>1, <3>3, <3>4
  <2>7. Stream!Emit
    BY <1>q, <2>1, <2>6 DEF Stream!Emit, Span
  <2> QED BY <2>7 DEF Stream!Next
<1>5. CASE EndFree
  <2>1. pc = "free" /\ open' = FALSE /\ UNCHANGED <<accepted, wire>>
    BY <1>5 DEF EndFree, TaskAt, txHist
  <2>2. open /\ txHead = txTail
    BY <2>1 DEF OrderInv, CallInv
  <2>3. accepted - Len(wire) = 0
    BY <1>1, <2>2, OrderFacts DEF OrderInv
  <2>4. queue = <<>>
    BY <2>3 DEF Span
  <2>5. Stream!Close
    BY <1>q, <2>1, <2>2, <2>4 DEF Stream!Close
  <2> QED BY <2>5 DEF Stream!Next
<1>6. CASE UNCHANGED <<open, accepted, wire>>
  BY <1>6 DEF Stream!vars
<1> QED
  BY <1>2, <1>3, <1>4, <1>5, <1>6
  DEF Next, CallStep, Isr, Line, WriteCall, FlushCall, EndCall,
      ReadCall, WriteSpin, WriteStore, WriteCountLoad,
      WriteCountStore, WriteLeave, WriteIdleLine, WriteTransmit, WriteKick,
      FlushDone, EndFlushed, ReadAdvance, IsrReceive, IsrRxCallback,
      IsrTransmit, IsrError, LineLoad, LineIn, vars, txVars, task, txHist

\* The port is the bounded first-in first-out stream of SerialStream, for
\* every buffer size: every step of the driver, the handler and the line is a
\* step of the stream or none (StreamSpec without its fairness).
THEOREM ImplementsStream ==
    ASSUME PromptTask
    PROVE  Spec => Stream!Init /\ [][Stream!Next]_(Stream!vars)
<1>1. Init => Stream!Init
  BY DEF Init, Stream!Init
<1>2. ShapeInv /\ OrderInv /\ [Next]_vars /\ (ShapeInv /\ OrderInv)'
        => [Stream!Next]_(Stream!vars)
  BY StreamStep
<1> QED BY <1>1, <1>2, OrderAlways, PTL DEF Spec

-----------------------------------------------------------------------------
(* The inductive invariant.                                                  *)

RxUsed == Used(rxHead, rxTail, RxSize)

\* The byte in the k-th slot of the ring after the one read() takes next.
Waiting(k) == rxBuf[Slot(rxTail, k, RxSize)]

\* The bytes that read() returned, that wait in the ring, and that are held
\* by the handler and by RDATA.
Read    == {delivered[i] : i \in 1..Len(delivered)}
InRing  == {Waiting(k) : k \in 0..RxUsed-1}
Handled == IF isr = "rxCallback" THEN {rxBuf[rxPtr - 1]} ELSE {}
InRdata == IF rbne THEN {rdr} ELSE {}
Held    == Read \cup InRing \cup Handled \cup InRdata

\* The slot the handler writes is the one at head, except that end() has
\* emptied the ring: it is none of those that hold a byte.
PlaceInv ==
    /\ rxIE => rxHead = rxTail \/ rxPtr = rxHead
    /\ isr = "rxCallback" => rxHead = rxTail \/ rxPtr = rxHead + 1

\* Inside read() the byte it took is still the oldest of the ring.
CharInv == pc = "readAdvance" => rxHead # rxTail /\ char = rxBuf[rxTail]

\* RDATA still holds the byte of the handler when no other has come.
RereadInv == isr = "rxCallback" /\ ~rbne => rdr = rxBuf[rxPtr - 1]

\* All of `left' arrived before all of `right'.
Earlier(left, right) == \A a \in left, b \in right : a < b

AgeInv ==
    /\ \A i, j \in 1..Len(delivered) : i < j => delivered[i] < delivered[j]
    /\ \A k, l \in 0..RxUsed-1 : k < l => Waiting(k) < Waiting(l)
    /\ Earlier(Read, InRing)
    /\ Earlier(Read \cup InRing, Handled \cup InRdata)
    /\ Earlier(Handled, InRdata)

Gone == {l[1] : l \in lost}

AccountInv ==
    /\ 1..arrived = Held \cup Gone
    /\ \A l \in lost : l[2] = "full" => l[1] \notin Held

ReceiveInv == PlaceInv /\ CharInv /\ RereadInv /\ AgeInv /\ AccountInv

-----------------------------------------------------------------------------
(* What the pieces are made of.                                              *)

USE SizeAssumption

LEMMA ReceiveFacts ==
    ASSUME ShapeInv
    PROVE  /\ RxUsed \in 0..RxSize-1
           /\ RxUsed = 0 <=> rxHead = rxTail
           /\ rxHead \in 0..RxSize-1 /\ rxTail \in 0..RxSize-1
           /\ rxBuf \in [0..RxSize-1 -> Nat]
           /\ \A k \in 0..RxUsed-1 : Slot(rxTail, k, RxSize) \in 0..RxSize-1
                                     /\ Slot(rxTail, k, RxSize) # rxHead
                                     /\ Waiting(k) \in Nat
           /\ delivered \in Seq(Nat) /\ Len(delivered) \in Nat
           /\ \A i \in 1..Len(delivered) : delivered[i] \in Nat
           /\ rdr \in Nat /\ arrived \in Nat /\ rxPtr \in 0..RxSize
           /\ isr = "rxCallback" => rxPtr - 1 \in 0..RxSize-1
           /\ rxIE => rxPtr \in 0..RxSize-1 /\ isr = "idle"
<1>1. /\ rxHead \in 0..RxSize-1 /\ rxTail \in 0..RxSize-1
      /\ rxBuf \in [0..RxSize-1 -> Nat] /\ delivered \in Seq(Nat)
      /\ rdr \in Nat /\ arrived \in Nat /\ rxPtr \in 0..RxSize
  BY DEF ShapeInv, RxInv, RxType, RxHistType
<1>2. RxUsed \in 0..RxSize-1 /\ (RxUsed = 0 <=> rxHead = rxTail)
  BY <1>1, UsedRange DEF RxUsed
<1>3. ASSUME NEW k \in 0..RxUsed-1
      PROVE  /\ Slot(rxTail, k, RxSize) \in 0..RxSize-1
             /\ Slot(rxTail, k, RxSize) # rxHead
             /\ Waiting(k) \in Nat
  <2>1. Slot(rxTail, k, RxSize) \in 0..RxSize-1 /\ Slot(rxTail, k, RxSize) # rxHead
    BY <1>1, SlotRange DEF RxUsed
  <2> QED BY <1>1, <2>1 DEF Waiting
<1>4. Len(delivered) \in Nat /\ \A i \in 1..Len(delivered) : delivered[i] \in Nat
  BY <1>1
<1>5. /\ isr = "rxCallback" => rxPtr - 1 \in 0..RxSize-1
      /\ rxIE => rxPtr \in 0..RxSize-1 /\ isr = "idle"
  BY <1>1 DEF ShapeInv, RxInv, RxShape
<1> QED BY <1>1, <1>2, <1>3, <1>4, <1>5

\* The bytes in RingBytes are those that wait.
LEMMA RingIds ==
    ASSUME ShapeInv
    PROVE  RxRingIds = InRing
<1>1. ASSUME NEW b \in RxRingIds PROVE b \in InRing
  <2>1. PICK k \in 1..RxUsed : b = rxBuf[Slot(rxTail, k - 1, RxSize)]
    BY <1>1 DEF RxRingIds, RingBytes, Range, RxUsed
  <2>2. k - 1 \in 0..RxUsed-1
    BY ReceiveFacts
  <2> QED BY <2>1, <2>2 DEF InRing, Waiting
<1>2. ASSUME NEW b \in InRing PROVE b \in RxRingIds
  <2>1. PICK k \in 0..RxUsed-1 : b = Waiting(k)
    BY <1>2 DEF InRing
  <2>2. k + 1 \in 1..RxUsed /\ (k + 1) - 1 = k
    BY ReceiveFacts
  <2> DEFINE ring == RingBytes(rxBuf, rxHead, rxTail, RxSize)
  <2>3. DOMAIN ring = 1..RxUsed /\ ring[k + 1] = rxBuf[Slot(rxTail, (k + 1) - 1, RxSize)]
    BY <2>2 DEF RingBytes, RxUsed
  <2>4. ring[k + 1] = b
    BY <2>1, <2>2, <2>3 DEF Waiting
  <2> QED BY <2>2, <2>3, <2>4 DEF RxRingIds, Range
<1> QED BY <1>1, <1>2

\* Nothing held is newer than the last arrival.
LEMMA HeldRange ==
    ASSUME AccountInv
    PROVE  Held \subseteq 1..arrived /\ Gone \subseteq 1..arrived
BY DEF AccountInv

\* Records that are added to the losses add their bytes.
LEMMA GoneGrows ==
    ASSUME NEW new, lost' = lost \cup new
    PROVE  Gone' = Gone \cup {l[1] : l \in new}
<1>1. ASSUME NEW b \in Gone' PROVE b \in Gone \cup {l[1] : l \in new}
  <2>1. PICK l \in lost' : b = l[1]
    BY <1>1 DEF Gone
  <2> QED BY <2>1 DEF Gone
<1>2. ASSUME NEW b \in Gone \cup {l[1] : l \in new} PROVE b \in Gone'
  <2>1. PICK l \in lost \cup new : b = l[1]
    BY <1>2 DEF Gone
  <2> QED BY <2>1 DEF Gone
<1> QED BY <1>1, <1>2

\* The bytes of one record.
LEMMA OneGone ==
    ASSUME NEW b, NEW why, lost' = lost \cup {<<b, why>>}
    PROVE  Gone' = Gone \cup {b}
<1>1. ASSUME NEW a \in Gone' PROVE a \in Gone \cup {b}
  <2>1. PICK l \in lost' : a = l[1]
    BY <1>1 DEF Gone
  <2>2. l \in lost \/ l = <<b, why>>
    BY <2>1
  <2> QED BY <2>1, <2>2 DEF Gone
<1>2. b \in Gone'
  <2>1. <<b, why>> \in lost' /\ <<b, why>>[1] = b
    OBVIOUS
  <2> QED BY <2>1 DEF Gone
<1>3. ASSUME NEW a \in Gone PROVE a \in Gone'
  <2>1. PICK l \in lost : a = l[1]
    BY <1>3 DEF Gone
  <2> QED BY <2>1 DEF Gone
<1> QED BY <1>1, <1>2, <1>3

\* The bytes of two records.
LEMMA TwoGone ==
    ASSUME NEW b, NEW why, NEW c, NEW because,
           lost' = lost \cup {<<b, why>>, <<c, because>>}
    PROVE  Gone' = Gone \cup {b, c}
<1>1. ASSUME NEW a \in Gone' PROVE a \in Gone \cup {b, c}
  <2>1. PICK l \in lost' : a = l[1]
    BY <1>1 DEF Gone
  <2>2. l \in lost \/ l = <<b, why>> \/ l = <<c, because>>
    BY <2>1
  <2> QED BY <2>1, <2>2 DEF Gone
<1>2. b \in Gone' /\ c \in Gone'
  <2>1. /\ <<b, why>> \in lost' /\ <<b, why>>[1] = b
        /\ <<c, because>> \in lost' /\ <<c, because>>[1] = c
    OBVIOUS
  <2> QED BY <2>1 DEF Gone
<1>3. ASSUME NEW a \in Gone PROVE a \in Gone'
  <2>1. PICK l \in lost : a = l[1]
    BY <1>3 DEF Gone
  <2> QED BY <2>1 DEF Gone
<1> QED BY <1>1, <1>2, <1>3

\* A step that touches nothing of the receiver.
LEMMA ReceiveUnchanged ==
    ReceiveInv /\ UNCHANGED <<rxVars, isr>> /\ (pc' = "readAdvance" => pc = "readAdvance")
        => ReceiveInv'
<1> SUFFICES ASSUME ReceiveInv, UNCHANGED <<rxVars, isr>>,
                    pc' = "readAdvance" => pc = "readAdvance"
             PROVE  ReceiveInv'
  OBVIOUS
<1>1. UNCHANGED <<rxBuf, rxHead, rxTail, rxPtr, rxState, rdr, rbne, err, rxIE,
                  arrived, delivered, lost, char, isr>>
  BY DEF rxVars, rxRing, rxReq, rxHw, rxHist
<1>2. PlaceInv' /\ CharInv' /\ RereadInv'
  BY <1>1 DEF ReceiveInv, PlaceInv, CharInv, RereadInv
<1>3. /\ RxUsed' = RxUsed /\ \A k : Waiting(k)' = Waiting(k)
      /\ UNCHANGED <<Read, InRing, Handled, InRdata, Gone>>
  BY <1>1 DEF RxUsed, Waiting, Read, InRing, Handled, InRdata, Gone
<1>4. Held' = Held
  BY <1>3 DEF Held
<1>5. AgeInv'
  BY <1>1, <1>3 DEF ReceiveInv, AgeInv, Earlier
<1>6. AccountInv'
  BY <1>1, <1>3, <1>4 DEF ReceiveInv, AccountInv
<1> QED BY <1>2, <1>5, <1>6 DEF ReceiveInv

LEMMA InitReceive == Init => ReceiveInv
<1> SUFFICES ASSUME Init PROVE ReceiveInv
  OBVIOUS
<1>1. /\ pc = "idle" /\ isr = "idle" /\ ~rxIE /\ ~rbne /\ rxHead = 0 /\ rxTail = 0
      /\ arrived = 0 /\ delivered = <<>> /\ lost = {}
  BY DEF Init
<1>2. RxUsed = 0 /\ Len(delivered) = 0
  BY <1>1 DEF RxUsed, Used
<1>3. Read = {} /\ InRing = {} /\ Handled = {} /\ InRdata = {} /\ Gone = {}
  BY <1>1, <1>2 DEF Read, InRing, Handled, InRdata, Gone
<1>4. AgeInv
  BY <1>2, <1>3 DEF AgeInv, Earlier
<1>5. AccountInv
  BY <1>1, <1>3 DEF AccountInv, Held
<1> QED BY <1>1, <1>4, <1>5 DEF ReceiveInv, PlaceInv, CharInv, RereadInv

-----------------------------------------------------------------------------
(* One lemma for each step that moves a byte or an index of the receiver.    *)

\* Writing a slot that holds no byte leaves the ring as it is.
LEMMA StoreOutside ==
    ASSUME ShapeInv, NEW p \in 0..RxSize-1, rxHead = rxTail \/ p = rxHead, NEW b,
           rxBuf' = [rxBuf EXCEPT ![p] = b], UNCHANGED <<rxHead, rxTail>>
    PROVE  /\ RxUsed' = RxUsed /\ \A k \in 0..RxUsed-1 : Waiting(k)' = Waiting(k)
           /\ InRing' = InRing
<1>1. RxUsed' = RxUsed
  BY DEF RxUsed
<1>2. ASSUME NEW k \in 0..RxUsed-1 PROVE Waiting(k)' = Waiting(k)
  <2>1. /\ Slot(rxTail, k, RxSize) # p /\ Slot(rxTail, k, RxSize) \in 0..RxSize-1
        /\ rxBuf \in [0..RxSize-1 -> Nat]
    <3>1. k >= 0 /\ k <= RxUsed - 1 /\ RxUsed \in Nat /\ RxUsed # 0
      BY ReceiveFacts
    <3>2. p = rxHead
      BY <3>1, ReceiveFacts
    <3> QED BY <3>2, ReceiveFacts
  <2> QED BY <2>1 DEF Waiting
<1> QED BY <1>1, <1>2 DEF InRing

\* The handler takes a byte from RDATA.
LEMMA StepIsrReceive == ShapeInv /\ ReceiveInv /\ IsrReceive => ReceiveInv'
<1> SUFFICES ASSUME ShapeInv, ReceiveInv, IsrReceive PROVE ReceiveInv'
  OBVIOUS
<1>1. /\ isr = "idle" /\ rbne /\ rxIE /\ isr' = "rxCallback" /\ ~rbne' /\ ~rxIE'
      /\ rxBuf' = [rxBuf EXCEPT ![rxPtr] = rdr] /\ rxPtr' = rxPtr + 1
      /\ UNCHANGED <<pc, char, rxHead, rxTail, rdr, arrived, delivered, lost>>
  BY DEF IsrReceive, RxPending, task, rxHist
<1>2. rxPtr \in 0..RxSize-1 /\ (rxHead = rxTail \/ rxPtr = rxHead)
  BY <1>1, ReceiveFacts DEF ReceiveInv, PlaceInv
<1>3. rxBuf \in [0..RxSize-1 -> Nat] /\ rxTail \in 0..RxSize-1 /\ rxHead \in 0..RxSize-1
  BY ReceiveFacts
<1>4. rxBuf'[rxPtr' - 1] = rdr
  BY <1>1, <1>2, <1>3
<1>5. /\ RxUsed' = RxUsed /\ \A k \in 0..RxUsed-1 : Waiting(k)' = Waiting(k)
      /\ InRing' = InRing
  BY <1>1, <1>2, StoreOutside
<1>6. /\ Read' = Read /\ Handled = {} /\ InRdata = {rdr}
      /\ Handled' = {rdr} /\ InRdata' = {} /\ Gone' = Gone
  BY <1>1, <1>4 DEF Read, Handled, InRdata, Gone
<1>7. Held' = Held
  BY <1>5, <1>6 DEF Held
<1>8. PlaceInv'
  BY <1>1, <1>2, <1>3 DEF PlaceInv
<1>9. CharInv'
  BY <1>1, <1>2, <1>3 DEF ReceiveInv, CharInv
<1>10. RereadInv'
  BY <1>1, <1>4 DEF RereadInv
<1>11. AgeInv'
  BY <1>1, <1>5, <1>6 DEF ReceiveInv, AgeInv, Earlier
<1>12. AccountInv'
  BY <1>1, <1>6, <1>7 DEF ReceiveInv, AccountInv
<1> QED BY <1>8, <1>9, <1>10, <1>11, <1>12 DEF ReceiveInv

\* The callback puts the byte into the ring, or drops it when that is full.
LEMMA StepIsrRxCallback == ShapeInv /\ ReceiveInv /\ IsrRxCallback => ReceiveInv'
<1> SUFFICES ASSUME ShapeInv, ReceiveInv, IsrRxCallback PROVE ReceiveInv'
  OBVIOUS
<1> DEFINE first == rxBuf[rxPtr - 1]
<1>1. /\ isr = "rxCallback" /\ isr' = "idle" /\ ~rbne' /\ rxPtr' = rxHead'
      /\ rxBuf' = IF RxRoom THEN [rxBuf EXCEPT ![rxHead] = rdr] ELSE rxBuf
      /\ rxHead' = IF RxRoom THEN Succ(rxHead, RxSize) ELSE rxHead
      /\ lost' = lost \cup (IF first # rdr THEN {<<first, "reread">>} ELSE {})
                      \cup (IF RxRoom THEN {} ELSE {<<rdr, "full">>})
      /\ UNCHANGED <<pc, char, rxTail, rdr, arrived, delivered>>
  BY DEF IsrRxCallback, ArmReceive, RxNextHead, task
<1>2. /\ RxUsed \in 0..RxSize-1 /\ rxHead \in 0..RxSize-1 /\ rxTail \in 0..RxSize-1
      /\ rxBuf \in [0..RxSize-1 -> Nat] /\ first \in Nat /\ rdr \in Nat
      /\ \A k \in 0..RxUsed-1 : Slot(rxTail, k, RxSize) \in 0..RxSize-1
                                /\ Slot(rxTail, k, RxSize) # rxHead
  BY <1>1, ReceiveFacts
<1>3. Handled = {first} /\ InRdata = (IF rbne THEN {rdr} ELSE {})
  BY <1>1 DEF Handled, InRdata
<1>4. rdr \in Handled \cup InRdata /\ (~rbne => rdr = first)
  BY <1>1, <1>3 DEF ReceiveInv, RereadInv
<1>5. Read' = Read /\ Handled' = {} /\ InRdata' = {}
  BY <1>1 DEF Read, Handled, InRdata
<1>6. PlaceInv' /\ RereadInv'
  BY <1>1 DEF PlaceInv, RereadInv
<1>7. CASE RxRoom
  <2>1. Succ(rxHead, RxSize) # rxTail
    BY <1>7 DEF RxRoom
  <2>2. RxUsed < RxSize - 1
    BY <1>2, <2>1, UsedRange DEF RxUsed
  <2>n. PICK n \in Nat : n = RxUsed
    BY <1>2
  <2>3. RxUsed' = n + 1 /\ Slot(rxTail, n, RxSize) = rxHead
    BY <1>1, <1>2, <1>7, <2>2, <2>n, RingFill DEF RxUsed
  <2>4. Waiting(n)' = rdr
    BY <1>1, <1>2, <1>7, <2>3 DEF Waiting
  <2>5. \A k \in 0..RxUsed-1 : Waiting(k)' = Waiting(k)
    BY <1>1, <1>2, <1>7 DEF Waiting
  <2>5a. Waiting(n)' \in InRing' /\ \A k \in 0..RxUsed-1 : Waiting(k) \in InRing'
    <3>1. n \in 0..RxUsed'-1 /\ \A k \in 0..RxUsed-1 : k \in 0..RxUsed'-1
      BY <1>2, <2>n, <2>3
    <3>2. \A k \in 0..RxUsed'-1 : Waiting(k)' \in InRing'
      BY DEF InRing
    <3> QED BY <3>1, <3>2, <2>5
  <2>6. InRing' = InRing \cup {rdr}
    <3>1. ASSUME NEW b \in InRing' PROVE b \in InRing \cup {rdr}
      <4>1. PICK k \in 0..RxUsed'-1 : b = Waiting(k)'
        BY <3>1 DEF InRing
      <4>2. k \in 0..RxUsed-1 \/ k = n
        BY <1>2, <2>n, <2>3
      <4> QED BY <4>1, <4>2, <2>4, <2>5 DEF InRing
    <3>2. ASSUME NEW b \in InRing PROVE b \in InRing'
      BY <3>2, <2>5a DEF InRing
    <3> QED BY <3>1, <3>2, <2>4, <2>5a
  <2>7. Earlier(Read, InRing') /\ Earlier(InRing, {rdr})
    BY <1>4, <2>6 DEF ReceiveInv, AgeInv, Earlier
  <2>8. AgeInv'
    <3>1. ASSUME NEW k \in 0..RxUsed'-1, NEW l \in 0..RxUsed'-1, k < l
          PROVE  Waiting(k)' < Waiting(l)'
      <4>1. k \in 0..RxUsed-1
        BY <1>2, <2>n, <2>3, <3>1
      <4>2. CASE l \in 0..RxUsed-1
        BY <2>5, <3>1, <4>1, <4>2 DEF ReceiveInv, AgeInv
      <4>3. CASE l = n
        <5>1. Waiting(k) \in InRing
          BY <4>1 DEF InRing
        <5> QED BY <2>4, <2>5, <2>7, <4>1, <4>3, <5>1 DEF Earlier
      <4> QED BY <1>2, <2>n, <2>3, <4>2, <4>3
    <3>2. \A i, j \in 1..Len(delivered') : i < j => delivered'[i] < delivered'[j]
      BY <1>1 DEF ReceiveInv, AgeInv
    <3> QED BY <1>5, <2>7, <3>1, <3>2 DEF AgeInv, Earlier
  <2>9. AccountInv'
    <3>1. Gone' = Gone \cup (IF first # rdr THEN {first} ELSE {})
      <4>1. CASE first # rdr
        <5>1. lost' = lost \cup {<<first, "reread">>}
          BY <1>1, <1>7, <4>1
        <5> QED BY <4>1, <5>1, OneGone
      <4>2. CASE first = rdr
        <5>1. lost' = lost
          BY <1>1, <1>7, <4>2
        <5> QED BY <4>2, <5>1 DEF Gone
      <4> QED BY <4>1, <4>2
    <3>2. Held' \cup Gone' = Held \cup Gone /\ Held' \subseteq Held
      BY <1>3, <1>4, <1>5, <2>6, <3>1 DEF Held
    <3>3. \A l \in lost' : l[2] = "full" => l \in lost
      BY <1>1, <1>7
    <3> QED BY <1>1, <3>2, <3>3 DEF ReceiveInv, AccountInv
  <2>10. CharInv'
    <3>1. rxHead' # rxTail'
      BY <1>1, <1>7, <2>1
    <3>2. pc = "readAdvance" => rxHead # rxTail /\ char = rxBuf[rxTail]
      BY DEF ReceiveInv, CharInv
    <3>3. rxHead # rxTail => rxBuf'[rxTail] = rxBuf[rxTail]
      BY <1>1, <1>2, <1>7
    <3> QED BY <1>1, <3>1, <3>2, <3>3 DEF CharInv
  <2> QED BY <1>6, <2>8, <2>9, <2>10 DEF ReceiveInv
<1>8. CASE ~RxRoom
  <2>1. UNCHANGED <<rxBuf, rxHead, rxTail>>
    BY <1>1, <1>8
  <2>2. RxUsed' = RxUsed /\ (\A k : Waiting(k)' = Waiting(k)) /\ InRing' = InRing
    BY <2>1 DEF RxUsed, Waiting, InRing
  <2>3. AgeInv'
    BY <1>1, <1>5, <2>2 DEF ReceiveInv, AgeInv, Earlier
  <2>4. Gone' = Gone \cup {first, rdr}
    <3>1. CASE first # rdr
      <4>1. lost' = lost \cup {<<first, "reread">>, <<rdr, "full">>}
        BY <1>1, <1>8, <3>1
      <4> QED BY <4>1, TwoGone
    <3>2. CASE first = rdr
      <4>1. lost' = lost \cup {<<rdr, "full">>}
        BY <1>1, <1>8, <3>2
      <4> QED BY <3>2, <4>1, OneGone
    <3> QED BY <3>1, <3>2
  <2>5. Held' = Read \cup InRing
    BY <1>5, <2>2 DEF Held
  <2>6. rdr \notin Held'
    <3>1. Earlier(Read \cup InRing, {rdr})
      BY <1>4 DEF ReceiveInv, AgeInv, Earlier
    <3>2. ~(rdr < rdr)
      BY <1>2
    <3> QED BY <2>5, <3>1, <3>2 DEF Earlier
  <2>7. Held' \cup Gone' = Held \cup Gone /\ Held' \subseteq Held
    BY <1>3, <1>4, <2>4, <2>5 DEF Held
  <2>8. \A l \in lost' : l[2] = "full" => l \in lost \/ l[1] = rdr
    BY <1>1, <1>8
  <2>9. AccountInv'
    BY <1>1, <2>6, <2>7, <2>8 DEF ReceiveInv, AccountInv
  <2>10. CharInv'
    BY <1>1, <2>1 DEF ReceiveInv, CharInv
  <2> QED BY <1>6, <2>3, <2>9, <2>10 DEF ReceiveInv
<1> QED BY <1>7, <1>8

\* read() gives its byte to the sketch.
LEMMA StepReadAdvance == ShapeInv /\ ReceiveInv /\ ReadAdvance => ReceiveInv'
<1> SUFFICES ASSUME ShapeInv, ReceiveInv, ReadAdvance PROVE ReceiveInv'
  OBVIOUS
<1>1. /\ pc = "readAdvance" /\ isr = "idle" /\ pc' = "idle"
      /\ rxTail' = Succ(rxTail, RxSize) /\ delivered' = Append(delivered, char)
      /\ UNCHANGED <<rxBuf, rxHead, rxPtr, rdr, rbne, rxIE, isr, arrived, lost>>
  BY DEF ReadAdvance, TaskAt, rxReq, rxHw
<1>2. rxHead # rxTail /\ char = rxBuf[rxTail]
  BY <1>1 DEF ReceiveInv, CharInv
<1>3. /\ RxUsed \in 1..RxSize-1 /\ rxHead \in 0..RxSize-1 /\ rxTail \in 0..RxSize-1
      /\ delivered \in Seq(Nat) /\ Len(delivered) \in Nat
  BY <1>2, ReceiveFacts
<1>4. /\ RxUsed' = RxUsed - 1 /\ Slot(rxTail, 0, RxSize) = rxTail
      /\ \A k \in 0..RxUsed-2 : Slot(rxTail', k, RxSize) = Slot(rxTail, k + 1, RxSize)
  BY <1>1, <1>2, <1>3, RingFree DEF RxUsed
<1>5. /\ Waiting(0) = char /\ 0 \in 0..RxUsed-1 /\ char \in Nat
      /\ \A k \in 0..RxUsed-1 : Waiting(k) \in Nat
  BY <1>2, <1>3, <1>4, ReceiveFacts DEF Waiting
<1>6. \A k \in 0..RxUsed'-1 : k + 1 \in 0..RxUsed-1 /\ Waiting(k)' = Waiting(k + 1)
  BY <1>1, <1>3, <1>4 DEF Waiting
<1>7. /\ Len(delivered') = Len(delivered) + 1 /\ delivered'[Len(delivered) + 1] = char
      /\ \A i \in 1..Len(delivered) : delivered'[i] = delivered[i]
  BY <1>1, <1>3, <1>5
<1>8. Read' = Read \cup {char}
  <2>1. ASSUME NEW b \in Read' PROVE b \in Read \cup {char}
    <3>1. PICK i \in 1..Len(delivered') : b = delivered'[i]
      BY <2>1 DEF Read
    <3>2. i \in 1..Len(delivered) \/ i = Len(delivered) + 1
      BY <1>3, <1>7
    <3> QED BY <1>7, <3>1, <3>2 DEF Read
  <2>2. ASSUME NEW b \in Read \cup {char} PROVE b \in Read'
    <3>1. \A i \in 1..Len(delivered) : i \in 1..Len(delivered')
      BY <1>3, <1>7
    <3>2. Len(delivered) + 1 \in 1..Len(delivered')
      BY <1>3, <1>7
    <3> QED BY <1>7, <2>2, <3>1, <3>2 DEF Read
  <2> QED BY <2>1, <2>2
<1>9. InRing' \subseteq InRing /\ InRing \subseteq InRing' \cup {char}
  <2>1. ASSUME NEW b \in InRing' PROVE b \in InRing
    <3>1. PICK k \in 0..RxUsed'-1 : b = Waiting(k)'
      BY <2>1 DEF InRing
    <3> QED BY <1>6, <3>1 DEF InRing
  <2>2. ASSUME NEW b \in InRing PROVE b \in InRing' \cup {char}
    <3>1. PICK k \in 0..RxUsed-1 : b = Waiting(k)
      BY <2>2 DEF InRing
    <3>2. CASE k = 0
      BY <1>5, <3>1, <3>2
    <3>3. CASE k # 0
      <4>1. PICK j \in 0..RxUsed'-1 : k = j + 1
        BY <1>3, <1>4, <3>3
      <4>2. b = Waiting(j)'
        BY <1>6, <3>1, <4>1
      <4> QED BY <4>2 DEF InRing
    <3> QED BY <3>2, <3>3
  <2> QED BY <2>1, <2>2
<1>10. Handled = {} /\ Handled' = {} /\ InRdata' = InRdata /\ Gone' = Gone
  BY <1>1 DEF Handled, InRdata, Gone
<1>11. char \in InRing /\ Held' = Held
  <2>1. char \in InRing
    BY <1>5 DEF InRing
  <2> QED BY <1>8, <1>9, <1>10, <2>1 DEF Held
<1>12. PlaceInv' /\ CharInv' /\ RereadInv'
  BY <1>1, <1>2 DEF ReceiveInv, PlaceInv, CharInv, RereadInv
<1>13. AgeInv'
  <2>1. ASSUME NEW i \in 1..Len(delivered'), NEW j \in 1..Len(delivered'), i < j
        PROVE  delivered'[i] < delivered'[j]
    <3>1. i \in 1..Len(delivered)
      BY <1>3, <1>7, <2>1
    <3>2. CASE j \in 1..Len(delivered)
      BY <1>7, <2>1, <3>1, <3>2 DEF ReceiveInv, AgeInv
    <3>3. CASE j = Len(delivered) + 1
      <4>1. delivered[i] \in Read
        BY <3>1 DEF Read
      <4> QED BY <1>7, <1>11, <3>1, <3>3, <4>1 DEF ReceiveInv, AgeInv, Earlier
    <3> QED BY <1>3, <1>7, <3>2, <3>3
  <2>2. ASSUME NEW k \in 0..RxUsed'-1, NEW l \in 0..RxUsed'-1, k < l
        PROVE  Waiting(k)' < Waiting(l)'
    <3>1. /\ k + 1 \in 0..RxUsed-1 /\ Waiting(k)' = Waiting(k + 1)
          /\ l + 1 \in 0..RxUsed-1 /\ Waiting(l)' = Waiting(l + 1)
      BY <1>6
    <3>2. k + 1 < l + 1
      BY <1>3, <1>4, <2>2
    <3> QED BY <3>1, <3>2 DEF ReceiveInv, AgeInv
  <2>3. Earlier({char}, InRing')
    <3>1. ASSUME NEW b \in InRing' PROVE char < b
      <4>1. PICK k \in 0..RxUsed'-1 : b = Waiting(k)'
        BY <3>1 DEF InRing
      <4>2. k + 1 \in 0..RxUsed-1 /\ b = Waiting(k + 1) /\ 0 < k + 1
        BY <1>3, <1>4, <1>6, <4>1
      <4> QED BY <1>5, <4>2 DEF ReceiveInv, AgeInv
    <3> QED BY <3>1 DEF Earlier
  <2>4. Earlier(Read', InRing')
    BY <1>8, <1>9, <2>3 DEF ReceiveInv, AgeInv, Earlier
  <2>5. Earlier(Read' \cup InRing', Handled' \cup InRdata') /\ Earlier(Handled', InRdata')
    BY <1>8, <1>9, <1>10, <1>11 DEF ReceiveInv, AgeInv, Earlier
  <2> QED BY <2>1, <2>2, <2>4, <2>5 DEF AgeInv
<1>14. AccountInv'
  BY <1>1, <1>10, <1>11 DEF ReceiveInv, AccountInv
<1> QED BY <1>12, <1>13, <1>14 DEF ReceiveInv
\* read() takes its copy of the oldest byte.
LEMMA StepReadCall == ShapeInv /\ ReceiveInv /\ ReadCall => ReceiveInv'
<1> SUFFICES ASSUME ShapeInv, ReceiveInv, ReadCall PROVE ReceiveInv'
  OBVIOUS
<1>1. /\ rxHead # rxTail /\ char' = rxBuf[rxTail]
      /\ UNCHANGED <<rxBuf, rxHead, rxTail, rxPtr, rdr, rbne, rxIE, isr, arrived,
                     delivered, lost>>
  BY DEF ReadCall, rxRing, rxReq, rxHw, rxHist
<1>2. PlaceInv' /\ CharInv' /\ RereadInv'
  BY <1>1 DEF ReceiveInv, PlaceInv, CharInv, RereadInv
<1>3. /\ RxUsed' = RxUsed /\ \A k : Waiting(k)' = Waiting(k)
      /\ UNCHANGED <<Read, InRing, Handled, InRdata, Gone>>
  BY <1>1 DEF RxUsed, Waiting, Read, InRing, Handled, InRdata, Gone
<1>4. AgeInv'
  BY <1>1, <1>3 DEF ReceiveInv, AgeInv, Earlier
<1>5. AccountInv'
  BY <1>1, <1>3 DEF ReceiveInv, AccountInv, Held
<1> QED BY <1>2, <1>4, <1>5 DEF ReceiveInv

\* Resetting the USART drops what no one has read, and nothing else.
LEMMA ResetKeepsRing ==
    ASSUME ShapeInv, ReceiveInv, ResetUsart, isr = "idle", isr' = "idle",
           UNCHANGED <<rxBuf, rxHead, rxTail, arrived, delivered>>
    PROVE  AgeInv' /\ AccountInv'
<1>1. /\ ~rbne'
      /\ lost' = IF rbne THEN lost \cup {<<rdr, "end">>} ELSE lost
  BY DEF ResetUsart
<1>2. /\ RxUsed' = RxUsed /\ \A k : Waiting(k)' = Waiting(k)
      /\ UNCHANGED <<Read, InRing>>
  BY DEF RxUsed, Waiting, Read, InRing
<1>3. Handled = {} /\ Handled' = {} /\ InRdata' = {}
  BY <1>1 DEF Handled, InRdata
<1>4. AgeInv'
  BY <1>2, <1>3 DEF ReceiveInv, AgeInv, Earlier
<1>5. Gone' = Gone \cup InRdata
  <2>1. CASE rbne
    BY <1>1, <2>1, OneGone DEF InRdata
  <2>2. CASE ~rbne
    BY <1>1, <2>2 DEF InRdata, Gone
  <2> QED BY <2>1, <2>2
<1>6. Held' \subseteq Held /\ Held' \cup Gone' = Held \cup Gone
  BY <1>2, <1>3, <1>5 DEF Held
<1>7. \A l \in lost' : l[2] = "full" => l \in lost
  BY <1>1
<1>8. AccountInv'
  BY <1>6, <1>7 DEF ReceiveInv, AccountInv
<1> QED BY <1>4, <1>8

LEMMA StepBegin ==
    ASSUME ShapeInv, ReceiveInv, NEW config, Begin(config)
    PROVE  ReceiveInv'
<1>1. /\ isr = "idle" /\ isr' = "idle" /\ pc' = "idle" /\ ResetUsart
      /\ rxPtr' = rxHead
      /\ UNCHANGED <<rxBuf, rxHead, rxTail, arrived, delivered>>
  BY DEF Begin, ArmReceive, rxRing
<1>2. PlaceInv' /\ CharInv' /\ RereadInv'
  BY <1>1 DEF PlaceInv, CharInv, RereadInv
<1> QED BY <1>1, <1>2, ResetKeepsRing DEF ReceiveInv

LEMMA StepEndFree == ShapeInv /\ ReceiveInv /\ EndFree => ReceiveInv'
<1> SUFFICES ASSUME ShapeInv, ReceiveInv, EndFree PROVE ReceiveInv'
  OBVIOUS
<1>1. /\ isr = "idle" /\ isr' = "idle" /\ pc' = "idle" /\ ResetUsart /\ ~rxIE'
      /\ UNCHANGED <<rxBuf, rxHead, rxTail, arrived, delivered>>
  BY DEF EndFree, TaskAt, rxRing
<1>2. PlaceInv' /\ CharInv' /\ RereadInv'
  BY <1>1 DEF PlaceInv, CharInv, RereadInv
<1> QED BY <1>1, <1>2, ResetKeepsRing DEF ReceiveInv

\* end() drops what waits in the ring.
LEMMA StepEndCall == ShapeInv /\ ReceiveInv /\ EndCall => ReceiveInv'
<1> SUFFICES ASSUME ShapeInv, ReceiveInv, EndCall PROVE ReceiveInv'
  OBVIOUS
<1>1. /\ isr = "idle" /\ pc' # "readAdvance" /\ rxHead' = rxTail
      /\ lost' = lost \cup {<<b, "end">> : b \in RxRingIds}
      /\ UNCHANGED <<isr, rxBuf, rxTail, rxPtr, rdr, rbne, rxIE, arrived, delivered>>
  BY DEF EndCall, TaskAt, rxReq, rxHw
<1>2. PlaceInv' /\ CharInv' /\ RereadInv'
  BY <1>1 DEF PlaceInv, CharInv, RereadInv
<1>3. RxUsed' = 0
  BY <1>1, ReceiveFacts DEF RxUsed, Used
<1>4. InRing' = {} /\ UNCHANGED <<Read, Handled, InRdata>>
  BY <1>1, <1>3 DEF InRing, Read, Handled, InRdata
<1>5. AgeInv'
  BY <1>1, <1>3, <1>4 DEF ReceiveInv, AgeInv, Earlier
<1>6. Gone' = Gone \cup InRing
  <2>1. Gone' = Gone \cup {l[1] : l \in {<<b, "end">> : b \in RxRingIds}}
    BY <1>1, GoneGrows
  <2>2. \A b : <<b, "end">>[1] = b
    OBVIOUS
  <2>3. {l[1] : l \in {<<b, "end">> : b \in RxRingIds}} = RxRingIds
    BY <2>2
  <2> QED BY <2>1, <2>3, RingIds
<1>7. Held' \subseteq Held /\ Held' \cup Gone' = Held \cup Gone
  BY <1>4, <1>6 DEF Held
<1>8. \A l \in lost' : l[2] = "full" => l \in lost
  BY <1>1
<1>9. AccountInv'
  BY <1>1, <1>7, <1>8 DEF ReceiveInv, AccountInv
<1> QED BY <1>2, <1>5, <1>9 DEF ReceiveInv

\* A byte arrives: it is newer than all that are held, or it is lost.
LEMMA StepLineIn ==
    ASSUME ShapeInv, ReceiveInv, NEW damaged, LineIn(damaged)
    PROVE  ReceiveInv'
<1>1. /\ arrived' = arrived + 1
      /\ UNCHANGED <<isr, pc, char, rxBuf, rxHead, rxTail, rxPtr, rxIE, delivered>>
  BY DEF LineIn, task, rxRing, rxReq
<1>2. arrived \in Nat
  BY ReceiveFacts
<1>3. /\ RxUsed' = RxUsed /\ \A k : Waiting(k)' = Waiting(k)
      /\ UNCHANGED <<Read, InRing, Handled>>
  BY <1>1 DEF RxUsed, Waiting, Read, InRing, Handled
<1>4. PlaceInv' /\ CharInv'
  BY <1>1 DEF ReceiveInv, PlaceInv, CharInv
<1>5. 1..arrived' = (1..arrived) \cup {arrived + 1}
  BY <1>1, <1>2
<1>6. CASE rbne
  <2>1. rbne' /\ rdr' = rdr /\ lost' = lost \cup {<<arrived + 1, "overrun">>}
    BY <1>6 DEF LineIn
  <2>2. InRdata' = InRdata /\ RereadInv'
    BY <1>6, <2>1 DEF InRdata, RereadInv
  <2>3. AgeInv'
    BY <1>1, <1>3, <2>2 DEF ReceiveInv, AgeInv, Earlier
  <2>4. Gone' = Gone \cup {arrived + 1}
    BY <2>1, OneGone
  <2>5. Held' = Held
    BY <1>3, <2>2 DEF Held
  <2>6. \A l \in lost' : l[2] = "full" => l \in lost
    BY <2>1
  <2>7. AccountInv'
    BY <1>5, <2>4, <2>5, <2>6 DEF ReceiveInv, AccountInv
  <2> QED BY <1>4, <2>2, <2>3, <2>7 DEF ReceiveInv
<1>7. CASE ~rbne
  <2>1. rbne' /\ rdr' = arrived + 1 /\ lost' = lost
    BY <1>7 DEF LineIn
  <2>2. InRdata = {} /\ InRdata' = {arrived + 1} /\ Gone' = Gone /\ RereadInv'
    BY <1>7, <2>1 DEF InRdata, Gone, RereadInv
  <2>3. Held' = Held \cup {arrived + 1} /\ Held = Read \cup InRing \cup Handled
    BY <1>3, <2>2 DEF Held
  <2>4. Held \subseteq 1..arrived /\ Gone \subseteq 1..arrived
    BY HeldRange DEF ReceiveInv
  <2>5. \A b \in Held : b < arrived + 1
    BY <1>2, <2>4
  <2>6. AgeInv'
    <3>1. /\ Earlier(Read', InRing')
          /\ \A i, j \in 1..Len(delivered') : i < j => delivered'[i] < delivered'[j]
          /\ \A k, l \in 0..RxUsed'-1 : k < l => Waiting(k)' < Waiting(l)'
      BY <1>1, <1>3 DEF ReceiveInv, AgeInv, Earlier
    <3>2. Earlier(Read' \cup InRing', Handled' \cup InRdata')
      BY <1>3, <2>2, <2>3, <2>5 DEF ReceiveInv, AgeInv, Earlier
    <3>3. Earlier(Handled', InRdata')
      BY <1>3, <2>2, <2>3, <2>5 DEF Earlier
    <3> QED BY <3>1, <3>2, <3>3 DEF AgeInv
  <2>7. arrived + 1 \notin Gone
    BY <1>2, <2>4
  <2>8. \A l \in lost' : l[2] = "full" => l[1] \notin Held'
    <3>1. \A l \in lost : l[1] \in Gone
      BY DEF Gone
    <3> QED BY <2>1, <2>3, <2>7, <3>1 DEF ReceiveInv, AccountInv
  <2>9. AccountInv'
    BY <1>5, <2>2, <2>3, <2>8 DEF ReceiveInv, AccountInv
  <2> QED BY <1>4, <2>2, <2>6, <2>9 DEF ReceiveInv
<1> QED BY <1>6, <1>7

\* Clearing the error flags moves no byte.
LEMMA StepIsrError == ReceiveInv /\ IsrError => ReceiveInv'
<1> SUFFICES ASSUME ReceiveInv, IsrError PROVE ReceiveInv'
  OBVIOUS
<1>1. UNCHANGED <<pc, char, isr, rxBuf, rxHead, rxTail, rxPtr, rdr, rbne, rxIE,
                  arrived, delivered, lost>>
  BY DEF IsrError, task, rxRing, rxReq, rxHist
<1>2. PlaceInv' /\ CharInv' /\ RereadInv'
  BY <1>1 DEF ReceiveInv, PlaceInv, CharInv, RereadInv
<1>3. /\ RxUsed' = RxUsed /\ \A k : Waiting(k)' = Waiting(k)
      /\ UNCHANGED <<Read, InRing, Handled, InRdata, Gone>>
  BY <1>1 DEF RxUsed, Waiting, Read, InRing, Handled, InRdata, Gone
<1>4. AgeInv'
  BY <1>1, <1>3 DEF ReceiveInv, AgeInv, Earlier
<1>5. AccountInv'
  BY <1>1, <1>3 DEF ReceiveInv, AccountInv, Held
<1> QED BY <1>2, <1>4, <1>5 DEF ReceiveInv

LEMMA StepReceive == ShapeInv /\ ReceiveInv /\ [Next]_vars => ReceiveInv'
<1> SUFFICES ASSUME ShapeInv, ReceiveInv, [Next]_vars PROVE ReceiveInv'
  OBVIOUS
<1>1. CASE \E config \in Configs : Begin(config)
  BY <1>1, StepBegin
<1>2. CASE WriteCall \/ FlushCall
  BY <1>2, ReceiveUnchanged
     DEF WriteCall, FlushCall, TaskAt, rxVars
<1>3. CASE EndCall
  BY <1>3, StepEndCall
<1>4. CASE ReadCall
  BY <1>4, StepReadCall
<1>5. CASE WriteSpin \/ WriteStore \/ WritePublish \/ WriteCountLoad \/ WriteCountStore
  BY <1>5, ReceiveUnchanged
     DEF WriteSpin, WriteStore, WritePublish, WriteCountLoad, WriteCountStore
<1>6. CASE WriteLeave \/ WriteIdleLine \/ WriteTransmit \/ WriteKick
  BY <1>6, ReceiveUnchanged
     DEF WriteLeave, WriteIdleLine, WriteTransmit, WriteKick
<1>7. CASE FlushDone \/ EndFlushed
  BY <1>7, ReceiveUnchanged DEF FlushDone, EndFlushed
<1>8. CASE EndFree
  BY <1>8, StepEndFree
<1>9. CASE ReadAdvance
  BY <1>9, StepReadAdvance
<1>10. CASE IsrReceive
  BY <1>10, StepIsrReceive
<1>11. CASE IsrRxCallback
  BY <1>11, StepIsrRxCallback
<1>12. CASE IsrTransmit
  BY <1>12, ReceiveUnchanged DEF IsrTransmit, task, rxVars
<1>13. CASE IsrError
  BY <1>13, StepIsrError
<1>14. CASE LineLoad \/ LineOut
  BY <1>14, ReceiveUnchanged DEF LineLoad, LineOut, task, rxVars
<1>15. CASE \E damaged \in BOOLEAN : LineIn(damaged)
  BY <1>15, StepLineIn
<1>16. CASE UNCHANGED vars
  BY <1>16, ReceiveUnchanged DEF vars, task, rxVars
<1> QED BY <1>1, <1>2, <1>3, <1>4, <1>5, <1>6, <1>7, <1>8, <1>9, <1>10, <1>11,
           <1>12, <1>13, <1>14, <1>15, <1>16
        DEF Next, CallStep, Isr, Line

LEMMA ReceiveAlways == Spec => [](ShapeInv /\ ReceiveInv)
<1>1. Init => ShapeInv /\ ReceiveInv
  BY InitShape, InitReceive
<1>2. ShapeInv /\ ReceiveInv /\ [Next]_vars => (ShapeInv /\ ReceiveInv)'
  BY StepShape, StepReceive
<1> QED BY <1>1, <1>2, PTL DEF Spec
-----------------------------------------------------------------------------
(* Theorems.                                                                 *)

\* The k-th byte of a concatenation of two sequences of bytes.
LEMMA Joined ==
    ASSUME NEW s \in Seq(Nat), NEW t \in Seq(Nat)
    PROVE  /\ s \o t \in Seq(Nat) /\ Len(s \o t) = Len(s) + Len(t)
           /\ \A i \in 1..Len(s) : (s \o t)[i] = s[i]
           /\ \A i \in 1..Len(t) : (s \o t)[Len(s) + i] = t[i]
           /\ \A i \in 1..Len(s)+Len(t) : i \in 1..Len(s) \/ i - Len(s) \in 1..Len(t)
OBVIOUS

Rising(s) == \A i, j \in 1..Len(s) : i < j => s[i] < s[j]

\* The elements of a sequence, by their places.
LEMMA Elements ==
    ASSUME NEW s \in Seq(Nat)
    PROVE  /\ Len(s) \in Nat /\ DOMAIN s = 1..Len(s)
           /\ Range(s) = {s[i] : i \in 1..Len(s)}
           /\ ToSet(s) = Range(s)
<1>1. Len(s) \in Nat /\ DOMAIN s = 1..Len(s)
  OBVIOUS
<1> QED BY <1>1 DEF Range, ToSet

\* Two rising sequences of which one is all before the other make a rising one.
LEMMA JoinRising ==
    ASSUME NEW s \in Seq(Nat), NEW t \in Seq(Nat), Rising(s), Rising(t),
           Earlier(Range(s), Range(t))
    PROVE  Rising(s \o t) /\ Range(s \o t) = Range(s) \cup Range(t)
<1>1. /\ Len(s) \in Nat /\ Len(t) \in Nat
      /\ Range(s) = {s[i] : i \in 1..Len(s)} /\ Range(t) = {t[i] : i \in 1..Len(t)}
      /\ Range(s \o t) = {(s \o t)[i] : i \in 1..Len(s)+Len(t)}
  <2>1. s \o t \in Seq(Nat) /\ Len(s \o t) = Len(s) + Len(t)
    BY Joined
  <2>2. Range(s \o t) = {(s \o t)[i] : i \in 1..Len(s \o t)}
    BY <2>1, Elements
  <2> QED BY <2>1, <2>2, Elements
<1>2. ASSUME NEW i \in 1..Len(s)+Len(t), NEW j \in 1..Len(s)+Len(t), i < j
      PROVE  (s \o t)[i] < (s \o t)[j]
  <2>1. CASE j \in 1..Len(s)
    <3>1. i \in 1..Len(s)
      BY <1>1, <1>2, <2>1
    <3> QED BY <1>2, <2>1, <3>1, Joined DEF Rising
  <2>2. CASE i \in 1..Len(s) /\ j - Len(s) \in 1..Len(t)
    <3>1. (s \o t)[i] = s[i] /\ (s \o t)[j] = t[j - Len(s)]
      <4>1. j = Len(s) + (j - Len(s))
        BY <1>1
      <4> QED BY <2>2, <4>1, Joined
    <3>2. s[i] \in Range(s) /\ t[j - Len(s)] \in Range(t)
      BY <1>1, <2>2
    <3> QED BY <3>1, <3>2 DEF Earlier
  <2>3. CASE i - Len(s) \in 1..Len(t) /\ j - Len(s) \in 1..Len(t)
    <3>1. (s \o t)[i] = t[i - Len(s)] /\ (s \o t)[j] = t[j - Len(s)]
      <4>1. i = Len(s) + (i - Len(s)) /\ j = Len(s) + (j - Len(s))
        BY <1>1
      <4> QED BY <2>3, <4>1, Joined
    <3>2. i - Len(s) < j - Len(s)
      BY <1>1, <1>2
    <3> QED BY <2>3, <3>1, <3>2 DEF Rising
  <2> QED BY <1>1, <1>2, <2>1, <2>2, <2>3
<1>3. Rising(s \o t)
  BY <1>2, Joined DEF Rising
<1>4. ASSUME NEW b \in Range(s \o t) PROVE b \in Range(s) \cup Range(t)
  <2>1. PICK i \in 1..Len(s)+Len(t) : b = (s \o t)[i]
    BY <1>1, <1>4
  <2>2. CASE i \in 1..Len(s)
    BY <1>1, <2>1, <2>2, Joined
  <2>3. CASE i - Len(s) \in 1..Len(t)
    <3>1. i = Len(s) + (i - Len(s))
      BY <1>1
    <3>2. b = t[i - Len(s)]
      BY <2>1, <2>3, <3>1, Joined
    <3> QED BY <1>1, <2>3, <3>2
  <2> QED BY <2>1, <2>2, <2>3, Joined
<1>5. ASSUME NEW b \in Range(s) PROVE b \in Range(s \o t)
  <2>1. PICK i \in 1..Len(s) : b = s[i]
    BY <1>1, <1>5
  <2>2. i \in 1..Len(s)+Len(t) /\ b = (s \o t)[i]
    BY <1>1, <2>1, Joined
  <2> QED BY <1>1, <2>2
<1>6. ASSUME NEW b \in Range(t) PROVE b \in Range(s \o t)
  <2>1. PICK i \in 1..Len(t) : b = t[i]
    BY <1>1, <1>6
  <2>2. Len(s) + i \in 1..Len(s)+Len(t) /\ b = (s \o t)[Len(s) + i]
    BY <1>1, <2>1, Joined
  <2> QED BY <1>1, <2>2
<1> QED BY <1>3, <1>4, <1>5, <1>6

\* Stored lists the bytes held, and lists them in the order of arrival.
LEMMA StoredIsHeld ==
    ASSUME ShapeInv, ReceiveInv
    PROVE  Rising(Stored) /\ Stored \in Seq(Nat) /\ Range(Stored) = Held
<1> DEFINE ring    == RingBytes(rxBuf, rxHead, rxTail, RxSize)
           handled == IF isr = "rxCallback" THEN <<rxBuf[rxPtr - 1]>> ELSE <<>>
           rdata   == IF rbne THEN <<rdr>> ELSE <<>>
<1>1. /\ delivered \in Seq(Nat) /\ Rising(delivered)
      /\ Range(delivered) = Read
  BY ReceiveFacts, Elements DEF ReceiveInv, AgeInv, Rising, Read
<1>2. ring \in Seq(Nat) /\ Len(ring) = RxUsed /\ Range(ring) = InRing
  <2>1. RxUsed \in Nat
    BY ReceiveFacts
  <2>2. \A k \in 1..RxUsed : rxBuf[Slot(rxTail, k - 1, RxSize)] \in Nat
    <3>1. \A k \in 1..RxUsed : k - 1 \in 0..RxUsed-1
      BY <2>1
    <3> QED BY <3>1, ReceiveFacts DEF Waiting
  <2>3. ring = [k \in 1..RxUsed |-> rxBuf[Slot(rxTail, k - 1, RxSize)]]
    BY DEF RingBytes, RxUsed
  <2> QED BY <2>1, <2>2, <2>3, RingIds DEF RxRingIds
<1>3. Rising(ring)
  <2>1. RxUsed \in Nat
    BY ReceiveFacts
  <2>2. ASSUME NEW i \in 1..RxUsed, NEW j \in 1..RxUsed, i < j
        PROVE  ring[i] < ring[j]
    <3>1. ring[i] = Waiting(i - 1) /\ ring[j] = Waiting(j - 1)
      BY DEF RingBytes, RxUsed, Waiting
    <3>2. i - 1 \in 0..RxUsed-1 /\ j - 1 \in 0..RxUsed-1 /\ i - 1 < j - 1
      BY <2>1, <2>2
    <3> QED BY <3>1, <3>2 DEF ReceiveInv, AgeInv
  <2> QED BY <1>2, <2>2 DEF Rising
<1>4. handled \in Seq(Nat) /\ Rising(handled) /\ Range(handled) = Handled
  BY SMTT(30), ReceiveFacts DEF Rising, Range, Handled
<1>5. rdata \in Seq(Nat) /\ Rising(rdata) /\ Range(rdata) = InRdata
  BY SMTT(30), ReceiveFacts DEF Rising, Range, InRdata
<1>6. /\ Rising(handled \o rdata) /\ handled \o rdata \in Seq(Nat)
      /\ Range(handled \o rdata) = Handled \cup InRdata
  BY <1>4, <1>5, JoinRising, Joined DEF ReceiveInv, AgeInv
<1>7. /\ Rising(delivered \o ring) /\ delivered \o ring \in Seq(Nat)
      /\ Range(delivered \o ring) = Read \cup InRing
  BY <1>1, <1>2, <1>3, JoinRising, Joined DEF ReceiveInv, AgeInv
<1>8. /\ Rising((delivered \o ring) \o (handled \o rdata))
      /\ (delivered \o ring) \o (handled \o rdata) \in Seq(Nat)
      /\ Range((delivered \o ring) \o (handled \o rdata)) = Held
  <2>1. Earlier(Range(delivered \o ring), Range(handled \o rdata))
    BY <1>6, <1>7 DEF ReceiveInv, AgeInv
  <2>2. Held = (Read \cup InRing) \cup (Handled \cup InRdata)
    BY DEF Held
  <2> HIDE DEF ring, handled, rdata
  <2> QED BY <1>6, <1>7, <2>1, <2>2, JoinRising, Joined
<1> QED BY <1>8 DEF Stored, Pending

\* read() returns bytes in the order of their arrival, none twice, and all
\* that wait are newer: for every size of the ring, and however the handler
\* interleaves with read() and end().
THEOREM ReceivesInOrder == Spec => []ReceivedInOrder
<1>1. ShapeInv /\ ReceiveInv => ReceivedInOrder
  BY StoredIsHeld DEF ReceivedInOrder, Rising
<1> QED BY <1>1, ReceiveAlways, PTL

\* Every byte that arrived was returned by read(), waits for it, or has a
\* record of its loss; one dropped by a full ring is nowhere else.
THEOREM ReceivesAll == Spec => []EveryByteAccounted
<1>1. ASSUME ShapeInv, ReceiveInv PROVE EveryByteAccounted
  <2>1. ToSet(Stored) = Held
    <3>1. Stored \in Seq(Nat) /\ Range(Stored) = Held
      BY <1>1, StoredIsHeld
    <3> QED BY <3>1, Elements
  <2> QED BY <1>1, <2>1 DEF EveryByteAccounted, ReceiveInv, AccountInv, Gone
<1> QED BY <1>1, ReceiveAlways, PTL

\* Between begin() and end() a receive is armed, or the handler is about to
\* arm the next: no interleaving leaves the open port deaf.
THEOREM StaysArmed == Spec => []ReceiverArmed
<1>1. Init => ReceiverArmed
  BY DEF Init, ReceiverArmed
<1>2. ASSUME ReceiverArmed, [Next]_vars PROVE ReceiverArmed'
  <2>1. CASE \E config \in Configs : Begin(config)
    BY <2>1 DEF Begin, ArmReceive, ReceiverArmed
  <2>2. CASE IsrReceive
    BY <2>2 DEF IsrReceive, ReceiverArmed
  <2>3. CASE IsrRxCallback
    BY <2>3 DEF IsrRxCallback, ArmReceive, ReceiverArmed
  <2>4. CASE EndFree
    BY <2>4 DEF EndFree, ReceiverArmed
  <2>5. CASE UNCHANGED <<open, rxIE, rxState, isr>>
    BY <1>2, <2>5 DEF ReceiverArmed
  <2> QED
    BY <1>2, <2>1, <2>2, <2>3, <2>4, <2>5
    DEF Next, CallStep, Isr, Line, WriteCall, FlushCall, EndCall, ReadCall,
        WriteSpin, WriteStore, WritePublish, WriteCountLoad, WriteCountStore,
        WriteLeave, WriteIdleLine, WriteTransmit, WriteKick, FlushDone,
        EndFlushed, ReadAdvance, IsrTransmit, IsrError, LineLoad, LineOut,
        LineIn, vars, rxVars, rxReq, rxHw, task
<1> QED BY <1>1, <1>2, PTL DEF Spec
=============================================================================
