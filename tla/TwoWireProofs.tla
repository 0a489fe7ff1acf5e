---------------------------- MODULE TwoWireProofs ---------------------------
(* Theorems about TwoWire for every buffer size, reply and bound, in a sketch *)
(* that ends each transfer with a STOP.  WireInv is inductive: the types, the *)
(* master's place in a call, the order in which the slave serves its flags,   *)
(* and where the bytes of a reply and of a message are; what it says of a     *)
(* message is said while no wait has run out.                                 *)
EXTENDS TwoWire, SequenceTheorems, TLAPS

-----------------------------------------------------------------------------
(* The inductive invariant.                                                  *)

CallType ==
    /\ pc \in {"idle", "start", "bytes", "request", "receive"}
    /\ stop \in BOOLEAN /\ ret \in {"OK", "BUSY"} /\ sent \in 0..Size
    /\ result \in Codes

TransmitType ==
    /\ transmitting \in BOOLEAN
    /\ txBuf \in [0..Size-1 -> Nat] /\ txHead \in 0..Size-1 /\ txCount \in Nat
    /\ written \in 0..MaxWrites
    /\ message \in Seq(Nat) /\ acked \in Seq(Seq(Nat))

ReadType == rxBuf \in [0..Size-1 -> Nat] /\ rxHead \in 0..Size /\ rxTail \in 0..Size-1

BusType ==
    /\ bus \in {"free", "write", "read"}
    /\ flags \subseteq {"ADDSEND", "RBNE", "STPDET"}
    /\ rdata \in Nat /\ tdata \in Nat

SlaveType ==
    /\ listening \in BOOLEAN
    /\ sBuf \in [0..Size-1 -> Nat] /\ sPtr \in Nat /\ sCount \in Nat
    /\ delivered \in Seq(Seq(Nat))

ReplyType ==
    /\ isr \in {"idle", "sending"} /\ replies \in Nat
    /\ sTx \in [0..Size-1 -> Nat] /\ sTxCount \in 0..Size /\ sSent \in 0..Size

CountType == timeouts \in Nat

WireType ==
    /\ CallType /\ TransmitType /\ ReadType /\ BusType
    /\ SlaveType /\ ReplyType /\ CountType

\* Where the master is inside a call, and what the transmit buffer holds.
MasterInv ==
    /\ stop = TRUE
    /\ txCount <= written
    /\ transmitting => Len(message) = txCount
    /\ transmitting /\ txCount < Size => txHead = txCount
    /\ transmitting /\ txCount <= Size => \A i \in 1..txCount : txBuf[i - 1] = message[i]
    /\ ~transmitting => txCount = 0 /\ txHead = 0
    /\ pc \in {"start", "bytes"} => transmitting /\ txCount \in 1..Size
    /\ pc = "bytes" => sent <= txCount /\ bus = "write"
    /\ pc \in {"request", "receive"} => ~transmitting /\ rxHead = 0
    /\ pc = "receive" <=> bus = "read"
    /\ rxHead = Size => rxTail = 0

\* The slave serves an address before what follows it, and is through with a
\* read when it has seen the STOP; bytes are counted from an address match.
SlaveInv ==
    /\ pc \in {"bytes", "receive"} => "STPDET" \notin flags
    /\ isr = "sending" => /\ "ADDSEND" \notin flags
                          /\ pc = "receive" \/ "STPDET" \in flags
    /\ \/ sCount <= sPtr
       \/ "ADDSEND" \in flags
       \/ flags = {} /\ pc \notin {"bytes", "receive"}

\* The answer to a read: first the address, then byte after byte, of which at
\* most one is on its way.
Replied(n) == \A i \in 0..n-1 : rxBuf[i] = ReplyByte(replies, i)

SendingInv ==
    isr = "sending" => /\ replies >= 1 /\ sTxCount = ReplyLen /\ sSent <= ReplyLen
                       /\ \A i \in 0..ReplyLen-1 : sTx[i] = ReplyByte(replies, i)

ReceivingInv ==
    pc = "receive" =>
        \/ "ADDSEND" \in flags /\ sent = 0 /\ tdata = 0
        \/ /\ "ADDSEND" \notin flags /\ replies >= 1 /\ sent <= ReplyLen
           /\ isr = "idle" => sent = ReplyLen /\ tdata = 0
           /\ isr = "sending" => \/ tdata = 0 /\ sSent = sent
                                 \/ /\ tdata = ReplyByte(replies, sent)
                                    /\ sSent = sent + 1
           /\ Replied(sent)

OfferedInv ==
    pc # "receive" => /\ tdata = 0
                      /\ isr = "sending" => sSent = ReplyLen
                      /\ \A i \in rxTail..rxHead-1 : rxBuf[i] = ReplyByte(replies, i)

AnswerInv == SendingInv /\ ReceivingInv /\ OfferedInv

\* Without a timeout: where the bytes of a message are.
Stored(m) == sCount = Len(m) /\ \A i \in 1..Len(m) : sBuf[i - 1] = m[i]

MessageInv ==
    timeouts = 0 =>
        /\ pc \notin {"bytes", "receive"} => bus = "free"
        /\ pc = "bytes" =>
              /\ acked = delivered /\ ret = "OK"
              /\ \/ flags = {"ADDSEND"} /\ sent = 0 /\ sPtr = 0
                 \/ flags = {} /\ sPtr = sent /\ sCount = sent
                    /\ \A i \in 1..sent : sBuf[i - 1] = message[i]
                 \/ flags = {"RBNE"} /\ sent >= 1 /\ sPtr = sent - 1 /\ sCount = sent - 1
                    /\ rdata = message[sent]
                    /\ \A i \in 1..sent-1 : sBuf[i - 1] = message[i]
        /\ pc = "receive" =>
              /\ acked = delivered /\ sPtr = 0 /\ flags \subseteq {"ADDSEND"}
              /\ flags = {} => sCount = 0
        /\ pc \notin {"bytes", "receive"} =>
              \/ flags = {} /\ acked = delivered /\ sPtr = 0
              \/ flags = {"ADDSEND", "STPDET"} /\ acked = delivered /\ sPtr = 0
              \/ flags = {"STPDET"} /\ acked = delivered /\ sPtr = 0 /\ sCount = 0
              \/ /\ flags = {"STPDET"} /\ sPtr = sCount
                 /\ acked # <<>> /\ acked = Append(delivered, acked[Len(acked)])
                 /\ Stored(acked[Len(acked)]) /\ sCount \in 1..Size

WireInv == WireType /\ MasterInv /\ SlaveInv /\ AnswerInv /\ MessageInv

-----------------------------------------------------------------------------
USE WireAssumption

\* Appending to the bytes of a message, and to the messages.
LEMMA ByteAppended ==
    ASSUME NEW s \in Seq(Nat), NEW b \in Nat
    PROVE  /\ Append(s, b) \in Seq(Nat) /\ Len(Append(s, b)) = Len(s) + 1
           /\ Append(s, b)[Len(s) + 1] = b
           /\ \A i \in 1..Len(s) : Append(s, b)[i] = s[i]
BY AppendProperties

LEMMA MessageAppended ==
    ASSUME NEW s \in Seq(Seq(Nat)), NEW m \in Seq(Nat)
    PROVE  /\ Append(s, m) \in Seq(Seq(Nat)) /\ Append(s, m) # <<>>
           /\ Len(Append(s, m)) = Len(s) + 1
           /\ Append(s, m)[Len(Append(s, m))] = m
<1>1. /\ Append(s, m) \in Seq(Seq(Nat)) /\ Append(s, m) # <<>>
      /\ Len(Append(s, m)) = Len(s) + 1 /\ Append(s, m)[Len(s) + 1] = m
  BY AppendProperties
<1> QED BY <1>1

\* Stepping an index modulo the size.
LEMMA NextIndex ==
    ASSUME NEW i \in 0..Size-1
    PROVE  /\ (i + 1) % Size \in 0..Size-1
           /\ i + 1 < Size => (i + 1) % Size = i + 1
<1>1. (i + 1) % Size \in 0..Size-1
  OBVIOUS
<1>2. ASSUME i + 1 < Size PROVE (i + 1) % Size = i + 1
  <2>1. i + 1 \in 0..Size-1
    BY <1>2
  <2> QED BY <2>1
<1> QED BY <1>1, <1>2

\* What the end of endTransmission leaves behind.
LEMMA ReturnType ==
    ASSUME TransmitType, NEW code, Return(code)
    PROVE  TransmitType'
<1>1. acked' \in Seq(Seq(Nat))
  BY DEF Return, TransmitType
<1>2. /\ UNCHANGED <<txBuf, written, message>>
      /\ transmitting' \in BOOLEAN /\ txHead' = 0 /\ txCount' = 0
  BY DEF Return, ResetCount
<1>3. txHead' \in 0..Size-1 /\ txCount' \in Nat
  BY <1>2
<1> QED BY <1>1, <1>2, <1>3 DEF TransmitType

\* The answer the slave's callback writes.
LEMMA WrittenReply ==
    ASSUME ReplyType, NEW n \in Nat, WriteReply(n)
    PROVE  /\ sTx' \in [0..Size-1 -> Nat] /\ sTxCount' = ReplyLen
           /\ \A i \in 0..ReplyLen-1 : sTx'[i] = ReplyByte(n, i)
<1>1. \A i \in 0..Size-1 : ReplyByte(n, i) \in Nat
  BY DEF ReplyByte
<1>2. \A i \in 0..Size-1 : sTx[i] \in Nat
  BY DEF ReplyType
<1> HIDE DEF ReplyByte
<1>3. /\ sTx' = [i \in 0..Size-1 |-> IF i < ReplyLen THEN ReplyByte(n, i) ELSE sTx[i]]
      /\ sTxCount' = ReplyLen
  BY DEF WriteReply
<1>4. sTx' \in [0..Size-1 -> Nat]
  BY <1>1, <1>2, <1>3
<1>5. \A i \in 0..ReplyLen-1 : i \in 0..Size-1 /\ i < ReplyLen
  OBVIOUS
<1>6. \A i \in 0..ReplyLen-1 : sTx'[i] = ReplyByte(n, i)
  BY <1>3, <1>5
<1> QED BY <1>3, <1>4, <1>6

\* What MessageInv speaks of; most steps leave it alone, or only free the bus.
MessageView == <<flags, ret, sPtr, sCount, sBuf, rdata, acked, delivered, timeouts>>

LEMMA MessageKept ==
    ASSUME MessageInv, UNCHANGED MessageView, bus' \in {bus, "free"},
           \/ pc \notin {"bytes", "receive"} /\ pc' \notin {"bytes", "receive"}
           \/ /\ pc \in {"bytes", "receive"} /\ pc' = pc /\ bus' = bus
              /\ pc = "bytes" => UNCHANGED <<sent, message>>
    PROVE  MessageInv'
<1> SUFFICES ASSUME timeouts = 0 PROVE MessageInv'
  BY DEF MessageInv, MessageView
<1>1. UNCHANGED <<flags, ret, sPtr, sCount, sBuf, rdata, acked, delivered, timeouts>>
  BY DEF MessageView
<1>2. CASE pc \notin {"bytes", "receive"} /\ pc' \notin {"bytes", "receive"}
  BY <1>1, <1>2 DEF MessageInv, Stored
<1>3. CASE pc = "bytes" /\ pc' = "bytes" /\ UNCHANGED <<sent, message>>
  BY <1>1, <1>3 DEF MessageInv
<1>4. CASE pc = "receive" /\ pc' = "receive"
  BY <1>1, <1>4 DEF MessageInv
<1> QED BY <1>2, <1>3, <1>4

\* Before a transfer, once the slave has caught up, nothing is on its way.
LEMMA CaughtUp ==
    ASSUME MessageInv, timeouts = 0, pc \notin {"bytes", "receive"}, SlaveHasCaughtUp
    PROVE  bus = "free" /\ flags = {} /\ acked = delivered /\ sPtr = 0
BY DEF MessageInv, SlaveHasCaughtUp

-----------------------------------------------------------------------------
(* Each step of the boards preserves the invariant.                          *)

LEMMA StepBeginTransmission == ~RepeatedStart /\ WireInv /\ BeginTransmission => WireInv'
<1> SUFFICES ASSUME ~RepeatedStart, WireInv, BeginTransmission PROVE WireInv'
  OBVIOUS
<1>1. /\ CallType' /\ ReadType' /\ BusType'
      /\ SlaveType' /\ ReplyType' /\ CountType'
  BY DEF WireInv, WireType, CallType, ReadType, BusType, SlaveType,
         ReplyType, CountType, BeginTransmission, call, rxVars, busVars,
         slave, counts, sRx, sTxVars
<1>2. SlaveInv' /\ SendingInv' /\ ReceivingInv' /\ OfferedInv'
  BY DEF WireInv, AnswerInv, SlaveInv, SendingInv, ReceivingInv, Replied,
         OfferedInv, BeginTransmission, call, rxVars, busVars, slave, sRx,
         sTxVars
<1>3. TransmitType'
  <2>1. message' \in Seq(Nat)
    BY DEF BeginTransmission
  <2> QED BY <2>1 DEF WireInv, WireType, TransmitType, BeginTransmission
<1>4. MasterInv'
  BY DEF WireInv, WireType, CallType, TransmitType, ReadType, BusType,
         SlaveType, ReplyType, CountType, MasterInv, BeginTransmission, call,
         rxVars, busVars, slave, counts, sRx, sTxVars
<1>5. MessageInv'
  <2>1. /\ MessageInv /\ UNCHANGED MessageView /\ bus' \in {bus, "free"}
        /\ pc \notin {"bytes", "receive"} /\ pc' \notin {"bytes", "receive"}
    BY DEF WireInv, MessageView, BeginTransmission, rxVars, call, busVars, slave, counts,
           sRx, sTxVars
  <2> QED BY <2>1, MessageKept
<1> QED BY <1>1, <1>2, <1>3, <1>4, <1>5 DEF WireInv, WireType,
          AnswerInv

LEMMA StepWrite == ~RepeatedStart /\ WireInv /\ Write => WireInv'
<1> SUFFICES ASSUME ~RepeatedStart, WireInv, Write PROVE WireInv'
  OBVIOUS
<1>1. /\ CallType' /\ ReadType' /\ BusType'
      /\ SlaveType' /\ ReplyType' /\ CountType'
  BY DEF WireInv, WireType, CallType, ReadType, BusType, SlaveType,
         ReplyType, CountType, Write, call, rxVars, busVars, slave, counts,
         sRx, sTxVars
<1>2. SlaveInv' /\ SendingInv' /\ ReceivingInv' /\ OfferedInv'
  BY DEF WireInv, AnswerInv, SlaveInv, SendingInv, ReceivingInv, Replied,
         OfferedInv, Write, call, rxVars, busVars, slave, sRx, sTxVars
<1>3. TransmitType'
  <2>1. NextHead \in 0..Size-1
    BY NextIndex DEF WireInv, WireType, TransmitType, NextHead
  <2>2. message' \in Seq(Nat)
    BY DEF WireInv, WireType, TransmitType, Write
  <2> QED BY SMTT(30), <2>1, <2>2 DEF WireInv, WireType, TransmitType, Write
<1>4. MasterInv'
  <2>1. /\ txHead \in 0..Size-1 /\ txCount \in Nat /\ written \in Nat
        /\ message \in Seq(Nat) /\ txBuf \in [0..Size-1 -> Nat]
    BY DEF WireInv, WireType, TransmitType
  <2>w. /\ pc = "idle" /\ transmitting
        /\ written' = written + 1 /\ txHead' = NextHead
        /\ txBuf' = [txBuf EXCEPT ![txHead] = written + 1]
        /\ txCount' = txCount + 1 /\ message' = Append(message, written + 1)
    BY DEF Write
  <2>m. /\ Len(message) = txCount /\ txCount <= written
        /\ txCount < Size => txHead = txCount
        /\ txCount <= Size => \A i \in 1..txCount : txBuf[i - 1] = message[i]
    BY <2>w DEF WireInv, MasterInv
  <2>a. /\ Len(message') = txCount + 1 /\ message'[txCount + 1] = written + 1
        /\ \A i \in 1..txCount : message'[i] = message[i]
    <3>1. written + 1 \in Nat
      BY <2>1
    <3> QED BY ZenonT(40), <2>1, <2>w, <2>m, <3>1, ByteAppended
  <2>2. Len(message') = txCount' /\ txCount' <= written'
    BY <2>1, <2>w, <2>m, <2>a
  <2>4. txCount' < Size => txHead' = txCount'
    <3> SUFFICES ASSUME txCount + 1 < Size PROVE NextHead = txCount + 1
      BY <2>w
    <3>1. txHead = txCount /\ txHead + 1 < Size
      BY <2>1, <2>m
    <3>2. (txHead + 1) % Size = txHead + 1
      BY <2>1, <3>1, NextIndex
    <3> QED BY <3>1, <3>2 DEF NextHead
  <2>5. ASSUME txCount' <= Size, NEW i \in 1..txCount'
        PROVE  txBuf'[i - 1] = message'[i]
    <3>0. txCount < Size /\ txHead = txCount /\ i \in 1..txCount + 1
      BY SMTT(30), <2>1, <2>w, <2>m, <2>5
    <3>1. CASE i = txCount + 1
      <4>1. txBuf'[txHead] = written + 1
        BY <2>1, <2>w
      <4>2. i - 1 = txHead
        BY <2>1, <3>0, <3>1
      <4> QED BY <2>a, <3>1, <4>1, <4>2
    <3>2. CASE i # txCount + 1
      <4>1. i \in 1..txCount /\ i - 1 # txHead /\ i - 1 \in 0..Size-1
        BY <2>1, <3>0, <3>2
      <4>2. txBuf'[i - 1] = txBuf[i - 1]
        BY <2>1, <2>w, <4>1
      <4>3. txBuf[i - 1] = message[i]
        BY <2>1, <2>m, <3>0, <4>1
      <4> QED BY <2>a, <4>1, <4>2, <4>3
    <3> QED BY <3>1, <3>2
  <2>6. \A i \in 1..txCount' : txCount' <= Size => txBuf'[i - 1] = message'[i]
    BY <2>5
  <2> QED BY <2>2, <2>4, <2>6
          DEF WireInv, MasterInv, Write, call, rxVars, busVars
<1>5. MessageInv'
  <2>1. /\ MessageInv /\ UNCHANGED MessageView /\ bus' \in {bus, "free"}
        /\ pc \notin {"bytes", "receive"} /\ pc' \notin {"bytes", "receive"}
    BY DEF WireInv, MessageView, Write, rxVars, call, busVars, slave, counts,
           sRx, sTxVars
  <2> QED BY <2>1, MessageKept
<1> QED BY <1>1, <1>2, <1>3, <1>4, <1>5 DEF WireInv, WireType,
          AnswerInv

LEMMA StepEndTooLong == ~RepeatedStart /\ WireInv /\ EndTooLong => WireInv'
<1> SUFFICES ASSUME ~RepeatedStart, WireInv, EndTooLong PROVE WireInv'
  OBVIOUS
<1>1. /\ ReadType' /\ BusType' /\ SlaveType'
      /\ ReplyType' /\ CountType' /\ SendingInv'
  BY DEF WireInv, WireType, AnswerInv, ReadType, BusType, SlaveType,
         ReplyType, CountType, SendingInv, EndTooLong, Return, rxVars,
         busVars, slave, counts, sRx, sTxVars
<1>2. CallType'
  BY DEF WireInv, WireType, CallType, TransmitType, ReadType, BusType,
         SlaveType, ReplyType, CountType, MasterInv, EndTooLong, Fits,
         Return, ResetCount, Codes, rxVars, busVars, slave, counts, sRx,
         sTxVars
<1>3. TransmitType'
  BY ReturnType DEF WireInv, WireType, EndTooLong
<1>4. MasterInv'
  BY DEF WireInv, WireType, CallType, TransmitType, ReadType, BusType,
         SlaveType, ReplyType, CountType, MasterInv, EndTooLong, Fits,
         Return, ResetCount, Codes, rxVars, busVars, slave, counts, sRx,
         sTxVars
<1>5. SlaveInv'
  BY DEF WireInv, WireType, CallType, TransmitType, ReadType, BusType,
         SlaveType, ReplyType, CountType, MasterInv, SlaveInv, AnswerInv,
         ReceivingInv, EndTooLong, Fits, Return, ResetCount, Codes, rxVars,
         busVars, slave, counts, sRx, sTxVars
<1>6. ReceivingInv'
  BY DEF WireInv, WireType, CallType, TransmitType, ReadType, BusType,
         SlaveType, ReplyType, CountType, MasterInv, SlaveInv, AnswerInv,
         SendingInv, ReceivingInv, OfferedInv, Replied, EndTooLong, Fits,
         Return, ResetCount, Codes, rxVars, busVars, slave, counts, sRx,
         sTxVars
<1>7. OfferedInv'
  BY DEF WireInv, WireType, CallType, TransmitType, ReadType, BusType,
         SlaveType, ReplyType, CountType, MasterInv, SlaveInv, AnswerInv,
         SendingInv, ReceivingInv, OfferedInv, Replied, EndTooLong, Fits,
         Return, ResetCount, Codes, rxVars, busVars, slave, counts, sRx,
         sTxVars
<1>8. MessageInv'
  <2>1. /\ MessageInv /\ UNCHANGED MessageView /\ bus' \in {bus, "free"}
        /\ pc \notin {"bytes", "receive"} /\ pc' \notin {"bytes", "receive"}
    BY DEF WireInv, MessageView, EndTooLong, Return, rxVars, busVars, slave, counts,
           sRx, sTxVars
  <2> QED BY <2>1, MessageKept
<1> QED BY <1>1, <1>2, <1>3, <1>4, <1>5, <1>6, <1>7, <1>8 DEF WireInv, WireType,
          AnswerInv

LEMMA StepEndPing == ~RepeatedStart /\ WireInv /\ EndPing => WireInv'
<1> SUFFICES ASSUME ~RepeatedStart, WireInv, EndPing PROVE WireInv'
  OBVIOUS
<1>1. ReadType' /\ SlaveType' /\ ReplyType' /\ CountType' /\ SendingInv'
  BY DEF WireInv, WireType, AnswerInv, ReadType, SlaveType, ReplyType,
         CountType, SendingInv, EndPing, Return, rxVars, slave, sRx, sTxVars
<1>2. CallType' /\ BusType'
  BY DEF WireInv, WireType, CallType, TransmitType, ReadType, BusType,
         SlaveType, ReplyType, CountType, MasterInv, EndPing, Return,
         ResetCount, SlaveHasCaughtUp, Codes, rxVars, busVars, slave, sRx,
         sTxVars
<1>3. TransmitType'
  BY ReturnType DEF WireInv, WireType, EndPing
<1>4. MasterInv'
  BY DEF WireInv, WireType, CallType, TransmitType, ReadType, BusType,
         SlaveType, ReplyType, CountType, MasterInv, EndPing, Return,
         ResetCount, SlaveHasCaughtUp, Codes, rxVars, busVars, slave, sRx,
         sTxVars
<1>5. SlaveInv'
  BY DEF WireInv, WireType, CallType, TransmitType, ReadType, BusType,
         SlaveType, ReplyType, CountType, MasterInv, SlaveInv, AnswerInv,
         ReceivingInv, EndPing, Return, ResetCount, SlaveHasCaughtUp, Codes,
         rxVars, busVars, slave, sRx, sTxVars
<1>6. ReceivingInv'
  BY DEF WireInv, WireType, CallType, TransmitType, ReadType, BusType,
         SlaveType, ReplyType, CountType, MasterInv, SlaveInv, AnswerInv,
         SendingInv, ReceivingInv, OfferedInv, Replied, EndPing, Return,
         ResetCount, SlaveHasCaughtUp, Codes, rxVars, busVars, slave, sRx,
         sTxVars
<1>7. OfferedInv'
  BY DEF WireInv, WireType, CallType, TransmitType, ReadType, BusType,
         SlaveType, ReplyType, CountType, MasterInv, SlaveInv, AnswerInv,
         SendingInv, ReceivingInv, OfferedInv, Replied, EndPing, Return,
         ResetCount, SlaveHasCaughtUp, Codes, rxVars, busVars, slave, sRx,
         sTxVars
<1>8. MessageInv'
  <2> SUFFICES ASSUME timeouts = 0 PROVE MessageInv'
    BY DEF MessageInv, EndPing
  <2>1. message = <<>>
    BY DEF WireInv, WireType, TransmitType, MasterInv, EndPing
  <2>2. acked' = acked
    BY <2>1 DEF EndPing, Return
  <2>3. bus = "free" /\ flags = {} /\ acked = delivered /\ sPtr = 0
    BY DEF WireInv, MessageInv, EndPing, SlaveHasCaughtUp
  <2>4. /\ pc' = "idle" /\ bus' = bus /\ sPtr' = 0 /\ delivered' = delivered
        /\ flags' = {} \/ flags' = {"ADDSEND", "STPDET"}
    BY <2>3 DEF EndPing, Return, busVars, slave, sRx, WireInv, WireType, SlaveType
  <2> QED BY <2>2, <2>3, <2>4 DEF MessageInv
<1> QED BY <1>1, <1>2, <1>3, <1>4, <1>5, <1>6, <1>7, <1>8 DEF WireInv, WireType,
          AnswerInv

LEMMA StepEndTransmission == ~RepeatedStart /\ WireInv /\ EndTransmission => WireInv'
<1> SUFFICES ASSUME ~RepeatedStart, WireInv, EndTransmission PROVE WireInv'
  OBVIOUS
<1>1. /\ TransmitType' /\ ReadType' /\ BusType'
      /\ SlaveType' /\ ReplyType' /\ CountType' /\ SendingInv'
  BY DEF WireInv, WireType, AnswerInv, TransmitType, ReadType, BusType,
         SlaveType, ReplyType, CountType, SendingInv, EndTransmission,
         txVars, rxVars, busVars, slave, counts, sRx, sTxVars
<1>2. CallType'
  BY DEF WireInv, WireType, CallType, TransmitType, ReadType, BusType,
         SlaveType, ReplyType, CountType, MasterInv, EndTransmission, Fits,
         txVars, rxVars, busVars, slave, counts, sRx, sTxVars
<1>3. MasterInv'
  BY DEF WireInv, WireType, CallType, TransmitType, ReadType, BusType,
         SlaveType, ReplyType, CountType, MasterInv, EndTransmission, Fits,
         txVars, rxVars, busVars, slave, counts, sRx, sTxVars
<1>4. SlaveInv'
  BY DEF WireInv, WireType, CallType, TransmitType, ReadType, BusType,
         SlaveType, ReplyType, CountType, MasterInv, SlaveInv, AnswerInv,
         ReceivingInv, EndTransmission, Fits, txVars, rxVars, busVars, slave,
         counts, sRx, sTxVars
<1>5. ReceivingInv'
  BY DEF WireInv, WireType, CallType, TransmitType, ReadType, BusType,
         SlaveType, ReplyType, CountType, MasterInv, SlaveInv, AnswerInv,
         SendingInv, ReceivingInv, OfferedInv, Replied, EndTransmission,
         Fits, txVars, rxVars, busVars, slave, counts, sRx, sTxVars
<1>6. OfferedInv'
  BY DEF WireInv, WireType, CallType, TransmitType, ReadType, BusType,
         SlaveType, ReplyType, CountType, MasterInv, SlaveInv, AnswerInv,
         SendingInv, ReceivingInv, OfferedInv, Replied, EndTransmission,
         Fits, txVars, rxVars, busVars, slave, counts, sRx, sTxVars
<1>7. MessageInv'
  <2>1. /\ MessageInv /\ UNCHANGED MessageView /\ bus' \in {bus, "free"}
        /\ pc \notin {"bytes", "receive"} /\ pc' \notin {"bytes", "receive"}
    BY DEF WireInv, MessageView, EndTransmission, txVars, rxVars, busVars, slave,
           counts, sRx, sTxVars
  <2> QED BY <2>1, MessageKept
<1> QED BY <1>1, <1>2, <1>3, <1>4, <1>5, <1>6, <1>7 DEF WireInv, WireType,
          AnswerInv

LEMMA StepTransmitStart == ~RepeatedStart /\ WireInv /\ TransmitStart => WireInv'
<1> SUFFICES ASSUME ~RepeatedStart, WireInv, TransmitStart PROVE WireInv'
  OBVIOUS
<1>1. /\ TransmitType' /\ ReadType' /\ SlaveType'
      /\ ReplyType' /\ CountType' /\ SendingInv'
  BY DEF WireInv, WireType, AnswerInv, TransmitType, ReadType, SlaveType,
         ReplyType, CountType, SendingInv, TransmitStart, txVars, rxVars,
         slave, counts, sRx, sTxVars
<1>2. CallType' /\ BusType'
  BY DEF WireInv, WireType, CallType, TransmitType, ReadType, BusType,
         SlaveType, ReplyType, CountType, MasterInv, TransmitStart,
         SlaveHasCaughtUp, BusStatus, txVars, rxVars, slave, counts, sRx,
         sTxVars
<1>3. MasterInv'
  BY DEF WireInv, WireType, CallType, TransmitType, ReadType, BusType,
         SlaveType, ReplyType, CountType, MasterInv, TransmitStart,
         SlaveHasCaughtUp, BusStatus, txVars, rxVars, slave, counts, sRx,
         sTxVars
<1>4. SlaveInv'
  BY DEF WireInv, WireType, CallType, TransmitType, ReadType, BusType,
         SlaveType, ReplyType, CountType, MasterInv, SlaveInv, AnswerInv,
         ReceivingInv, TransmitStart, SlaveHasCaughtUp, BusStatus, txVars,
         rxVars, slave, counts, sRx, sTxVars
<1>5. ReceivingInv'
  BY DEF WireInv, WireType, CallType, TransmitType, ReadType, BusType,
         SlaveType, ReplyType, CountType, MasterInv, SlaveInv, AnswerInv,
         SendingInv, ReceivingInv, OfferedInv, Replied, TransmitStart,
         SlaveHasCaughtUp, BusStatus, txVars, rxVars, slave, counts, sRx,
         sTxVars
<1>6. OfferedInv'
  BY DEF WireInv, WireType, CallType, TransmitType, ReadType, BusType,
         SlaveType, ReplyType, CountType, MasterInv, SlaveInv, AnswerInv,
         SendingInv, ReceivingInv, OfferedInv, Replied, TransmitStart,
         SlaveHasCaughtUp, BusStatus, txVars, rxVars, slave, counts, sRx,
         sTxVars
<1>7. MessageInv'
  <2> SUFFICES ASSUME timeouts = 0 PROVE MessageInv'
    BY DEF MessageInv, TransmitStart, counts
  <2>1. /\ pc = "start" /\ SlaveHasCaughtUp /\ pc' = "bytes" /\ ret' = BusStatus
        /\ flags' = flags \cup {"ADDSEND"} /\ sent' = 0
        /\ UNCHANGED <<sPtr, acked, delivered>>
    BY DEF TransmitStart, txVars, slave, sRx
  <2>2. bus = "free" /\ flags = {} /\ acked = delivered /\ sPtr = 0
    BY <2>1, CaughtUp DEF WireInv
  <2>3. flags' = {"ADDSEND"} /\ ret' = "OK" /\ acked' = delivered' /\ sPtr' = 0
    BY <2>1, <2>2 DEF BusStatus
  <2> QED BY <2>1, <2>3 DEF MessageInv
<1> QED BY <1>1, <1>2, <1>3, <1>4, <1>5, <1>6, <1>7 DEF WireInv, WireType,
          AnswerInv

LEMMA StepTransmitNack == ~RepeatedStart /\ WireInv /\ TransmitNack => WireInv'
<1> SUFFICES ASSUME ~RepeatedStart, WireInv, TransmitNack PROVE WireInv'
  OBVIOUS
<1>1. ReadType' /\ SlaveType' /\ ReplyType' /\ CountType' /\ SendingInv'
  BY DEF WireInv, WireType, AnswerInv, ReadType, SlaveType, ReplyType,
         CountType, SendingInv, TransmitNack, Return, rxVars, slave, counts,
         sRx, sTxVars
<1>2. CallType' /\ BusType'
  BY DEF WireInv, WireType, CallType, TransmitType, ReadType, BusType,
         SlaveType, ReplyType, CountType, MasterInv, TransmitNack, Return,
         ResetCount, Codes, rxVars, slave, counts, sRx, sTxVars
<1>3. TransmitType'
  BY ReturnType DEF WireInv, WireType, TransmitNack
<1>4. MasterInv'
  BY DEF WireInv, WireType, CallType, TransmitType, ReadType, BusType,
         SlaveType, ReplyType, CountType, MasterInv, TransmitNack, Return,
         ResetCount, Codes, rxVars, slave, counts, sRx, sTxVars
<1>5. SlaveInv'
  BY DEF WireInv, WireType, CallType, TransmitType, ReadType, BusType,
         SlaveType, ReplyType, CountType, MasterInv, SlaveInv, AnswerInv,
         ReceivingInv, TransmitNack, Return, ResetCount, Codes, rxVars,
         slave, counts, sRx, sTxVars
<1>6. ReceivingInv'
  BY DEF WireInv, WireType, CallType, TransmitType, ReadType, BusType,
         SlaveType, ReplyType, CountType, MasterInv, SlaveInv, AnswerInv,
         SendingInv, ReceivingInv, OfferedInv, Replied, TransmitNack, Return,
         ResetCount, Codes, rxVars, slave, counts, sRx, sTxVars
<1>7. OfferedInv'
  BY DEF WireInv, WireType, CallType, TransmitType, ReadType, BusType,
         SlaveType, ReplyType, CountType, MasterInv, SlaveInv, AnswerInv,
         SendingInv, ReceivingInv, OfferedInv, Replied, TransmitNack, Return,
         ResetCount, Codes, rxVars, slave, counts, sRx, sTxVars
<1>8. MessageInv'
  <2>1. /\ MessageInv /\ UNCHANGED MessageView /\ bus' \in {bus, "free"}
        /\ pc \notin {"bytes", "receive"} /\ pc' \notin {"bytes", "receive"}
    BY DEF WireInv, MessageView, TransmitNack, Return, rxVars, slave, counts, sRx,
           sTxVars
  <2> QED BY <2>1, MessageKept
<1> QED BY <1>1, <1>2, <1>3, <1>4, <1>5, <1>6, <1>7, <1>8 DEF WireInv, WireType,
          AnswerInv

LEMMA StepTransmitByte == ~RepeatedStart /\ WireInv /\ TransmitByte => WireInv'
<1> SUFFICES ASSUME ~RepeatedStart, WireInv, TransmitByte PROVE WireInv'
  OBVIOUS
<1>1. /\ TransmitType' /\ ReadType' /\ SlaveType'
      /\ ReplyType' /\ CountType' /\ SendingInv' /\ OfferedInv'
  BY DEF WireInv, WireType, AnswerInv, TransmitType, ReadType, SlaveType,
         ReplyType, CountType, SendingInv, OfferedInv, TransmitByte, txVars,
         rxVars, slave, counts, sRx, sTxVars
<1>2. CallType'
  <2>1. sent + 1 \in 0..Size
    BY DEF WireInv, WireType, CallType, TransmitType, MasterInv, TransmitByte
  <2> QED BY <2>1 DEF WireInv, WireType, CallType, TransmitByte
<1>3. BusType'
  <2>1. txBuf[sent] \in Nat
    BY DEF WireInv, WireType, CallType, TransmitType, MasterInv, TransmitByte
  <2> QED BY <2>1 DEF WireInv, WireType, BusType, TransmitByte
<1>4. MasterInv'
  BY DEF WireInv, WireType, CallType, TransmitType, ReadType, BusType,
         SlaveType, ReplyType, CountType, MasterInv, TransmitByte,
         TransmitReady, txVars, rxVars, slave, counts, sRx, sTxVars
<1>5. SlaveInv'
  BY DEF WireInv, WireType, CallType, TransmitType, ReadType, BusType,
         SlaveType, ReplyType, CountType, MasterInv, SlaveInv, AnswerInv,
         ReceivingInv, TransmitByte, TransmitReady, txVars, rxVars, slave,
         counts, sRx, sTxVars
<1>6. ReceivingInv'
  BY DEF WireInv, WireType, CallType, TransmitType, ReadType, BusType,
         SlaveType, ReplyType, CountType, MasterInv, SlaveInv, AnswerInv,
         SendingInv, ReceivingInv, OfferedInv, Replied, TransmitByte,
         TransmitReady, txVars, rxVars, slave, counts, sRx, sTxVars
<1>7. MessageInv'
  <2> SUFFICES ASSUME timeouts = 0 PROVE MessageInv'
    BY DEF MessageInv, TransmitByte, counts
  <2>1. /\ flags = {} /\ sPtr = sent /\ sCount = sent /\ acked = delivered /\ ret = "OK"
        /\ \A i \in 1..sent : sBuf[i - 1] = message[i]
    BY DEF WireInv, MessageInv, TransmitByte, TransmitReady
  <2>2. sent \in Nat /\ sent + 1 <= txCount /\ txCount <= Size
    BY DEF WireInv, WireType, CallType, TransmitType, MasterInv, TransmitByte
  <2>3. rdata' = message[sent + 1]
    <3>1. sent + 1 \in 1..txCount /\ txCount \in Nat
      BY <2>2 DEF WireInv, WireType, TransmitType
    <3>2. txBuf[(sent + 1) - 1] = message[sent + 1]
      BY <2>2, <3>1 DEF WireInv, MasterInv, TransmitByte
    <3> QED BY <2>2, <3>2 DEF TransmitByte
  <2>4. /\ pc' = "bytes" /\ flags' = {"RBNE"} /\ sent' = sent + 1 /\ ret' = ret
        /\ UNCHANGED <<acked, delivered, sPtr, sCount, sBuf, message>>
    BY <2>1 DEF TransmitByte, txVars, slave, sRx
  <2> QED BY <2>1, <2>2, <2>3, <2>4 DEF MessageInv
<1> QED BY <1>1, <1>2, <1>3, <1>4, <1>5, <1>6, <1>7 DEF WireInv, WireType,
          AnswerInv

LEMMA StepTransmitEnd == ~RepeatedStart /\ WireInv /\ TransmitEnd => WireInv'
<1> SUFFICES ASSUME ~RepeatedStart, WireInv, TransmitEnd PROVE WireInv'
  OBVIOUS
<1>1. ReadType' /\ SlaveType' /\ ReplyType' /\ CountType' /\ SendingInv'
  BY DEF WireInv, WireType, AnswerInv, ReadType, SlaveType, ReplyType,
         CountType, SendingInv, TransmitEnd, Return, rxVars, slave, counts,
         sRx, sTxVars
<1>2. CallType' /\ BusType'
  BY DEF WireInv, WireType, CallType, TransmitType, ReadType, BusType,
         SlaveType, ReplyType, CountType, MasterInv, TransmitEnd,
         TransmitReady, Return, ResetCount, Codes, rxVars, slave, counts,
         sRx, sTxVars
<1>3. TransmitType'
  BY ReturnType DEF WireInv, WireType, TransmitEnd
<1>4. MasterInv'
  BY DEF WireInv, WireType, CallType, TransmitType, ReadType, BusType,
         SlaveType, ReplyType, CountType, MasterInv, TransmitEnd,
         TransmitReady, Return, ResetCount, Codes, rxVars, slave, counts,
         sRx, sTxVars
<1>5. SlaveInv'
  BY DEF WireInv, WireType, CallType, TransmitType, ReadType, BusType,
         SlaveType, ReplyType, CountType, MasterInv, SlaveInv, AnswerInv,
         ReceivingInv, TransmitEnd, TransmitReady, Return, ResetCount, Codes,
         rxVars, slave, counts, sRx, sTxVars
<1>6. ReceivingInv'
  BY DEF WireInv, WireType, CallType, TransmitType, ReadType, BusType,
         SlaveType, ReplyType, CountType, MasterInv, SlaveInv, AnswerInv,
         SendingInv, ReceivingInv, OfferedInv, Replied, TransmitEnd,
         TransmitReady, Return, ResetCount, Codes, rxVars, slave, counts,
         sRx, sTxVars
<1>7. OfferedInv'
  BY DEF WireInv, WireType, CallType, TransmitType, ReadType, BusType,
         SlaveType, ReplyType, CountType, MasterInv, SlaveInv, AnswerInv,
         SendingInv, ReceivingInv, OfferedInv, Replied, TransmitEnd,
         TransmitReady, Return, ResetCount, Codes, rxVars, slave, counts,
         sRx, sTxVars
<1>8. MessageInv'
  <2> SUFFICES ASSUME timeouts = 0 PROVE MessageInv'
    BY DEF MessageInv, TransmitEnd, counts
  <2>1. /\ flags = {} /\ sPtr = sent /\ sCount = sent /\ acked = delivered /\ ret = "OK"
        /\ \A i \in 1..sent : sBuf[i - 1] = message[i]
    BY DEF WireInv, MessageInv, TransmitEnd, TransmitReady
  <2>2. /\ sent = Len(message) /\ sent \in 1..Size /\ message # <<>>
        /\ message \in Seq(Nat) /\ acked \in Seq(Seq(Nat))
    BY DEF WireInv, WireType, CallType, TransmitType, MasterInv, TransmitEnd
  <2>3. acked' = Append(acked, message)
    BY <2>1, <2>2 DEF TransmitEnd, Return
  <2>4. acked' # <<>> /\ acked'[Len(acked')] = message
    BY <2>2, <2>3, MessageAppended
  <2>5. /\ pc' = "idle" /\ bus' = "free" /\ flags' = {"STPDET"}
        /\ UNCHANGED <<delivered, sPtr, sCount, sBuf>>
    BY <2>1 DEF TransmitEnd, Return, slave, sRx, WireInv, MasterInv
  <2>6. Stored(message)'
    BY <2>1, <2>2, <2>5 DEF Stored, TransmitEnd, Return
  <2>7. Stored(acked[Len(acked)])'
    BY <2>2, <2>4, <2>5, <2>1 DEF Stored
  <2> QED BY <2>1, <2>2, <2>3, <2>4, <2>5, <2>7 DEF MessageInv
<1> QED BY <1>1, <1>2, <1>3, <1>4, <1>5, <1>6, <1>7, <1>8 DEF WireInv, WireType,
          AnswerInv

LEMMA StepTransmitTimeout == ~RepeatedStart /\ WireInv /\ TransmitTimeout => WireInv'
<1> SUFFICES ASSUME ~RepeatedStart, WireInv, TransmitTimeout PROVE WireInv'
  OBVIOUS
<1>1. ReadType' /\ BusType' /\ SlaveType' /\ ReplyType' /\ SendingInv'
  BY DEF WireInv, WireType, AnswerInv, ReadType, BusType, SlaveType,
         ReplyType, SendingInv, TransmitTimeout, Return, rxVars, busVars,
         slave, sRx, sTxVars
<1>2. CallType' /\ CountType'
  BY DEF WireInv, WireType, CallType, TransmitType, ReadType, BusType,
         SlaveType, ReplyType, CountType, MasterInv, TransmitTimeout,
         TransmitReady, Return, ResetCount, Codes, rxVars, busVars, slave,
         sRx, sTxVars
<1>3. TransmitType'
  BY ReturnType DEF WireInv, WireType, TransmitTimeout
<1>4. MasterInv'
  BY DEF WireInv, WireType, CallType, TransmitType, ReadType, BusType,
         SlaveType, ReplyType, CountType, MasterInv, TransmitTimeout,
         TransmitReady, Return, ResetCount, Codes, rxVars, busVars, slave,
         sRx, sTxVars
<1>5. SlaveInv'
  BY DEF WireInv, WireType, CallType, TransmitType, ReadType, BusType,
         SlaveType, ReplyType, CountType, MasterInv, SlaveInv, AnswerInv,
         ReceivingInv, TransmitTimeout, TransmitReady, Return, ResetCount,
         Codes, rxVars, busVars, slave, sRx, sTxVars
<1>6. ReceivingInv'
  BY DEF WireInv, WireType, CallType, TransmitType, ReadType, BusType,
         SlaveType, ReplyType, CountType, MasterInv, SlaveInv, AnswerInv,
         SendingInv, ReceivingInv, OfferedInv, Replied, TransmitTimeout,
         TransmitReady, Return, ResetCount, Codes, rxVars, busVars, slave,
         sRx, sTxVars
<1>7. OfferedInv'
  BY DEF WireInv, WireType, CallType, TransmitType, ReadType, BusType,
         SlaveType, ReplyType, CountType, MasterInv, SlaveInv, AnswerInv,
         SendingInv, ReceivingInv, OfferedInv, Replied, TransmitTimeout,
         TransmitReady, Return, ResetCount, Codes, rxVars, busVars, slave,
         sRx, sTxVars
<1>8. MessageInv'
  <2>1. timeouts' # 0
    BY DEF WireInv, WireType, CountType, TransmitTimeout
  <2> QED BY <2>1 DEF MessageInv
<1> QED BY <1>1, <1>2, <1>3, <1>4, <1>5, <1>6, <1>7, <1>8 DEF WireInv, WireType,
          AnswerInv

LEMMA StepRequestFrom == ~RepeatedStart /\ WireInv /\ RequestFrom => WireInv'
<1> SUFFICES ASSUME ~RepeatedStart, WireInv, RequestFrom PROVE WireInv'
  OBVIOUS
<1>1. /\ TransmitType' /\ BusType' /\ SlaveType'
      /\ ReplyType' /\ CountType' /\ SendingInv'
  BY DEF WireInv, WireType, AnswerInv, TransmitType, BusType, SlaveType,
         ReplyType, CountType, SendingInv, RequestFrom, txVars, busVars,
         slave, sRx, sTxVars
<1>2. CallType'
  BY DEF WireInv, WireType, CallType, TransmitType, ReadType, BusType,
         SlaveType, ReplyType, CountType, MasterInv, RequestFrom, txVars,
         busVars, slave, sRx, sTxVars
<1>3. ReadType'
  BY DEF WireInv, WireType, ReadType, RequestFrom
<1>4. MasterInv'
  BY DEF WireInv, WireType, CallType, TransmitType, ReadType, BusType,
         SlaveType, ReplyType, CountType, MasterInv, RequestFrom, txVars,
         busVars, slave, sRx, sTxVars
<1>5. SlaveInv'
  BY DEF WireInv, WireType, CallType, TransmitType, ReadType, BusType,
         SlaveType, ReplyType, CountType, MasterInv, SlaveInv, AnswerInv,
         ReceivingInv, RequestFrom, txVars, busVars, slave, sRx, sTxVars
<1>6. ReceivingInv'
  BY DEF WireInv, WireType, CallType, TransmitType, ReadType, BusType,
         SlaveType, ReplyType, CountType, MasterInv, SlaveInv, AnswerInv,
         SendingInv, ReceivingInv, OfferedInv, Replied, RequestFrom, txVars,
         busVars, slave, sRx, sTxVars
<1>7. OfferedInv'
  BY DEF WireInv, WireType, CallType, TransmitType, ReadType, BusType,
         SlaveType, ReplyType, CountType, MasterInv, SlaveInv, AnswerInv,
         SendingInv, ReceivingInv, OfferedInv, Replied, RequestFrom, txVars,
         busVars, slave, sRx, sTxVars
<1>8. MessageInv'
  <2>1. /\ MessageInv /\ UNCHANGED MessageView /\ bus' \in {bus, "free"}
        /\ pc \notin {"bytes", "receive"} /\ pc' \notin {"bytes", "receive"}
    BY DEF WireInv, MessageView, RequestFrom, txVars, busVars, slave, sRx, sTxVars
  <2> QED BY <2>1, MessageKept
<1> QED BY <1>1, <1>2, <1>3, <1>4, <1>5, <1>6, <1>7, <1>8 DEF WireInv, WireType,
          AnswerInv

LEMMA StepReceiveStart == ~RepeatedStart /\ WireInv /\ ReceiveStart => WireInv'
<1> SUFFICES ASSUME ~RepeatedStart, WireInv, ReceiveStart PROVE WireInv'
  OBVIOUS
<1>1. /\ TransmitType' /\ ReadType' /\ SlaveType'
      /\ ReplyType' /\ CountType' /\ SendingInv'
  BY DEF WireInv, WireType, AnswerInv, TransmitType, ReadType, SlaveType,
         ReplyType, CountType, SendingInv, ReceiveStart, txVars, rxVars,
         slave, counts, sRx, sTxVars
<1>2. CallType' /\ BusType'
  BY DEF WireInv, WireType, CallType, TransmitType, ReadType, BusType,
         SlaveType, ReplyType, CountType, MasterInv, ReceiveStart,
         SlaveHasCaughtUp, BusStatus, txVars, rxVars, slave, counts, sRx,
         sTxVars
<1>3. MasterInv'
  BY DEF WireInv, WireType, CallType, TransmitType, ReadType, BusType,
         SlaveType, ReplyType, CountType, MasterInv, ReceiveStart,
         SlaveHasCaughtUp, BusStatus, txVars, rxVars, slave, counts, sRx,
         sTxVars
<1>4. SlaveInv'
  BY DEF WireInv, WireType, CallType, TransmitType, ReadType, BusType,
         SlaveType, ReplyType, CountType, MasterInv, SlaveInv, AnswerInv,
         ReceivingInv, ReceiveStart, SlaveHasCaughtUp, BusStatus, txVars,
         rxVars, slave, counts, sRx, sTxVars
<1>5. ReceivingInv'
  BY DEF WireInv, WireType, CallType, TransmitType, ReadType, BusType,
         SlaveType, ReplyType, CountType, MasterInv, SlaveInv, AnswerInv,
         SendingInv, ReceivingInv, OfferedInv, Replied, ReceiveStart,
         SlaveHasCaughtUp, BusStatus, txVars, rxVars, slave, counts, sRx,
         sTxVars
<1>6. OfferedInv'
  BY DEF WireInv, WireType, CallType, TransmitType, ReadType, BusType,
         SlaveType, ReplyType, CountType, MasterInv, SlaveInv, AnswerInv,
         SendingInv, ReceivingInv, OfferedInv, Replied, ReceiveStart,
         SlaveHasCaughtUp, BusStatus, txVars, rxVars, slave, counts, sRx,
         sTxVars
<1>7. MessageInv'
  <2> SUFFICES ASSUME timeouts = 0 PROVE MessageInv'
    BY DEF MessageInv, ReceiveStart, counts
  <2>1. /\ pc = "request" /\ SlaveHasCaughtUp /\ pc' = "receive" /\ ret' = BusStatus
        /\ flags' = flags \cup {"ADDSEND"} /\ sent' = 0
        /\ UNCHANGED <<sPtr, acked, delivered>>
    BY DEF ReceiveStart, txVars, slave, sRx
  <2>2. bus = "free" /\ flags = {} /\ acked = delivered /\ sPtr = 0
    BY <2>1, CaughtUp DEF WireInv
  <2>3. flags' = {"ADDSEND"} /\ ret' = "OK" /\ acked' = delivered' /\ sPtr' = 0
    BY <2>1, <2>2 DEF BusStatus
  <2> QED BY <2>1, <2>3 DEF MessageInv
<1> QED BY <1>1, <1>2, <1>3, <1>4, <1>5, <1>6, <1>7 DEF WireInv, WireType,
          AnswerInv

LEMMA StepReceiveNack == ~RepeatedStart /\ WireInv /\ ReceiveNack => WireInv'
<1> SUFFICES ASSUME ~RepeatedStart, WireInv, ReceiveNack PROVE WireInv'
  OBVIOUS
<1>1. TransmitType' /\ SlaveType' /\ ReplyType' /\ CountType' /\ SendingInv'
  BY DEF WireInv, WireType, AnswerInv, TransmitType, SlaveType, ReplyType,
         CountType, SendingInv, ReceiveNack, txVars, slave, counts, sRx,
         sTxVars
<1>2. CallType' /\ ReadType' /\ BusType'
  BY DEF WireInv, WireType, CallType, TransmitType, ReadType, BusType,
         SlaveType, ReplyType, CountType, MasterInv, ReceiveNack, HeadAfter,
         txVars, slave, counts, sRx, sTxVars
<1>3. MasterInv'
  BY DEF WireInv, WireType, CallType, TransmitType, ReadType, BusType,
         SlaveType, ReplyType, CountType, MasterInv, ReceiveNack, HeadAfter,
         txVars, slave, counts, sRx, sTxVars
<1>4. SlaveInv'
  BY DEF WireInv, WireType, CallType, TransmitType, ReadType, BusType,
         SlaveType, ReplyType, CountType, MasterInv, SlaveInv, AnswerInv,
         ReceivingInv, ReceiveNack, HeadAfter, txVars, slave, counts, sRx,
         sTxVars
<1>5. ReceivingInv'
  BY DEF WireInv, WireType, CallType, TransmitType, ReadType, BusType,
         SlaveType, ReplyType, CountType, MasterInv, SlaveInv, AnswerInv,
         SendingInv, ReceivingInv, OfferedInv, Replied, ReceiveNack,
         HeadAfter, txVars, slave, counts, sRx, sTxVars
<1>6. OfferedInv'
  BY DEF WireInv, WireType, CallType, TransmitType, ReadType, BusType,
         SlaveType, ReplyType, CountType, MasterInv, SlaveInv, AnswerInv,
         SendingInv, ReceivingInv, OfferedInv, Replied, ReceiveNack,
         HeadAfter, txVars, slave, counts, sRx, sTxVars
<1>7. MessageInv'
  <2>1. /\ MessageInv /\ UNCHANGED MessageView /\ bus' \in {bus, "free"}
        /\ pc \notin {"bytes", "receive"} /\ pc' \notin {"bytes", "receive"}
    BY DEF WireInv, MessageView, ReceiveNack, txVars, slave, counts, sRx, sTxVars
  <2> QED BY <2>1, MessageKept
<1> QED BY <1>1, <1>2, <1>3, <1>4, <1>5, <1>6, <1>7 DEF WireInv, WireType,
          AnswerInv

LEMMA StepReceiveByte == ~RepeatedStart /\ WireInv /\ ReceiveByte => WireInv'
<1> SUFFICES ASSUME ~RepeatedStart, WireInv, ReceiveByte PROVE WireInv'
  OBVIOUS
<1>1. /\ TransmitType' /\ SlaveType' /\ ReplyType'
      /\ CountType' /\ SlaveInv' /\ SendingInv'
  BY DEF WireInv, WireType, AnswerInv, TransmitType, SlaveType, ReplyType,
         CountType, SlaveInv, SendingInv, ReceiveByte, txVars, slave, counts,
         sRx, sTxVars
<1>2. ReadType' /\ BusType'
  BY DEF WireInv, WireType, CallType, TransmitType, ReadType, BusType,
         SlaveType, ReplyType, CountType, MasterInv, ReceiveByte, txVars,
         slave, counts, sRx, sTxVars
<1>3. CallType'
  <2>1. sent + 1 \in 0..Size
    BY DEF WireInv, WireType, CallType, ReceiveByte
  <2> QED BY <2>1 DEF WireInv, WireType, CallType, ReceiveByte
<1>4. MasterInv'
  BY DEF WireInv, WireType, CallType, TransmitType, ReadType, BusType,
         SlaveType, ReplyType, CountType, MasterInv, ReceiveByte, txVars,
         slave, counts, sRx, sTxVars
<1>5. ReceivingInv'
  <2>1. /\ "ADDSEND" \notin flags /\ replies >= 1 /\ isr = "sending"
        /\ tdata = ReplyByte(replies, sent) /\ sSent = sent + 1 /\ Replied(sent)
    BY DEF WireInv, AnswerInv, ReceivingInv, ReceiveByte, WireType, CallType,
           ReplyType
  <2>2. /\ sent \in 0..Size-1 /\ sent + 1 <= ReplyLen
        /\ rxBuf \in [0..Size-1 -> Nat]
    BY DEF WireInv, WireType, CallType, ReadType, ReceiveByte
  <2>3. Replied(sent)' 
    BY <2>1, <2>2 DEF Replied, ReceiveByte, slave, sTxVars
  <2> QED BY <2>1, <2>2 DEF ReceivingInv, ReceiveByte, Replied, slave, sTxVars
<1>6. OfferedInv'
  BY DEF WireInv, WireType, CallType, TransmitType, ReadType, BusType,
         SlaveType, ReplyType, CountType, MasterInv, SlaveInv, AnswerInv,
         SendingInv, ReceivingInv, OfferedInv, Replied, ReceiveByte, txVars,
         slave, counts, sRx, sTxVars
<1>7. MessageInv'
  <2>1. /\ MessageInv /\ UNCHANGED MessageView /\ pc = "receive" /\ pc' = pc /\ bus' = bus
    BY DEF WireInv, MessageView, ReceiveByte, txVars, slave, counts, sRx, sTxVars
  <2> QED BY <2>1, MessageKept
<1> QED BY <1>1, <1>2, <1>3, <1>4, <1>5, <1>6, <1>7 DEF WireInv, WireType,
          AnswerInv

LEMMA StepReceiveEnd == ~RepeatedStart /\ WireInv /\ ReceiveEnd => WireInv'
<1> SUFFICES ASSUME ~RepeatedStart, WireInv, ReceiveEnd PROVE WireInv'
  OBVIOUS
<1>1. TransmitType' /\ SlaveType' /\ ReplyType' /\ CountType' /\ SendingInv'
  BY DEF WireInv, WireType, AnswerInv, TransmitType, SlaveType, ReplyType,
         CountType, SendingInv, ReceiveEnd, txVars, slave, counts, sRx,
         sTxVars
<1>2. CallType' /\ ReadType' /\ BusType'
  BY DEF WireInv, WireType, CallType, TransmitType, ReadType, BusType,
         SlaveType, ReplyType, CountType, MasterInv, ReceiveEnd, HeadAfter,
         txVars, slave, counts, sRx, sTxVars
<1>3. MasterInv'
  BY DEF WireInv, WireType, CallType, TransmitType, ReadType, BusType,
         SlaveType, ReplyType, CountType, MasterInv, ReceiveEnd, HeadAfter,
         txVars, slave, counts, sRx, sTxVars
<1>4. SlaveInv'
  BY DEF WireInv, WireType, CallType, TransmitType, ReadType, BusType,
         SlaveType, ReplyType, CountType, MasterInv, SlaveInv, AnswerInv,
         ReceivingInv, ReceiveEnd, HeadAfter, txVars, slave, counts, sRx,
         sTxVars
<1>5. ReceivingInv'
  BY DEF WireInv, WireType, CallType, TransmitType, ReadType, BusType,
         SlaveType, ReplyType, CountType, MasterInv, SlaveInv, AnswerInv,
         SendingInv, ReceivingInv, OfferedInv, Replied, ReceiveEnd,
         HeadAfter, txVars, slave, counts, sRx, sTxVars
<1>6. OfferedInv'
  <2>1. /\ replies >= 1 /\ tdata = 0 /\ Replied(ReplyLen)
        /\ isr = "sending" => sSent = ReplyLen
    <3>1. sent = ReplyLen /\ ReplyLen >= 1
      BY DEF ReceiveEnd
    <3>2. isr = "sending" => sSent <= ReplyLen
      BY DEF WireInv, AnswerInv, SendingInv
    <3> QED BY <3>1, <3>2 DEF WireInv, AnswerInv, ReceivingInv, ReceiveEnd,
               WireType, ReplyType
  <2>2. rxHead' \in {0, ReplyLen} /\ rxTail' = 0
    BY DEF ReceiveEnd, HeadAfter, WireInv, MasterInv
  <2> QED BY <2>1, <2>2 DEF OfferedInv, ReceiveEnd, Replied, slave, sTxVars
<1>7. MessageInv'
  <2> SUFFICES ASSUME timeouts = 0 PROVE MessageInv'
    BY DEF MessageInv, ReceiveEnd, counts
  <2>1. /\ pc = "receive" /\ pc' = "idle" /\ stop = TRUE
        /\ bus' = "free" /\ flags' = flags \cup {"STPDET"}
        /\ UNCHANGED <<sPtr, sCount, acked, delivered>>
    BY DEF WireInv, MasterInv, ReceiveEnd, txVars, slave, sRx
  <2>2. /\ acked = delivered /\ sPtr = 0 /\ flags \subseteq {"ADDSEND"}
        /\ flags = {} => sCount = 0
    BY <2>1 DEF WireInv, MessageInv
  <2>3. CASE flags = {}
    BY <2>1, <2>2, <2>3 DEF MessageInv
  <2>4. CASE flags = {"ADDSEND"}
    <3>1. flags' = {"ADDSEND", "STPDET"}
      BY <2>1, <2>4
    <3> QED BY <2>1, <2>2, <3>1 DEF MessageInv
  <2> QED BY <2>2, <2>3, <2>4
<1> QED BY <1>1, <1>2, <1>3, <1>4, <1>5, <1>6, <1>7 DEF WireInv, WireType,
          AnswerInv

LEMMA StepRead == ~RepeatedStart /\ WireInv /\ Read => WireInv'
<1> SUFFICES ASSUME ~RepeatedStart, WireInv, Read PROVE WireInv'
  OBVIOUS
<1>1. /\ CallType' /\ TransmitType' /\ BusType'
      /\ SlaveType' /\ ReplyType' /\ CountType'
  BY DEF WireInv, WireType, CallType, TransmitType, BusType, SlaveType,
         ReplyType, CountType, Read, call, txVars, busVars, slave, counts,
         sRx, sTxVars
<1>2. SlaveInv' /\ SendingInv' /\ ReceivingInv' /\ MessageInv'
  <2>1. SlaveInv' /\ SendingInv' /\ ReceivingInv'
    BY DEF WireInv, AnswerInv, SlaveInv, SendingInv, ReceivingInv, Replied,
           Read, call, txVars, busVars, slave, counts, sRx, sTxVars
  <2>2. /\ MessageInv /\ UNCHANGED MessageView /\ bus' \in {bus, "free"}
        /\ pc \notin {"bytes", "receive"} /\ pc' \notin {"bytes", "receive"}
    BY DEF WireInv, MessageView, Read, call, txVars, busVars, slave, counts, sRx
  <2> QED BY <2>1, <2>2, MessageKept
<1>3. ReadType'
  BY NextIndex DEF WireInv, WireType, ReadType, Read
<1>4. MasterInv'
  <2>2. rxHead # Size
    <3> SUFFICES ASSUME rxHead = Size PROVE FALSE
      OBVIOUS
    <3>1. rxTail = 0
      BY DEF WireInv, MasterInv
    <3>2. (Size + Size - 0) % Size = 0
      OBVIOUS
    <3> QED BY <3>1, <3>2 DEF Read, Available
  <2> QED BY <2>2 DEF WireInv, MasterInv, Read, call, txVars, busVars
<1>5. OfferedInv'
  <2>1. /\ rxTail \in 0..Size-1 /\ rxHead \in 0..Size /\ rxTail < rxHead
    BY DEF WireInv, WireType, ReadType, Read
  <2>2. rxHead # Size
    <3> SUFFICES ASSUME rxHead = Size PROVE FALSE
      OBVIOUS
    <3>1. rxTail = 0
      BY DEF WireInv, MasterInv
    <3>2. (Size + Size - 0) % Size = 0
      OBVIOUS
    <3> QED BY <3>1, <3>2 DEF Read, Available
  <2>3. rxTail' = rxTail + 1
    BY <2>1, <2>2, NextIndex DEF Read
  <2> QED BY <2>1, <2>3 DEF WireInv, AnswerInv, OfferedInv, Read, call, busVars,
             slave, sTxVars
<1> QED BY <1>1, <1>2, <1>3, <1>4, <1>5 DEF WireInv, WireType,
          AnswerInv

LEMMA StepSlaveBegin == ~RepeatedStart /\ WireInv /\ SlaveBegin => WireInv'
<1> SUFFICES ASSUME ~RepeatedStart, WireInv, SlaveBegin PROVE WireInv'
  OBVIOUS
<1>1. /\ CallType' /\ TransmitType' /\ ReadType'
      /\ BusType' /\ ReplyType' /\ CountType'
  BY DEF WireInv, WireType, CallType, TransmitType, ReadType, BusType,
         ReplyType, CountType, SlaveBegin, call, txVars, rxVars, busVars,
         sTxVars, counts
<1>2. /\ MasterInv' /\ SlaveInv' /\ SendingInv'
      /\ ReceivingInv' /\ OfferedInv' /\ MessageInv'
  <2>1. MasterInv' /\ SlaveInv' /\ SendingInv'
    BY DEF WireInv, AnswerInv, MasterInv, SlaveInv, SendingInv, SlaveBegin,
           call, txVars, rxVars, busVars, sRx, sTxVars, counts
  <2>2. ReceivingInv' /\ OfferedInv'
    BY DEF WireInv, AnswerInv, ReceivingInv, Replied, OfferedInv, SlaveBegin,
           call, txVars, rxVars, busVars, sRx, sTxVars, counts
  <2>3. MessageInv /\ UNCHANGED MessageView /\ UNCHANGED <<pc, bus, sent, message>>
    BY DEF WireInv, MessageView, SlaveBegin, call, txVars, busVars, sRx, counts
  <2> QED BY <2>1, <2>2, <2>3, MessageKept
<1>3. SlaveType'
  BY DEF WireInv, WireType, CallType, TransmitType, ReadType, BusType,
         SlaveType, ReplyType, CountType, MasterInv, SlaveInv, SlaveBegin,
         call, txVars, rxVars, busVars, sRx, sTxVars, counts
<1> QED BY <1>1, <1>2, <1>3 DEF WireInv, WireType,
          AnswerInv

LEMMA StepIsrAddress == ~RepeatedStart /\ WireInv /\ IsrAddress => WireInv'
<1> SUFFICES ASSUME ~RepeatedStart, WireInv, IsrAddress PROVE WireInv'
  OBVIOUS
<1>1. CallType' /\ TransmitType' /\ ReadType' /\ CountType' /\ MasterInv'
  BY DEF WireInv, WireType, CallType, TransmitType, ReadType, CountType,
         MasterInv, IsrAddress, WriteReply, call, txVars, rxVars, counts
<1>2. BusType' /\ SlaveType'
  BY DEF WireInv, WireType, CallType, TransmitType, ReadType, BusType,
         SlaveType, ReplyType, CountType, MasterInv, SlaveInv, IsrAddress,
         WriteReply, ReplyByte, call, txVars, rxVars, sTxVars, counts
<1>3. ReplyType'
  <2>1. CASE bus = "read"
    <3>1. sTx' \in [0..Size-1 -> Nat] /\ sTxCount' = ReplyLen
      BY <2>1, WrittenReply DEF WireInv, WireType, ReplyType, IsrAddress
    <3> QED BY <2>1, <3>1 DEF WireInv, WireType, ReplyType, IsrAddress
  <2>2. CASE bus # "read"
    BY <2>2 DEF WireInv, WireType, ReplyType, IsrAddress, sTxVars
  <2> QED BY <2>1, <2>2
<1>4. SlaveInv'
  BY DEF WireInv, WireType, CallType, TransmitType, ReadType, BusType,
         SlaveType, ReplyType, CountType, MasterInv, SlaveInv, AnswerInv,
         ReceivingInv, IsrAddress, WriteReply, ReplyByte, call, txVars,
         rxVars, sTxVars, counts
<1>5. SendingInv'
  <2>1. CASE bus = "read"
    <3>1. /\ sTxCount' = ReplyLen
          /\ \A i \in 0..ReplyLen-1 : sTx'[i] = ReplyByte(replies + 1, i)
      BY <2>1, WrittenReply DEF WireInv, WireType, ReplyType, IsrAddress
    <3> QED BY <2>1, <3>1 DEF WireInv, WireType, ReplyType, SendingInv, IsrAddress
  <2>2. CASE bus # "read"
    BY <2>2 DEF SendingInv, IsrAddress, sTxVars
  <2> QED BY <2>1, <2>2
<1>6. ReceivingInv'
  BY DEF WireInv, WireType, CallType, TransmitType, ReadType, BusType,
         SlaveType, ReplyType, CountType, MasterInv, SlaveInv, AnswerInv,
         SendingInv, ReceivingInv, OfferedInv, Replied, IsrAddress,
         WriteReply, ReplyByte, call, txVars, rxVars, sTxVars, counts
<1>7. OfferedInv'
  BY DEF WireInv, WireType, CallType, TransmitType, ReadType, BusType,
         SlaveType, ReplyType, CountType, MasterInv, SlaveInv, AnswerInv,
         SendingInv, ReceivingInv, OfferedInv, Replied, IsrAddress,
         WriteReply, ReplyByte, call, txVars, rxVars, sTxVars, counts
<1>8. MessageInv'
  <2> SUFFICES ASSUME timeouts = 0 PROVE MessageInv'
    BY DEF MessageInv, IsrAddress, counts
  <2>1. /\ UNCHANGED <<pc, bus, acked, delivered, ret, sent, sPtr, message>>
        /\ sCount' = 0 /\ flags' = flags \ {"ADDSEND"} /\ "ADDSEND" \in flags
    BY DEF IsrAddress, call, txVars
  <2>2. CASE pc = "bytes"
    <3>1. flags' = {} /\ sent = 0 /\ sPtr = 0 /\ acked = delivered /\ ret = "OK"
      BY <2>1, <2>2 DEF WireInv, MessageInv
    <3> QED BY <2>1, <2>2, <3>1 DEF MessageInv
  <2>3. CASE pc = "receive"
    BY <2>1, <2>3 DEF WireInv, MessageInv
  <2>4. CASE pc \notin {"bytes", "receive"}
    <3>1. flags' = {"STPDET"} /\ acked = delivered /\ sPtr = 0 /\ bus = "free"
      BY <2>1, <2>4 DEF WireInv, MessageInv
    <3> QED BY <2>1, <2>4, <3>1 DEF MessageInv
  <2> QED BY <2>2, <2>3, <2>4
<1> QED BY <1>1, <1>2, <1>3, <1>4, <1>5, <1>6, <1>7, <1>8 DEF WireInv, WireType,
          AnswerInv

LEMMA StepIsrSend == ~RepeatedStart /\ WireInv /\ IsrSend => WireInv'
<1> SUFFICES ASSUME ~RepeatedStart, WireInv, IsrSend PROVE WireInv'
  OBVIOUS
<1>1. /\ CallType' /\ TransmitType' /\ ReadType' /\ SlaveType'
      /\ CountType' /\ MasterInv' /\ SlaveInv' /\ MessageInv'
  <2>1. /\ CallType' /\ TransmitType' /\ ReadType' /\ SlaveType'
        /\ CountType'
    BY DEF WireInv, WireType, CallType, TransmitType, ReadType, SlaveType,
           CountType, IsrSend, call, txVars, rxVars, sRx, counts
  <2>2. MasterInv' /\ SlaveInv'
    BY DEF WireInv, WireType, MasterInv, SlaveInv, IsrSend, call, txVars,
           rxVars, sRx, counts
  <2>3. MessageInv /\ UNCHANGED MessageView /\ UNCHANGED <<pc, bus, sent, message>>
    BY DEF WireInv, MessageView, IsrSend, call, txVars, sRx, counts
  <2> QED BY <2>1, <2>2, <2>3, MessageKept
<1>2. BusType'
  <2>1. sTx[sSent] \in Nat
    BY DEF WireInv, WireType, ReplyType, IsrSend, MoreToSend
  <2> QED BY <2>1 DEF WireInv, WireType, BusType, IsrSend
<1>3. ReplyType'
  <2>1. sSent + 1 \in 0..Size
    BY DEF WireInv, WireType, ReplyType, IsrSend, MoreToSend
  <2> QED BY <2>1 DEF WireInv, WireType, ReplyType, IsrSend
<1>4. SendingInv'
  BY DEF WireInv, WireType, CallType, TransmitType, ReadType, BusType,
         SlaveType, ReplyType, CountType, MasterInv, SlaveInv, AnswerInv,
         SendingInv, ReceivingInv, IsrSend, MoreToSend, call, txVars, rxVars,
         sRx, counts
<1>5. ReceivingInv'
  <2> SUFFICES ASSUME pc = "receive" PROVE ReceivingInv'
    BY DEF ReceivingInv, IsrSend, call
  <2>1. /\ replies >= 1 /\ sSent < ReplyLen /\ sSent \in Nat /\ replies \in Nat
        /\ sTx[sSent] = ReplyByte(replies, sSent)
    BY DEF WireInv, AnswerInv, SendingInv, IsrSend, MoreToSend, WireType, ReplyType
  <2>2. "ADDSEND" \notin flags
    BY DEF WireInv, SlaveInv, IsrSend
  <2>3. sSent = sent /\ Replied(sent)
    <3>1. ReplyByte(replies, sent) # 0
      BY <2>1 DEF ReplyByte, WireInv, WireType, CallType
    <3> QED BY <2>2, <3>1 DEF WireInv, AnswerInv, ReceivingInv, IsrSend
  <2> QED BY <2>1, <2>2, <2>3 DEF ReceivingInv, Replied, IsrSend, call, rxVars
<1>6. OfferedInv'
  BY DEF WireInv, WireType, CallType, TransmitType, ReadType, BusType,
         SlaveType, ReplyType, CountType, MasterInv, SlaveInv, AnswerInv,
         SendingInv, ReceivingInv, OfferedInv, Replied, IsrSend, MoreToSend,
         call, txVars, rxVars, sRx, counts
<1> QED BY <1>1, <1>2, <1>3, <1>4, <1>5, <1>6 DEF WireInv, WireType,
          AnswerInv

LEMMA StepIsrSendEnd == ~RepeatedStart /\ WireInv /\ IsrSendEnd => WireInv'
<1> SUFFICES ASSUME ~RepeatedStart, WireInv, IsrSendEnd PROVE WireInv'
  OBVIOUS
<1>1. /\ CallType' /\ TransmitType' /\ ReadType' /\ BusType'
      /\ SlaveType' /\ CountType' /\ MasterInv' /\ MessageInv'
  <2>1. /\ CallType' /\ TransmitType' /\ ReadType' /\ BusType'
        /\ SlaveType' /\ CountType'
    BY DEF WireInv, WireType, CallType, TransmitType, ReadType, BusType,
           SlaveType, CountType, IsrSendEnd, call, txVars, rxVars, busVars,
           sRx, counts
  <2>2. MasterInv'
    BY DEF WireInv, MasterInv, IsrSendEnd, call, txVars, rxVars, busVars,
           sRx, counts
  <2>3. MessageInv /\ UNCHANGED MessageView /\ UNCHANGED <<pc, bus, sent, message>>
    BY DEF WireInv, MessageView, IsrSendEnd, call, txVars, busVars, sRx, counts
  <2> QED BY <2>1, <2>2, <2>3, MessageKept
<1>2. ReplyType'
  BY DEF WireInv, WireType, CallType, TransmitType, ReadType, BusType,
         SlaveType, ReplyType, CountType, MasterInv, IsrSendEnd, MoreToSend,
         call, txVars, rxVars, busVars, sRx, counts
<1>3. SlaveInv'
  BY DEF WireInv, WireType, CallType, TransmitType, ReadType, BusType,
         SlaveType, ReplyType, CountType, MasterInv, SlaveInv, AnswerInv,
         ReceivingInv, IsrSendEnd, MoreToSend, call, txVars, rxVars, busVars,
         sRx, counts
<1>4. SendingInv'
  BY DEF WireInv, WireType, CallType, TransmitType, ReadType, BusType,
         SlaveType, ReplyType, CountType, MasterInv, SlaveInv, AnswerInv,
         SendingInv, ReceivingInv, IsrSendEnd, MoreToSend, call, txVars,
         rxVars, busVars, sRx, counts
<1>5. ReceivingInv'
  <2> SUFFICES ASSUME pc = "receive" PROVE ReceivingInv'
    BY DEF ReceivingInv, IsrSendEnd, call
  <2>1. replies >= 1 /\ sSent = ReplyLen
    BY DEF WireInv, AnswerInv, SendingInv, IsrSendEnd, MoreToSend, WireType,
           ReplyType
  <2>2. "ADDSEND" \notin flags
    BY DEF WireInv, SlaveInv, IsrSendEnd
  <2>3. sSent = sent /\ Replied(sent)
    <3>1. ReplyByte(replies, sent) # 0
      BY <2>1 DEF ReplyByte, WireInv, WireType, CallType, ReplyType
    <3> QED BY <2>2, <3>1 DEF WireInv, AnswerInv, ReceivingInv, IsrSendEnd
  <2> QED BY <2>1, <2>2, <2>3
          DEF ReceivingInv, Replied, IsrSendEnd, call, rxVars, busVars
<1>6. OfferedInv'
  BY DEF WireInv, WireType, CallType, TransmitType, ReadType, BusType,
         SlaveType, ReplyType, CountType, MasterInv, SlaveInv, AnswerInv,
         SendingInv, ReceivingInv, OfferedInv, Replied, IsrSendEnd,
         MoreToSend, call, txVars, rxVars, busVars, sRx, counts
<1> QED BY <1>1, <1>2, <1>3, <1>4, <1>5, <1>6 DEF WireInv, WireType,
          AnswerInv

LEMMA StepIsrReceive == ~RepeatedStart /\ WireInv /\ IsrReceive => WireInv'
<1> SUFFICES ASSUME ~RepeatedStart, WireInv, IsrReceive PROVE WireInv'
  OBVIOUS
<1>1. /\ CallType' /\ TransmitType' /\ ReadType' /\ ReplyType'
      /\ CountType' /\ MasterInv' /\ SendingInv' /\ OfferedInv'
  BY DEF WireInv, WireType, AnswerInv, CallType, TransmitType, ReadType,
         ReplyType, CountType, MasterInv, SendingInv, OfferedInv, IsrReceive,
         call, txVars, rxVars, sTxVars, counts
<1>2. BusType'
  BY DEF WireInv, WireType, CallType, TransmitType, ReadType, BusType,
         SlaveType, ReplyType, CountType, MasterInv, IsrReceive, call,
         txVars, rxVars, sTxVars, counts
<1>3. SlaveType'
  <2>1. sBuf' \in [0..Size-1 -> Nat]
    BY DEF WireInv, WireType, SlaveType, BusType, IsrReceive
  <2> QED BY <2>1 DEF WireInv, WireType, SlaveType, IsrReceive
<1>4. SlaveInv'
  BY DEF WireInv, WireType, CallType, TransmitType, ReadType, BusType,
         SlaveType, ReplyType, CountType, MasterInv, SlaveInv, AnswerInv,
         ReceivingInv, IsrReceive, call, txVars, rxVars, sTxVars, counts
<1>5. ReceivingInv'
  BY DEF WireInv, WireType, CallType, TransmitType, ReadType, BusType,
         SlaveType, ReplyType, CountType, MasterInv, SlaveInv, AnswerInv,
         SendingInv, ReceivingInv, OfferedInv, Replied, IsrReceive, call,
         txVars, rxVars, sTxVars, counts
<1>6. MessageInv'
  <2> SUFFICES ASSUME timeouts = 0 PROVE MessageInv'
    BY DEF MessageInv, IsrReceive, counts
  <2>1. /\ pc = "bytes" /\ flags = {"RBNE"} /\ sent >= 1 /\ sPtr = sent - 1
        /\ sCount = sent - 1 /\ rdata = message[sent]
        /\ \A i \in 1..sent-1 : sBuf[i - 1] = message[i]
        /\ acked = delivered /\ ret = "OK"
    BY DEF WireInv, MessageInv, IsrReceive
  <2>2. sent \in 1..Size /\ sBuf \in [0..Size-1 -> Nat]
    BY <2>1 DEF WireInv, WireType, CallType, SlaveType
  <2>3. sBuf' = [sBuf EXCEPT ![sent - 1] = message[sent]]
    BY <2>1, <2>2 DEF IsrReceive
  <2>4. \A i \in 1..sent : sBuf'[i - 1] = message[i]
    BY <2>1, <2>2, <2>3
  <2>5. /\ UNCHANGED <<pc, sent, ret, acked, delivered, message>>
        /\ flags' = {} /\ sPtr' = sent /\ sCount' = sent
    BY <2>1, <2>2 DEF IsrReceive, call, txVars
  <2> QED BY <2>1, <2>4, <2>5 DEF MessageInv
<1> QED BY <1>1, <1>2, <1>3, <1>4, <1>5, <1>6 DEF WireInv, WireType,
          AnswerInv

LEMMA StepIsrStop == ~RepeatedStart /\ WireInv /\ IsrStop => WireInv'
<1> SUFFICES ASSUME ~RepeatedStart, WireInv, IsrStop PROVE WireInv'
  OBVIOUS
<1>1. /\ CallType' /\ TransmitType' /\ ReadType' /\ ReplyType'
      /\ CountType' /\ MasterInv' /\ SendingInv' /\ OfferedInv'
  BY DEF WireInv, WireType, AnswerInv, CallType, TransmitType, ReadType,
         ReplyType, CountType, MasterInv, SendingInv, OfferedInv, IsrStop,
         call, txVars, rxVars, sTxVars, counts
<1>2. BusType'
  BY DEF WireInv, WireType, CallType, TransmitType, ReadType, BusType,
         SlaveType, ReplyType, CountType, MasterInv, IsrStop, PointerRewound,
         call, txVars, rxVars, sTxVars, counts
<1>3. SlaveType'
  <2>1. sPtr - sCount \in Nat
    BY DEF WireInv, WireType, SlaveType, SlaveInv, IsrStop
  <2>2. [i \in 1..sCount |-> sBuf[(i - 1) % Size]] \in Seq(Nat)
    <3>1. \A i \in 1..sCount : sBuf[(i - 1) % Size] \in Nat
      BY DEF WireInv, WireType, SlaveType
    <3> QED BY <3>1 DEF WireInv, WireType, SlaveType
  <2>3. delivered' \in Seq(Seq(Nat))
    <3> DEFINE got == [i \in 1..sCount |-> sBuf[(i - 1) % Size]]
    <3>1. delivered' = delivered \/ delivered' = Append(delivered, got)
      BY DEF IsrStop
    <3>2. got \in Seq(Nat)
      BY <2>2
    <3>3. delivered \in Seq(Seq(Nat))
      BY DEF WireInv, WireType, SlaveType
    <3> HIDE DEF got
    <3> QED BY <3>1, <3>2, <3>3, MessageAppended
  <2> QED BY <2>1, <2>3 DEF WireInv, WireType, SlaveType, IsrStop, PointerRewound
<1>4. SlaveInv'
  BY DEF WireInv, WireType, CallType, TransmitType, ReadType, BusType,
         SlaveType, ReplyType, CountType, MasterInv, SlaveInv, AnswerInv,
         ReceivingInv, IsrStop, PointerRewound, call, txVars, rxVars,
         sTxVars, counts
<1>5. ReceivingInv'
  BY DEF WireInv, WireType, CallType, TransmitType, ReadType, BusType,
         SlaveType, ReplyType, CountType, MasterInv, SlaveInv, AnswerInv,
         SendingInv, ReceivingInv, OfferedInv, Replied, IsrStop,
         PointerRewound, call, txVars, rxVars, sTxVars, counts
<1>6. MessageInv'
  <2> SUFFICES ASSUME timeouts = 0 PROVE MessageInv'
    BY DEF MessageInv, IsrStop, counts
  <2>1. pc \notin {"bytes", "receive"} /\ bus = "free"
    BY DEF WireInv, SlaveInv, MessageInv, IsrStop
  <2>2. CASE acked = delivered /\ sPtr = 0 /\ sCount = 0
    BY <2>1, <2>2 DEF MessageInv, IsrStop, PointerRewound, call, txVars
  <2>3. CASE /\ sPtr = sCount /\ acked = Append(delivered, acked[Len(acked)])
             /\ Stored(acked[Len(acked)]) /\ sCount \in 1..Size
             /\ acked # <<>>
    <3> DEFINE m == acked[Len(acked)]
               got == [i \in 1..sCount |-> sBuf[(i - 1) % Size]]
    <3>1. m \in Seq(Nat) /\ sBuf \in [0..Size-1 -> Nat]
      BY SMTT(30), <2>3 DEF WireInv, WireType, TransmitType, SlaveType
    <3>2. \A i \in 1..sCount : (i - 1) % Size = i - 1
      BY <2>3
    <3>3. Len(m) = sCount /\ \A i \in 1..sCount : m[i] = got[i]
      BY <2>3, <3>2 DEF Stored
    <3>4. m = got
      <4>1. m = [i \in 1..sCount |-> m[i]]
        BY <3>1, <3>3
      <4>2. \A i \in 1..sCount : m[i] = sBuf[(i - 1) % Size]
        BY <3>3
      <4> HIDE DEF m
      <4> QED BY <4>1, <4>2
    <3>5. delivered' = Append(delivered, got)
      BY <2>3 DEF IsrStop
    <3> HIDE DEF got
    <3>6. acked = delivered' /\ sPtr' = 0
      BY <2>3, <3>4, <3>5 DEF IsrStop, PointerRewound
    <3> QED BY <2>1, <3>6 DEF MessageInv, IsrStop, call, txVars
  <2>4. \/ acked = delivered /\ sPtr = 0 /\ sCount = 0
        \/ /\ sPtr = sCount /\ acked = Append(delivered, acked[Len(acked)])
           /\ Stored(acked[Len(acked)]) /\ sCount \in 1..Size
           /\ acked # <<>>
    <3>1. flags = {"STPDET"}
      BY DEF IsrStop
    <3>2. flags # {} /\ flags # {"ADDSEND", "STPDET"}
      BY <3>1
    <3> QED BY <2>1, <3>2 DEF WireInv, MessageInv
  <2> QED BY <2>2, <2>3, <2>4
<1> QED BY <1>1, <1>2, <1>3, <1>4, <1>5, <1>6 DEF WireInv, WireType,
          AnswerInv

LEMMA InitWire == Init => WireInv
<1> SUFFICES ASSUME Init PROVE WireInv
  OBVIOUS
<1>1. /\ Zeroes \in [0..Size-1 -> Nat] /\ 0 \in 0..Size-1
      /\ <<>> \in Seq(Nat) /\ <<>> \in Seq(Seq(Nat)) /\ MaxWrites \in Nat
  BY DEF Zeroes
<1>2. WireType
  <2>1. CallType /\ CountType
    BY DEF Init, CallType, CountType, Codes
  <2>2. TransmitType /\ ReadType
    <3>1. transmitting \in BOOLEAN
      BY DEF Init
    <3>2. written \in 0..MaxWrites
      BY <1>1 DEF Init
    <3> QED BY <1>1, <3>1, <3>2 DEF Init, TransmitType, ReadType
  <2>3. BusType /\ SlaveType
    BY <1>1 DEF Init, BusType, SlaveType
  <2>4. ReplyType
    BY <1>1 DEF Init, ReplyType
  <2> QED BY <2>1, <2>2, <2>3, <2>4 DEF WireType
<1>3. MasterInv
  BY DEF Init, MasterInv
<1>4. SlaveInv /\ AnswerInv
  BY DEF Init, SlaveInv, AnswerInv, SendingInv, ReceivingInv, OfferedInv
<1>5. MessageInv
  BY DEF Init, MessageInv
<1> QED BY <1>2, <1>3, <1>4, <1>5 DEF WireInv

LEMMA IdleWire == WireInv /\ UNCHANGED vars => WireInv'
<1> SUFFICES ASSUME WireInv, UNCHANGED vars PROVE WireInv'
  OBVIOUS
<1>1. WireType'
  BY DEF vars, call, txVars, rxVars, busVars, slave, sRx, sTxVars, counts,
         WireInv, WireType, CallType, TransmitType, ReadType, BusType, SlaveType,
         ReplyType, CountType
<1>2. MasterInv' /\ SlaveInv'
  BY DEF vars, call, txVars, rxVars, busVars, slave, sRx, sTxVars, counts,
         WireInv, MasterInv, SlaveInv
<1>3. AnswerInv'
  BY DEF vars, call, txVars, rxVars, busVars, slave, sRx, sTxVars, counts,
         WireInv, AnswerInv, SendingInv, ReceivingInv, OfferedInv, Replied
<1>4. MessageInv'
  <2>1. MessageInv /\ UNCHANGED MessageView /\ UNCHANGED <<pc, bus, sent, message>>
    BY DEF WireInv, MessageView, vars, call, txVars, busVars, slave, sRx, counts
  <2> QED BY <2>1, MessageKept
<1> QED BY <1>1, <1>2, <1>3, <1>4 DEF WireInv

LEMMA StepWire == ~RepeatedStart /\ WireInv /\ [Next]_vars => WireInv'
<1> SUFFICES ASSUME ~RepeatedStart, WireInv, [Next]_vars PROVE WireInv'
  OBVIOUS
<1>1. CASE MasterStep
  BY <1>1, StepTransmitStart, StepTransmitNack, StepTransmitByte,
     StepTransmitEnd, StepReceiveStart, StepReceiveNack, StepReceiveByte,
     StepReceiveEnd DEF MasterStep
<1>2. CASE SlaveIsr
  BY <1>2, StepIsrAddress, StepIsrSend, StepIsrSendEnd, StepIsrReceive,
     StepIsrStop DEF SlaveIsr
<1>3. CASE UNCHANGED vars
  BY <1>3, IdleWire
<1> QED BY <1>1, <1>2, <1>3, StepBeginTransmission, StepWrite, StepEndTooLong,
           StepEndPing, StepEndTransmission, StepRequestFrom, StepRead,
           StepTransmitTimeout, StepSlaveBegin DEF Next

\* What the invariant says of the messages.
LEMMA WireTransfers == WireInv => TransfersIntact
<1> SUFFICES ASSUME WireInv PROVE TransfersIntact
  OBVIOUS
<1>1. TypeOK
  <2>1. txCount \in 0..MaxWrites
    BY DEF WireInv, WireType, TransmitType, MasterInv
  <2> QED BY <2>1 DEF WireInv, WireType, CallType, TransmitType, ReadType, BusType,
             SlaveType, ReplyType, TypeOK
<1>2. MessagesIntact
  <2> SUFFICES ASSUME timeouts = 0
               PROVE  /\ IsPrefix(delivered, acked)
                      /\ Len(acked) <= Len(delivered) + 1
    BY DEF MessagesIntact
  <2>1. /\ acked \in Seq(Seq(Nat)) /\ delivered \in Seq(Seq(Nat))
        /\ Len(acked) \in Nat /\ Len(delivered) \in Nat
    BY DEF WireInv, WireType, TransmitType, SlaveType
  <2>2. CASE acked = delivered
    <3>1. SubSeq(acked, 1, Len(acked)) = acked
      BY <2>1
    <3> QED BY <2>1, <2>2, <3>1 DEF IsPrefix
  <2>3. CASE acked # <<>> /\ acked = Append(delivered, acked[Len(acked)])
    <3> DEFINE m == acked[Len(acked)]
    <3>1. m \in Seq(Nat)
      BY <2>1, <2>3
    <3>2. acked = Append(delivered, m)
      BY <2>3
    <3> HIDE DEF m
    <3>3. Len(acked) = Len(delivered) + 1
      BY <2>1, <3>1, <3>2, MessageAppended
    <3>4. \A i \in 1..Len(delivered) : acked[i] = delivered[i]
      BY <2>1, <3>1, <3>2, AppendProperties
    <3>5. SubSeq(acked, 1, Len(delivered)) = delivered
      BY <2>1, <3>3, <3>4
    <3> QED BY <2>1, <3>3, <3>5 DEF IsPrefix
  <2> QED BY <2>2, <2>3 DEF WireInv, MessageInv
<1>3. PointerHome
  BY DEF WireInv, MasterInv, MessageInv, PointerHome
<1> QED BY <1>1, <1>2, <1>3 DEF TransfersIntact

\* What it says of the answers.
LEMMA WireReplies == WireInv => ReplyIntact
BY DEF WireInv, AnswerInv, OfferedInv, ReplyIntact

-----------------------------------------------------------------------------
(* The theorems.                                                             *)

\* In a sketch without repeated starts the invariant holds throughout.
LEMMA WireAlways ==
    ASSUME ~RepeatedStart
    PROVE  Spec => []WireInv
<1>1. Init => WireInv
  BY InitWire
<1>2. WireInv /\ [Next]_vars => WireInv'
  BY StepWire
<1> QED BY <1>1, <1>2, PTL DEF Spec

\* Indexes and counts of both boards stay in range; while no wait has run out,
\* onReceive is called with the acknowledged messages, whole and in order, and
\* between transfers the slave stores at the start of its buffer again.
THEOREM WireTransfersIntact ==
    ASSUME ~RepeatedStart
    PROVE  Spec => []TransfersIntact
BY WireAlways, WireTransfers, PTL

\* What available() offers is the answer the slave gave to this request, with
\* or without timeouts.
THEOREM WireReplyIntact ==
    ASSUME ~RepeatedStart
    PROVE  Spec => []ReplyIntact
BY WireAlways, WireReplies, PTL
=============================================================================
