------------------------------- MODULE TwoWire ------------------------------
(* Two boards on one I2C bus, both running the Wire library (Wire.cpp on     *)
(* utility/twi.c): a master that polls the status flags, and a slave served  *)
(* by its interrupt handler.                                                 *)
(*                                                                           *)
(* The master's calls are taken apart where they wait for the bus; the       *)
(* slave's handler serves one flag each time it runs and stays inside        *)
(* i2c_slave_transmit while it answers a read.  The two controllers and the  *)
(* lines are external: the clock is stretched while the slave has not        *)
(* served an address match or a received byte.                               *)
(*                                                                           *)
(* Assumed of the sketches: each beginTransmission is followed by its        *)
(* endTransmission, bytes are read while available() says so, and the master *)
(* asks for as many bytes as the slave answers.                              *)
EXTENDS Naturals, Sequences, SequencesExt

CONSTANTS
    Size,           \* WIRE_BUFFER_LENGTH and I2C_BUFFER_SIZE
    ReplyLen,       \* bytes the slave's onRequest callback writes
    RepeatedStart,  \* assumption: the sketch uses endTransmission(false)
    MaxWrites,      \* bound: bytes written by the sketch
    MaxRequests,    \* bound: requestFrom() calls
    MaxPings,       \* bound: endTransmission() calls with nothing written
    MaxTimeouts     \* bound: flag waits that run out

ASSUME WireAssumption ==
    /\ Size \in Nat \ {0}
    /\ ReplyLen \in 1..Size
    /\ RepeatedStart \in BOOLEAN
    /\ {MaxWrites, MaxRequests, MaxPings, MaxTimeouts} \subseteq Nat

VARIABLES
    \* master
    pc,             \* where the sketch stands inside a call
    transmitting,
    txBuf, txHead, txCount,     \* _tx_buffer (its tail stays 0), _i2c.tx_count
    stop, ret,                  \* argument and result of the call under way
    sent,                       \* count of i2c_master_transmit and _receive
    rxBuf, rxHead, rxTail,      \* _rx_buffer
    result,                     \* what endTransmission returned last
    \* bus
    bus,            \* "free", or the direction of the transfer that holds it
    flags,          \* the slave's pending event flags
    rdata, tdata,   \* the slave's data registers
    \* slave
    listening,      \* begin(address) was called
    isr,            \* where the handler stands
    sBuf, sPtr, sCount,         \* rx_buffer_ptr (an index) and rx_count
    sTx, sTxCount, sSent,       \* transmit buffer, tx_count, bytes given
    \* histories
    written,        \* bytes written by the sketch
    message,        \* those of the transmission under way
    acked,          \* messages whose endTransmission returned I2C_OK
    delivered,      \* messages onReceive was called with
    replies,        \* onRequest calls
    requests, pings, timeouts   \* bounded counters

call   == <<pc, stop, ret, sent, result>>
txVars == <<transmitting, txBuf, txHead, txCount, written, message, acked>>
rxVars == <<rxBuf, rxHead, rxTail>>
busVars == <<bus, flags, rdata, tdata>>
sRx    == <<sBuf, sPtr, sCount, delivered>>
sTxVars == <<isr, sTx, sTxCount, sSent, replies>>
slave  == <<listening, sRx, sTxVars>>
counts == <<requests, pings, timeouts>>
vars == <<call, txVars, rxVars, busVars, slave, counts>>

Zeroes == [i \in 0..Size-1 |-> 0]

Init ==
    /\ pc = "idle" /\ stop = TRUE /\ ret = "OK" /\ sent = 0 /\ result = "OK"
    /\ transmitting = FALSE
    /\ txBuf = Zeroes /\ txHead = 0 /\ txCount = 0
    /\ rxBuf = Zeroes /\ rxHead = 0 /\ rxTail = 0
    /\ bus = "free" /\ flags = {} /\ rdata = 0 /\ tdata = 0
    /\ listening = FALSE /\ isr = "idle"
    /\ sBuf = Zeroes /\ sPtr = 0 /\ sCount = 0
    /\ sTx = Zeroes /\ sTxCount = 0 /\ sSent = 0
    /\ written = 0 /\ message = <<>> /\ acked = <<>> /\ delivered = <<>>
    /\ replies = 0 /\ requests = 0 /\ pings = 0 /\ timeouts = 0

-----------------------------------------------------------------------------
(* Master: transmission.                                                     *)

BeginTransmission ==
    /\ pc = "idle" /\ ~transmitting
    /\ transmitting' = TRUE
    /\ txHead' = 0
    /\ message' = <<>>
    /\ UNCHANGED <<call, txBuf, txCount, written, acked, rxVars, busVars,
                   slave, counts>>

NextHead == (txHead + 1) % Size

\* A byte is stored and counted whether or not it still fits.
Write ==
    /\ pc = "idle" /\ transmitting
    /\ written < MaxWrites
    /\ written' = written + 1
    /\ txBuf' = [txBuf EXCEPT ![txHead] = written + 1]
    /\ txHead' = NextHead
    /\ txCount' = txCount + 1
    /\ message' = Append(message, written + 1)
    /\ UNCHANGED <<call, transmitting, acked, rxVars, busVars, slave, counts>>

KeepCount == txCount                \* mutant
ResetCount == 0

\* The end of endTransmission.
Return(code) ==
    /\ pc' = "idle"
    /\ result' = code
    /\ transmitting' = FALSE
    /\ txHead' = 0 /\ txCount' = ResetCount
    /\ acked' = IF code = "OK" /\ message # <<>>
                THEN Append(acked, message) ELSE acked
    /\ UNCHANGED <<txBuf, written, message>>

Fits == txCount <= Size

EndTooLong ==
    /\ pc = "idle" /\ transmitting
    /\ ~Fits
    /\ Return("DATA_TOO_LONG")
    /\ UNCHANGED <<stop, ret, sent, rxVars, busVars, slave, counts>>

\* The last transfer's STOP is served by the slave before the next address.
SlaveHasCaughtUp == "STPDET" \notin flags

\* Nothing written: the address alone, START to STOP (i2c_wait_standby_state).
EndPing ==
    /\ pc = "idle" /\ transmitting
    /\ txCount = 0
    /\ SlaveHasCaughtUp
    /\ pings < MaxPings /\ pings' = pings + 1
    /\ IF bus # "free"
       THEN Return("BUSY") /\ UNCHANGED busVars
       ELSE /\ flags' = flags \cup (IF listening THEN {"ADDSEND", "STPDET"} ELSE {})
            /\ Return(IF listening THEN "OK" ELSE "NACK_ADDR")
            /\ UNCHANGED <<bus, rdata, tdata>>
    /\ UNCHANGED <<stop, ret, sent, rxVars, slave, requests, timeouts>>

EndTransmission ==
    /\ pc = "idle" /\ transmitting
    /\ txCount > 0 /\ Fits
    /\ stop' \in (IF RepeatedStart THEN BOOLEAN ELSE {TRUE})
    /\ pc' = "start"
    /\ UNCHANGED <<ret, sent, result, txVars, rxVars, busVars, slave, counts>>

\* The wait for a free bus may run out; the START condition is sent anyway.
BusStatus == IF bus = "free" THEN "OK" ELSE "BUSY"

TransmitStart ==
    /\ pc = "start"
    /\ listening
    /\ SlaveHasCaughtUp
    /\ ret' = BusStatus
    /\ bus' = "write"
    /\ flags' = flags \cup {"ADDSEND"}
    /\ sent' = 0
    /\ pc' = "bytes"
    /\ UNCHANGED <<stop, result, txVars, rxVars, rdata, tdata, slave, counts>>

\* No slave answers: the controller ends the transfer with a STOP.
TransmitNack ==
    /\ pc = "start"
    /\ ~listening
    /\ bus' = "free"
    /\ Return("NACK_ADDR")
    /\ UNCHANGED <<stop, ret, sent, rxVars, flags, rdata, tdata, slave, counts>>

\* TBE (or TC) is set once the slave has taken the address and the last byte.
TransmitReady == flags \cap {"ADDSEND", "RBNE"} = {}

TransmitByte ==
    /\ pc = "bytes"
    /\ sent < txCount
    /\ TransmitReady
    /\ rdata' = txBuf[sent]
    /\ flags' = flags \cup {"RBNE"}
    /\ sent' = sent + 1
    /\ UNCHANGED <<pc, stop, ret, result, txVars, rxVars, bus, tdata, slave,
                   counts>>

\* All bytes are out.  Without a STOP the bus stays with the master.
TransmitEnd ==
    /\ pc = "bytes"
    /\ sent = txCount
    /\ TransmitReady
    /\ Return(ret)
    /\ IF stop THEN bus' = "free" /\ flags' = flags \cup {"STPDET"}
               ELSE UNCHANGED <<bus, flags>>
    /\ UNCHANGED <<stop, ret, sent, rxVars, rdata, tdata, slave, counts>>

\* The wait for TBE or TC runs out: the call returns without a STOP.
TransmitTimeout ==
    /\ pc = "bytes"
    /\ ~TransmitReady
    /\ timeouts < MaxTimeouts /\ timeouts' = timeouts + 1
    /\ Return(IF sent < txCount THEN "NACK_DATA" ELSE "TIMEOUT")
    /\ UNCHANGED <<stop, ret, sent, rxVars, busVars, slave, requests, pings>>

-----------------------------------------------------------------------------
(* Master: reception.                                                        *)

RequestFrom ==
    /\ pc = "idle" /\ ~transmitting
    /\ requests < MaxRequests /\ requests' = requests + 1
    /\ rxHead' = 0
    /\ stop' \in (IF RepeatedStart THEN BOOLEAN ELSE {TRUE})
    /\ pc' = "request"
    /\ UNCHANGED <<ret, sent, result, txVars, rxBuf, rxTail, busVars, slave,
                   pings, timeouts>>

ReceiveStart ==
    /\ pc = "request"
    /\ listening
    /\ SlaveHasCaughtUp
    /\ ret' = BusStatus
    /\ bus' = "read"
    /\ flags' = flags \cup {"ADDSEND"}
    /\ sent' = 0
    /\ pc' = "receive"
    /\ UNCHANGED <<stop, result, txVars, rxVars, rdata, tdata, slave, counts>>

HeadAlways(code) == ReplyLen        \* mutant: head is set on failure too
HeadAfter(code) == IF code = "OK" THEN ReplyLen ELSE rxHead

ReceiveNack ==
    /\ pc = "request"
    /\ ~listening
    /\ bus' = "free"
    /\ rxHead' = HeadAfter("NACK_ADDR")
    /\ rxTail' = 0
    /\ pc' = "idle"
    /\ UNCHANGED <<stop, ret, sent, result, txVars, rxBuf, flags, rdata, tdata,
                   slave, counts>>

ReceiveByte ==
    /\ pc = "receive"
    /\ sent < ReplyLen
    /\ tdata # 0
    /\ rxBuf' = [rxBuf EXCEPT ![sent] = tdata]
    /\ tdata' = 0
    /\ sent' = sent + 1
    /\ UNCHANGED <<pc, stop, ret, result, txVars, rxHead, rxTail, bus, flags,
                   rdata, slave, counts>>


ReceiveEnd ==
    /\ pc = "receive"
    /\ sent = ReplyLen
    /\ rxHead' = HeadAfter(ret)
    /\ rxTail' = 0
    /\ pc' = "idle"
    /\ IF stop THEN bus' = "free" /\ flags' = flags \cup {"STPDET"}
               ELSE UNCHANGED <<bus, flags>>
    /\ UNCHANGED <<stop, ret, sent, result, txVars, rxBuf, rdata, tdata, slave,
                   counts>>

Available == (Size + rxHead - rxTail) % Size

Read ==
    /\ pc = "idle"
    /\ Available # 0 /\ rxHead > rxTail
    /\ rxTail' = (rxTail + 1) % Size
    /\ UNCHANGED <<call, txVars, rxBuf, rxHead, busVars, slave, counts>>

-----------------------------------------------------------------------------
(* Slave.                                                                    *)

SlaveBegin ==
    /\ ~listening
    /\ listening' = TRUE
    /\ UNCHANGED <<call, txVars, rxVars, busVars, sRx, sTxVars, counts>>

\* The i-th byte of the n-th answer.
ReplyByte(n, i) == 10 * n + i

\* onRequestService: the callback's write() goes to i2c_slave_write_buffer,
\* which fills the buffer from its start and sets tx_count.
WriteReply(n) ==
    /\ sTx' = [i \in 0..Size-1 |-> IF i < ReplyLen THEN ReplyByte(n, i) ELSE sTx[i]]
    /\ sTxCount' = ReplyLen

IsrAddress ==
    /\ isr = "idle" /\ listening
    /\ "ADDSEND" \in flags
    /\ flags' = flags \ {"ADDSEND"}
    /\ sCount' = 0
    /\ IF bus = "read"
       THEN /\ replies' = replies + 1
            /\ WriteReply(replies + 1)
            /\ isr' = "sending" /\ sSent' = 0
       ELSE UNCHANGED sTxVars
    /\ UNCHANGED <<call, txVars, rxVars, bus, rdata, tdata, listening, sBuf,
                   sPtr, delivered, counts>>

SendsButLast == sSent + 1 < sTxCount    \* mutant
MoreToSend == sSent < sTxCount

\* i2c_slave_transmit, inside the handler.
IsrSend ==
    /\ isr = "sending"
    /\ MoreToSend
    /\ tdata = 0
    /\ tdata' = sTx[sSent]
    /\ sSent' = sSent + 1
    /\ UNCHANGED <<call, txVars, rxVars, bus, flags, rdata, listening, sRx,
                   isr, sTx, sTxCount, replies, counts>>

IsrSendEnd ==
    /\ isr = "sending"
    /\ ~MoreToSend
    /\ tdata = 0
    /\ isr' = "idle"
    /\ UNCHANGED <<call, txVars, rxVars, busVars, listening, sRx, sTx,
                   sTxCount, sSent, replies, counts>>

\* The byte goes where rx_buffer_ptr points; a store past the end hits other
\* memory.
IsrReceive ==
    /\ isr = "idle" /\ listening
    /\ "ADDSEND" \notin flags /\ "RBNE" \in flags
    /\ sBuf' = IF sPtr < Size THEN [sBuf EXCEPT ![sPtr] = rdata] ELSE sBuf
    /\ sPtr' = sPtr + 1
    /\ sCount' = sCount + 1
    /\ flags' = flags \ {"RBNE"}
    /\ UNCHANGED <<call, txVars, rxVars, bus, rdata, tdata, listening,
                   delivered, sTxVars, counts>>

PointerRewound == sPtr - sCount

\* onReceiveService: the callback reads numBytes bytes from the buffer's start.
IsrStop ==
    /\ isr = "idle" /\ listening
    /\ flags = {"STPDET"}
    /\ sPtr' = PointerRewound
    /\ delivered' = IF sCount = 0 THEN delivered
                    ELSE Append(delivered, [i \in 1..sCount |-> sBuf[(i - 1) % Size]])
    /\ flags' = {}
    /\ UNCHANGED <<call, txVars, rxVars, bus, rdata, tdata, listening, sBuf,
                   sCount, sTxVars, counts>>

-----------------------------------------------------------------------------
\* The steps of a call under way.
MasterStep ==
    \/ TransmitStart \/ TransmitNack \/ TransmitByte \/ TransmitEnd
    \/ ReceiveStart \/ ReceiveNack \/ ReceiveByte \/ ReceiveEnd

SlaveIsr == IsrAddress \/ IsrSend \/ IsrSendEnd \/ IsrReceive \/ IsrStop

Next ==
    \/ BeginTransmission \/ Write
    \/ EndTooLong \/ EndPing \/ EndTransmission
    \/ RequestFrom \/ Read
    \/ MasterStep \/ TransmitTimeout
    \/ SlaveBegin \/ SlaveIsr

\* The master's task runs on inside a call; the slave's interrupt is served.
Fairness == WF_vars(MasterStep) /\ WF_vars(SlaveIsr)

Spec == Init /\ [][Next]_vars /\ Fairness

-----------------------------------------------------------------------------
(* Properties.                                                               *)

Codes == {"OK", "DATA_TOO_LONG", "NACK_ADDR", "NACK_DATA", "TIMEOUT", "BUSY"}

\* Types; head, tail and counts stay in range.
TypeOK ==
    /\ pc \in {"idle", "start", "bytes", "request", "receive"}
    /\ {transmitting, stop, listening} \subseteq BOOLEAN
    /\ ret \in {"OK", "BUSY"} /\ result \in Codes
    /\ txBuf \in [0..Size-1 -> Nat] /\ txHead \in 0..Size-1
    /\ txCount \in 0..MaxWrites /\ sent \in 0..Size
    /\ rxBuf \in [0..Size-1 -> Nat] /\ rxHead \in 0..Size /\ rxTail \in 0..Size-1
    /\ bus \in {"free", "write", "read"}
    /\ flags \subseteq {"ADDSEND", "RBNE", "STPDET"}
    /\ isr \in {"idle", "sending"} /\ sPtr \in Nat /\ sCount \in Nat
    /\ sTxCount \in 0..Size /\ sSent \in 0..Size

\* As long as no wait has run out, the slave's onReceive is called with the
\* messages whose endTransmission returned 0, byte for byte and in order:
\* none is lost, split, merged, or delivered without being acknowledged.
MessagesIntact ==
    timeouts = 0 => /\ IsPrefix(delivered, acked)
                    /\ Len(acked) <= Len(delivered) + 1

\* Between two transfers the slave's store pointer is back at the start of its
\* buffer, where onReceive will look for the next message.
PointerHome ==
    timeouts = 0 /\ bus = "free" /\ flags = {} => sPtr = 0

\* What available() offers after requestFrom is the answer the slave gave to
\* this request, never what an earlier one left in the buffer.
ReplyIntact ==
    pc = "idle" => \A i \in rxTail..rxHead-1 : rxBuf[i] = ReplyByte(replies, i)

\* A call of endTransmission or requestFrom returns.
CallsReturn == pc # "idle" ~> pc = "idle"

\* Messages of the master arrive whole and in order, in a slave that is ready for
\* the next one each time (Wire.cpp:178-272, twi.c:181-301, 525-551).
TransfersIntact == TypeOK /\ MessagesIntact /\ PointerHome
=============================================================================
