--------------------------- MODULE HardwareSerial ---------------------------
(* The interrupt-driven UART driver: HardwareSerial.cpp (two ring buffers,   *)
(* the Arduino calls) on gd32/gd32_serial.c (the interrupt handler and the   *)
(* one-byte asynchronous transfers), with the USART as an external part.     *)
(*                                                                           *)
(* One task calls the port.  pc is where it stands inside a call; each step  *)
(* touches the shared state once, as the interrupt handler may run between   *)
(* any two.  The handler runs to completion before the task continues, but   *)
(* not before the USART does: isr = "rxCallback" is the point between the    *)
(* handler's read of RDATA and the second read made by the rx callback.      *)
(*                                                                           *)
(* A byte is the number of the write() call or line arrival it came from.    *)
EXTENDS Naturals, Sequences, FiniteSets, SequencesExt

CONSTANTS
    TxSize,     \* SERIAL_TX_BUFFER_SIZE
    RxSize,     \* SERIAL_RX_BUFFER_SIZE
    Configs,    \* the config bytes the sketch passes to begin()
    PromptTask, \* assumption: see LineOut
    MaxTx,      \* bound: write() calls
    MaxRx,      \* bound: bytes arriving on the line
    MaxBegins   \* bound: begin() calls

ASSUME SizeAssumption ==
    /\ TxSize \in Nat /\ TxSize >= 2
    /\ RxSize \in Nat /\ RxSize >= 2

ASSUME BoundAssumption ==
    /\ MaxTx \in Nat /\ MaxRx \in Nat /\ MaxBegins \in Nat
    /\ Configs \subseteq 0..255
    /\ PromptTask \in BOOLEAN

NoByte == 0

VARIABLES
    pc,         \* where the calling task stands
    count,      \* its copy of tx_count inside tx_count++
    char,       \* its copy of the byte read() returns
    open,       \* between begin() and end()
    written,    \* _written
    txBuf, txHead, txTail,          \* _tx_buffer
    rxBuf, rxHead, rxTail,          \* _rx_buffer
    txPtr, txCount, txState,        \* serial_s: tx_buffer_ptr, tx_count, tx_state
    rxPtr, rxState,                 \* serial_s: rx_buffer_ptr, rx_state
    isr,        \* where the interrupt handler stands
    uen,        \* USART: enabled
    tdr, shift, tc, tbeIE, tcIE,    \* USART: transmitter
    rdr, rbne, err, rxIE,           \* USART: receiver; err: an error flag is set
    begins,     \* history: begin() calls
    accepted,   \* history: bytes accepted by write()
    wire,       \* history: bytes that left on the line
    arrived,    \* history: bytes that came in from the line
    delivered,  \* history: bytes read() returned
    lost        \* history: arrived bytes that were lost, with the reason

task  == <<pc, count, char, open, written>>
txRing == <<txBuf, txHead, txTail>>
rxRing == <<rxBuf, rxHead, rxTail>>
txReq == <<txPtr, txCount, txState>>
rxReq == <<rxPtr, rxState>>
txHw  == <<tdr, shift, tc, tbeIE, tcIE>>
rxHw  == <<rdr, rbne, err, rxIE>>
txHist == <<accepted, wire>>
rxHist == <<arrived, delivered, lost>>

txVars == <<txRing, txReq, txHw, txHist, count, written>>
rxVars == <<rxRing, rxReq, rxHw, rxHist, char>>
vars == <<task, txRing, rxRing, txReq, rxReq, isr, uen, txHw, rxHw, begins,
          txHist, rxHist>>

-----------------------------------------------------------------------------
(* Ring buffers: head is the next slot to fill, tail the next to take.       *)

Succ(i, size) == (i + 1) % size

\* The slot k places after tail.
Slot(tail, k, size) == IF tail + k >= size THEN tail + k - size ELSE tail + k

Used(head, tail, size) ==
    IF head >= tail THEN head - tail ELSE size + head - tail

\* available() and availableForWrite(), as computed from head and tail.
Available(head, tail) == (RxSize + head - tail) % RxSize

AvailableForWrite(head, tail) ==
    IF head >= tail THEN TxSize - 1 - head + tail ELSE tail - head - 1

RingBytes(buf, head, tail, size) ==
    [k \in 1..Used(head, tail, size) |-> buf[Slot(tail, k - 1, size)]]

-----------------------------------------------------------------------------
(* begin(): config byte -> data bits and parity -> USART word length.        *)

HasParity(config) == (config \div 32) % 2 = 1

DataBits(config) ==
    (CASE config % 8 = 4 -> 7
       [] config % 8 = 6 -> 8
       [] OTHER          -> 0) + (IF HasParity(config) THEN 1 ELSE 0)

\* serial_format clears UEN first and restores it last; these formats return
\* in between.
FormatCompletes(config) ==
    IF HasParity(config) THEN DataBits(config) # 9 ELSE DataBits(config) # 7

-----------------------------------------------------------------------------
Init ==
    /\ pc = "idle" /\ count = 0 /\ char = NoByte
    /\ open = FALSE /\ written = FALSE
    /\ txBuf = [i \in 0..TxSize-1 |-> NoByte] /\ txHead = 0 /\ txTail = 0
    /\ rxBuf = [i \in 0..RxSize-1 |-> NoByte] /\ rxHead = 0 /\ rxTail = 0
    /\ txPtr = 0 /\ txCount = 0 /\ txState = "RESET"
    /\ rxPtr = 0 /\ rxState = "RESET"
    /\ isr = "idle" /\ uen = FALSE
    /\ tdr = NoByte /\ shift = NoByte /\ tc = TRUE
    /\ tbeIE = FALSE /\ tcIE = FALSE
    /\ rdr = NoByte /\ rbne = FALSE /\ err = FALSE /\ rxIE = FALSE
    /\ begins = 0 /\ accepted = 0 /\ wire = <<>>
    /\ arrived = 0 /\ delivered = <<>> /\ lost = {}

\* usart_deinit: the peripheral's reset values.  A received byte that no one
\* has read is gone.
ResetUsart ==
    /\ tdr' = NoByte /\ shift' = NoByte /\ tc' = TRUE
    /\ tbeIE' = FALSE /\ tcIE' = FALSE
    /\ rdr' = NoByte /\ rbne' = FALSE /\ err' = FALSE
    /\ lost' = IF rbne THEN lost \cup {<<rdr, "end">>} ELSE lost

ArmAtTail(slot) ==                  \* mutant
    rxPtr' = rxTail /\ rxState' = "BUSY_RX" /\ rxIE' = TRUE

\* serial_receive(&buffer[slot], 1)
ArmReceive(slot) ==
    rxPtr' = slot /\ rxState' = "BUSY_RX" /\ rxIE' = TRUE

\* begin(baud, config) on a closed port, ending with the first serial_receive.
Begin(config) ==
    /\ pc = "idle" /\ isr = "idle" /\ ~open
    /\ begins < MaxBegins
    /\ begins' = begins + 1
    /\ open' = TRUE
    /\ ResetUsart
    /\ uen' = FormatCompletes(config)
    /\ txState' = "READY"
    /\ ArmReceive(rxHead)
    /\ UNCHANGED <<pc, count, char, written, txRing, rxRing, txPtr, txCount,
                   isr, txHist, arrived, delivered>>

-----------------------------------------------------------------------------
(* write(c)                                                                  *)

TaskAt(label) == pc = label /\ isr = "idle"

WriteCall ==
    /\ TaskAt("idle") /\ open
    /\ accepted < MaxTx
    /\ written' = TRUE
    /\ pc' = "spin"
    /\ UNCHANGED <<count, char, open, txRing, rxRing, txReq, rxReq, isr, uen,
                   txHw, rxHw, begins, txHist, rxHist>>

NoSpaceTest == TRUE                 \* mutant

TxSpace == txTail # Succ(txHead, TxSize)

\* while(tail == nextWrite): left when the handler has freed a slot.
WriteSpin ==
    /\ TaskAt("spin")
    /\ TxSpace
    /\ pc' = "store"
    /\ UNCHANGED <<open, begins, isr, uen, txVars, rxVars>>

WriteStore ==
    /\ TaskAt("store")
    /\ txBuf' = [txBuf EXCEPT ![txHead] = accepted + 1]
    /\ pc' = "publish"
    /\ UNCHANGED <<open, begins, isr, uen, txHead, txTail, txReq, txHw,
                   txHist, count, written, rxVars>>

WritePublish ==
    /\ TaskAt("publish")
    /\ txHead' = Succ(txHead, TxSize)
    /\ accepted' = accepted + 1
    /\ pc' = "countLoad"
    /\ UNCHANGED <<open, begins, isr, uen, txBuf, txTail, txReq, txHw,
                   wire, count, written, rxVars>>

\* tx_count++ is a load and a store; the handler writes tx_count too.
WriteCountLoad ==
    /\ TaskAt("countLoad")
    /\ count' = txCount
    /\ pc' = "countStore"
    /\ UNCHANGED <<open, begins, isr, uen, txRing, txReq, txHw, txHist,
                   written, rxVars>>

WriteCountStore ==
    /\ TaskAt("countStore")
    /\ txCount' = count + 1
    /\ count' = 0
    /\ pc' = "check"
    /\ UNCHANGED <<open, begins, isr, uen, txRing, txPtr, txState, txHw,
                   txHist, written, rxVars>>

\* serial_tx_active: a transfer is under way, the handler will go on.
WriteLeave ==
    /\ TaskAt("check")
    /\ txState = "BUSY_TX"
    /\ pc' = "idle"
    /\ UNCHANGED <<open, begins, isr, uen, txVars, rxVars>>

WriteIdleLine ==
    /\ TaskAt("check")
    /\ txState # "BUSY_TX"
    /\ pc' = "transmit"
    /\ UNCHANGED <<open, begins, isr, uen, txVars, rxVars>>

WriteTransmitKeepsCount ==          \* mutant
    /\ TaskAt("transmit")
    /\ txPtr' = txTail
    /\ txState' = "BUSY_TX"
    /\ pc' = "kick"
    /\ UNCHANGED <<open, begins, isr, uen, txRing, txHw, txHist, txCount, count,
                   written, rxVars>>

\* serial_transmit(&buffer[tail], 1) up to tx_state = OP_STATE_BUSY_TX.
WriteTransmit ==
    /\ TaskAt("transmit")
    /\ txPtr' = txTail
    /\ txCount' = 1
    /\ txState' = "BUSY_TX"
    /\ pc' = "kick"
    /\ UNCHANGED <<open, begins, isr, uen, txRing, txHw, txHist, count,
                   written, rxVars>>

SendByteNoTc(p, n) ==               \* mutant
    /\ tdr' = txBuf[p]
    /\ tc' = FALSE
    /\ txPtr' = p + 1
    /\ txCount' = n - 1
    /\ tbeIE' = FALSE
    /\ UNCHANGED <<tcIE, shift>>

\* usart_tx_interrupt with tx_buffer_ptr = p and tx_count = n: one byte to
\* TDATA, and TBE off and TC on after the last one.
SendByte(p, n) ==
    /\ tdr' = txBuf[p]
    /\ tc' = FALSE
    /\ txPtr' = p + 1
    /\ txCount' = n - 1
    /\ IF n = 1 THEN tbeIE' = FALSE /\ tcIE' = TRUE
                ELSE UNCHANGED <<tbeIE, tcIE>>
    /\ UNCHANGED shift

\* The rest of serial_transmit: send at once if TDATA is empty.
WriteKick ==
    /\ TaskAt("kick")
    /\ pc' = "idle"
    /\ IF tdr = NoByte
       THEN SendByte(txPtr, txCount)
       ELSE tbeIE' = TRUE /\ UNCHANGED <<txPtr, txCount, tdr, shift, tc, tcIE>>
    /\ UNCHANGED <<open, begins, isr, uen, txRing, txState, txHist, count,
                   written, rxVars>>

-----------------------------------------------------------------------------
(* flush(), end(), read()                                                    *)

\* flush() returns at once if nothing was ever written.
FlushCall ==
    /\ TaskAt("idle") /\ open
    /\ written
    /\ pc' = "flush"
    /\ UNCHANGED <<open, begins, isr, uen, txVars, rxVars>>

FlushDone ==
    /\ TaskAt("flush")
    /\ txHead = txTail
    /\ pc' = "idle"
    /\ UNCHANGED <<open, begins, isr, uen, txVars, rxVars>>

RxRingIds == Range(RingBytes(rxBuf, rxHead, rxTail, RxSize))

\* end(): received data is cleared first, then the flush.
EndCall ==
    /\ TaskAt("idle") /\ open
    /\ rxHead' = rxTail
    /\ lost' = lost \cup {<<b, "end">> : b \in RxRingIds}
    /\ pc' = IF written THEN "endFlush" ELSE "free"
    /\ UNCHANGED <<open, begins, isr, uen, txVars, rxBuf, rxTail, rxReq, rxHw,
                   arrived, delivered, char>>

EndUnflushed ==                     \* mutant
    /\ TaskAt("endFlush")
    /\ pc' = "free"
    /\ UNCHANGED <<open, begins, isr, uen, txVars, rxVars>>

EndFlushed ==
    /\ TaskAt("endFlush")
    /\ txHead = txTail
    /\ pc' = "free"
    /\ UNCHANGED <<open, begins, isr, uen, txVars, rxVars>>

\* serial_free
EndFree ==
    /\ TaskAt("free")
    /\ open' = FALSE /\ uen' = FALSE
    /\ ResetUsart
    /\ rxIE' = FALSE
    /\ pc' = "idle"
    /\ UNCHANGED <<begins, isr, txRing, txReq, txHist, count, written, rxRing,
                   rxReq, arrived, delivered, char>>

ReadCall ==
    /\ TaskAt("idle")
    /\ rxHead # rxTail
    /\ char' = rxBuf[rxTail]
    /\ pc' = "readAdvance"
    /\ UNCHANGED <<open, begins, isr, uen, txVars, rxRing, rxReq, rxHw, rxHist>>

ReadAdvance ==
    /\ TaskAt("readAdvance")
    /\ rxTail' = Succ(rxTail, RxSize)
    /\ delivered' = Append(delivered, char)
    /\ char' = NoByte
    /\ pc' = "idle"
    /\ UNCHANGED <<open, begins, isr, uen, txVars, rxBuf, rxHead, rxReq, rxHw,
                   arrived, lost>>

-----------------------------------------------------------------------------
(* usart_irq: with no error flag set the receiver goes first; then the       *)
(* transmitter; the error flags are cleared only when neither has work.      *)

RxPending == ~err /\ rxIE /\ rbne
TbePending == tbeIE /\ tdr = NoByte
TcPending == tcIE /\ tc
TxPending == TbePending \/ TcPending

\* usart_rx_interrupt: the byte goes to the armed slot, the receive
\* interrupts go off, the request is complete.
IsrReceive ==
    /\ isr = "idle"
    /\ RxPending
    /\ rxBuf' = [rxBuf EXCEPT ![rxPtr] = rdr]
    /\ rxPtr' = rxPtr + 1
    /\ rbne' = FALSE
    /\ rxIE' = FALSE
    /\ rxState' = "READY"
    /\ isr' = "rxCallback"
    /\ UNCHANGED <<task, begins, uen, txRing, txReq, txHw, txHist,
                   rxHead, rxTail, rdr, err, rxHist>>

RxHeadStays == rxHead               \* mutant

RxRoom == Succ(rxHead, RxSize) # rxTail
RxNextHead == Succ(rxHead, RxSize)

\* _rx_complete_irq: serial_getc reads RDATA again, the byte is stored if
\* there is room, and the next one-byte receive is armed.
IsrRxCallback ==
    LET first == rxBuf[rxPtr - 1]
    IN  /\ isr = "rxCallback"
        /\ rbne' = FALSE
        /\ rxBuf' = IF RxRoom THEN [rxBuf EXCEPT ![rxHead] = rdr] ELSE rxBuf
        /\ rxHead' = IF RxRoom THEN RxNextHead ELSE rxHead
        /\ lost' = lost \cup (IF first # rdr THEN {<<first, "reread">>} ELSE {})
                        \cup (IF RxRoom THEN {} ELSE {<<rdr, "full">>})
        /\ ArmReceive(rxHead')
        /\ isr' = "idle"
        /\ UNCHANGED <<task, begins, uen, txRing, txReq, txHw, txHist,
                       rxTail, rdr, err, arrived, delivered>>

TxTailStays == txTail               \* mutant
TxNeverMore(tail) == FALSE          \* mutant

TxNextTail == Succ(txTail, TxSize)
TxMore(tail) == txHead # tail

\* usart_tx_interrupt, or usart_tx_complete_interrupt with _tx_complete_irq:
\* the byte on the line leaves the ring, the next one is sent.
IsrTransmit ==
    /\ isr = "idle"
    /\ ~RxPending
    /\ TxPending
    /\ IF TbePending
       THEN SendByte(txPtr, txCount) /\ UNCHANGED <<txTail, txState>>
       ELSE /\ txTail' = TxNextTail
            /\ IF TxMore(TxNextTail)
               THEN /\ txState' = "BUSY_TX"
                    /\ IF tdr = NoByte
                       THEN SendByte(TxNextTail, 1)
                       ELSE /\ txPtr' = TxNextTail /\ txCount' = 1
                            /\ tbeIE' = TRUE /\ tcIE' = FALSE /\ tc' = FALSE
                            /\ UNCHANGED <<tdr, shift>>
               ELSE /\ txState' = "READY"
                    /\ tcIE' = FALSE /\ tc' = FALSE
                    /\ UNCHANGED <<txPtr, txCount, tdr, shift, tbeIE>>
    /\ UNCHANGED <<task, begins, isr, uen, txBuf, txHead, txHist, rxRing,
                   rxReq, rxHw, rxHist>>

\* The error flags are cleared; a received byte stays for the next interrupt.
IsrError ==
    /\ isr = "idle"
    /\ err /\ rxIE
    /\ ~TxPending
    /\ err' = FALSE
    /\ UNCHANGED <<task, begins, isr, uen, txRing, txReq, txHw, txHist,
                   rxRing, rxReq, rdr, rbne, rxIE, rxHist>>

-----------------------------------------------------------------------------
(* The USART and the line, external to the sources.                          *)

LineLoad ==
    /\ uen /\ tdr # NoByte /\ shift = NoByte
    /\ shift' = tdr
    /\ tdr' = NoByte
    /\ UNCHANGED <<task, begins, isr, uen, txRing, txReq, tc, tbeIE, tcIE,
                   txHist, rxRing, rxReq, rxHw, rxHist>>

\* write() is between making its byte visible and testing tx_state.
WriteWindow == pc \in {"countLoad", "countStore", "check"}

\* A byte leaves.  PromptTask: the task is not held up for as long as a byte
\* takes on the line between making that byte visible and testing tx_state.
LineOut ==
    /\ uen /\ shift # NoByte
    /\ PromptTask => ~(WriteWindow /\ shift = accepted)
    /\ wire' = Append(wire, shift)
    /\ shift' = NoByte
    /\ tc' = (tc \/ tdr = NoByte)
    /\ UNCHANGED <<task, begins, isr, uen, txRing, txReq, tdr, tbeIE, tcIE,
                   accepted, rxRing, rxReq, rxHw, rxHist>>

\* A byte arrives, perhaps with a framing, noise or parity error.  With the
\* last one still unread it is lost to an overrun, which sets an error flag.
LineIn(damaged) ==
    /\ uen
    /\ arrived < MaxRx
    /\ arrived' = arrived + 1
    /\ IF rbne
       THEN /\ lost' = lost \cup {<<arrived + 1, "overrun">>}
            /\ err' = TRUE
            /\ UNCHANGED <<rdr, rbne>>
       ELSE /\ rdr' = arrived + 1 /\ rbne' = TRUE
            /\ err' = (err \/ damaged)
            /\ UNCHANGED lost
    /\ UNCHANGED <<task, begins, isr, uen, txRing, txReq, txHw, txHist,
                   rxRing, rxReq, rxIE, delivered>>

-----------------------------------------------------------------------------
\* The steps of a call under way.
CallStep ==
    \/ WriteSpin \/ WriteStore \/ WritePublish
    \/ WriteCountLoad \/ WriteCountStore
    \/ WriteLeave \/ WriteIdleLine \/ WriteTransmit \/ WriteKick
    \/ FlushDone \/ EndFlushed \/ EndFree \/ ReadAdvance

Isr == IsrReceive \/ IsrRxCallback \/ IsrTransmit \/ IsrError

Line == LineLoad \/ LineOut

Next ==
    \/ \E config \in Configs : Begin(config)
    \/ WriteCall \/ FlushCall \/ EndCall \/ ReadCall
    \/ CallStep
    \/ Isr
    \/ Line
    \/ \E damaged \in BOOLEAN : LineIn(damaged)

\* The task is scheduled again while it is inside a call, a pending interrupt
\* is served, and an enabled USART shifts its byte out.
Fairness == WF_vars(CallStep) /\ WF_vars(Isr) /\ WF_vars(Line)

Spec == Init /\ [][Next]_vars /\ Fairness

-----------------------------------------------------------------------------
(* Properties.                                                               *)

TaskType ==
    /\ pc \in {"idle", "spin", "store", "publish", "countLoad", "countStore",
               "check", "transmit", "kick", "flush", "endFlush", "free",
               "readAdvance"}
    /\ isr \in {"idle", "rxCallback"}
    /\ open \in BOOLEAN /\ uen \in BOOLEAN /\ begins \in Nat

TxHistType == accepted \in Nat /\ wire \in Seq(Nat)

TxType ==
    /\ txBuf \in [0..TxSize-1 -> Nat]
    /\ txHead \in 0..TxSize-1 /\ txTail \in 0..TxSize-1
    /\ txPtr \in 0..TxSize /\ txCount \in Nat /\ count \in Nat
    /\ txState \in {"RESET", "READY", "BUSY_TX"}
    /\ tdr \in Nat /\ shift \in Nat
    /\ tc \in BOOLEAN /\ tbeIE \in BOOLEAN /\ tcIE \in BOOLEAN
    /\ written \in BOOLEAN
    /\ TxHistType

Losses == Nat \X {"end", "reread", "full", "overrun"}

RxHistType == arrived \in Nat /\ delivered \in Seq(Nat) /\ lost \subseteq Losses

RxType ==
    /\ rxBuf \in [0..RxSize-1 -> Nat]
    /\ rxHead \in 0..RxSize-1 /\ rxTail \in 0..RxSize-1
    /\ rxPtr \in 0..RxSize
    /\ rxState \in {"RESET", "READY", "BUSY_RX"}
    /\ rdr \in Nat /\ char \in Nat
    /\ rbne \in BOOLEAN /\ err \in BOOLEAN /\ rxIE \in BOOLEAN
    /\ RxHistType

\* Every variable keeps its type; indices stay inside their buffer.
TypeOK == TaskType /\ TxType /\ RxType

\* The line carries the bytes write() accepted, each once and in order,
\* however write() and the transmit interrupt interleave.
WireInOrder ==
    /\ Len(wire) <= accepted
    /\ \A i \in 1..Len(wire) : wire[i] = i

\* The transmit ring holds exactly the accepted bytes whose transmission has
\* not been confirmed: write() never overwrites one of them.
RingHoldsUnsent ==
    LET n == Used(txHead, txTail, TxSize)
    IN  /\ accepted - n \in {Len(wire), Len(wire) - 1}
        /\ \A k \in 0..n-1 :
               txBuf[Slot(txTail, k, TxSize)] = accepted - n + 1 + k

\* Whenever bytes wait with no transfer under way, a write() call is about to
\* start one: the handler's check of head and write()'s check of tx_state
\* never both miss the other side's update.
NoStall ==
    open /\ txState # "BUSY_TX" /\ txHead # txTail
        => pc \in {"countLoad", "countStore", "check", "transmit"}

\* end() disables the USART only after the last accepted byte is on the line.
EndLosesNothing == [][open /\ ~open' => Len(wire) = accepted]_vars

\* A call of write(), flush(), end() or read() returns.
CallsReturn == pc # "idle" ~> pc = "idle"

\* The port is a bounded FIFO stream (safety and liveness of transmission).
Stream == INSTANCE SerialStream WITH
              Capacity <- TxSize - 1,
              isOpen <- open,
              queue <- [i \in 1..accepted - Len(wire) |-> Len(wire) + i],
              sent <- wire
StreamSpec == Stream!Spec

\* Bytes the receiver holds that are not yet in the ring, oldest first.
Pending ==
    (IF isr = "rxCallback" THEN <<rxBuf[rxPtr - 1]>> ELSE <<>>)
    \o (IF rbne THEN <<rdr>> ELSE <<>>)

Stored == delivered \o RingBytes(rxBuf, rxHead, rxTail, RxSize) \o Pending

\* read() returns bytes in the order they arrived, none twice: the slot the
\* interrupt fills is never one that read() has still to return.
ReceivedInOrder == \A i, j \in 1..Len(Stored) : i < j => Stored[i] < Stored[j]

\* A byte that arrived was read, is waiting, or was lost for a known reason.
EveryByteAccounted ==
    /\ 1..arrived = ToSet(Stored) \cup {l[1] : l \in lost}
    /\ \A l \in lost : l[2] = "full" => l[1] \notin ToSet(Stored)

\* While the port is open the receiver is armed, or the handler is about to
\* arm it again: reception never stops for good.
ReceiverArmed ==
    open => \/ rxIE /\ rxState = "BUSY_RX"
            \/ isr = "rxCallback"

=============================================================================
