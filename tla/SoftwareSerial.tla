---------------------------- MODULE SoftwareSerial --------------------------
(* SoftwareSerial.cpp: ports made of two pins and one timer, shared by all   *)
(* of them.  The timer interrupts OVERSAMPLE times a bit; each interrupt     *)
(* (Tick) lets the listening port sample its line and the transmitting port  *)
(* set its own.  Between two ticks the sketch makes a step of a call.        *)
(*                                                                           *)
(* Time is counted in ticks.  The peer of a port sends frames at the port's  *)
(* speed, with the first data bit a tick too long, too short or right, and   *)
(* reads the port's line in the middle of each bit.  A peer only sends while its port  *)
(* listens at their speed, and breaks off when it no longer does.            *)
(*                                                                           *)
(* Assumed of the sketch while Careful is TRUE: after a port has written, no *)
(* other port writes and nobody listens or stops listening; those calls      *)
(* would wait for ever (send() gives the transmitter back only to a waiting  *)
(* write() of the same port).                                                *)
EXTENDS Integers, Sequences, FiniteSets

CONSTANTS
    Ports, NoPort,
    Inverse,        \* the ports with inverse_logic
    Speeds,         \* the speeds the sketch uses
    Bytes,          \* the bytes sent and received
    RingSize,       \* _SS_MAX_RX_BUFF
    Careful,        \* see above
    MaxCalls,       \* bound: calls of begin, listen, stopListening, end and flush
    MaxFrames       \* bound: frames written and frames the peers send

ASSUME SoftwareSerialAssumption ==
    /\ NoPort \notin Ports /\ Inverse \subseteq Ports
    /\ Speeds \subseteq Nat \ {0} /\ Bytes \subseteq 0..255
    /\ RingSize \in Nat /\ RingSize >= 2
    /\ Careful \in BOOLEAN

VARIABLES
    speed,      \* cur_speed; 0: the timer is stopped
    listener,   \* active_listener
    in, out,    \* active_in, active_out
    rxTick, rxBit, rxBuf,       \* rx_tick_cnt, rx_bit_cnt, rx_buffer
    txTick, txBit, txBuf,       \* tx_tick_cnt, tx_bit_cnt, tx_buffer
    port,       \* the fields of each port
    level,      \* the transmit pin of each port
    pc,         \* where the sketch stands
    calls, frames,              \* counters for the bounds
    peer,       \* the frame each peer is sending
    reader,     \* what each peer makes of the port's line
    written,    \* history: bytes of the write calls that returned
    unread      \* history: bytes stored and neither read nor flushed

timer == <<speed, listener, in, out>>
rx    == <<rxTick, rxBit, rxBuf>>
tx    == <<txTick, txBit, txBuf, level>>
count == <<calls, frames>>
outside == <<peer, reader>>
vars  == <<timer, rx, tx, port, pc, count, outside, written, unread>>

OVERSAMPLE == 3

Bit(b, i)   == (b \div 2^i) % 2
Frame(b)    == <<0>> \o [i \in 1..8 |-> Bit(b, i - 1)] \o <<1>>
Invert(p, v) == IF p \in Inverse THEN 1 - v ELSE v
Value(bits) == LET f[i \in 0..8] == IF i = 0 THEN 0 ELSE f[i - 1] + bits[i] * 2^(i - 1) IN f[8]

NoFrame  == [byte |-> -1, at |-> 0, slip |-> 0, whole |-> FALSE, took |-> <<>>, lost |-> FALSE]
Waiting  == [at |-> -1, bits |-> <<>>, got |-> <<>>, broken |-> FALSE]
Idle     == [call |-> "none", port |-> NoPort, byte |-> -1]
NewPort  == [speed |-> 0, pending |-> FALSE, overflow |-> FALSE, head |-> 0, tail |-> 0,
             buffer |-> [i \in 0..RingSize - 1 |-> 0]]

Init ==
    /\ speed = 0 /\ listener = NoPort /\ in = NoPort /\ out = NoPort
    /\ rxTick = 0 /\ rxBit = -1 /\ rxBuf = <<>>
    /\ txTick = 0 /\ txBit = 0 /\ txBuf = <<>>
    /\ port = [p \in Ports |-> NewPort]
    /\ level = [p \in Ports |-> Invert(p, 1)]
    /\ pc = Idle
    /\ calls = 0 /\ frames = 0
    /\ peer = [p \in Ports |-> NoFrame]
    /\ reader = [p \in Ports |-> Waiting]
    /\ written = [p \in Ports |-> <<>>]
    /\ unread = [p \in Ports |-> <<>>]

-----------------------------------------------------------------------------
(* The peers.                                                                *)

\* The level a peer's frame has on the line, at + 1 ticks after its start.
Position(f) == IF f.at >= 5 THEN f.at - f.slip ELSE f.at
LineLevel(p) ==
    Invert(p, IF peer[p].byte = -1 THEN 1 ELSE Frame(peer[p].byte)[Position(peer[p]) \div 3 + 1])

Hears(p) == in = p /\ speed = port[p].speed

\* whole: the port waits for a start bit when the frame begins.
PeerStarts(p) ==
    /\ port[p].speed # 0 /\ Hears(p) /\ peer[p].byte = -1
    /\ frames < MaxFrames /\ frames' = frames + 1
    /\ \E b \in Bytes, slip \in {-1, 0, 1} :
         peer' = [peer EXCEPT ![p] = [NoFrame EXCEPT !.byte = b, !.slip = slip, !.whole = rxBit = -1]]
    /\ UNCHANGED <<timer, rx, tx, port, pc, calls, reader, written, unread>>

\* A tick later, for a frame that took what the tick stored.
Older(p) == [peer[p] EXCEPT !.at = @ + 1]
Ends(p)  == peer[p].byte # -1 /\ Position(Older(p)) >= 30

BreakOff ==
    peer' = [p \in Ports |-> IF in' = p /\ speed' = port[p].speed THEN peer[p] ELSE NoFrame]

\* The peer of the writing port samples each bit in its middle, which a speed
\* other than its own spoils.
Samples(p, v) ==
    LET r == reader[p] bit == Invert(p, v) IN
    CASE r.at = -1 -> IF bit = 0 THEN [r EXCEPT !.at = 0, !.bits = <<>>] ELSE r
      [] r.at # -1 /\ r.at % 3 # 0 -> [r EXCEPT !.at = @ + 1]
      [] r.at % 3 = 0 /\ Len(r.bits) < 9 -> [r EXCEPT !.at = @ + 1, !.bits = Append(@, bit)]
      [] OTHER -> [r EXCEPT !.at = -1, !.bits = <<>>,
                            !.got = IF bit = 1 THEN Append(@, Value(Tail(r.bits))) ELSE @,
                            !.broken = @ \/ bit = 0]

Reads(v) ==
    reader' = [p \in Ports |->
        IF v[p] # Invert(p, 1) \/ reader[p].at # -1
        THEN IF speed = port[p].speed THEN Samples(p, v[p]) ELSE [reader[p] EXCEPT !.broken = TRUE]
        ELSE reader[p]]

-----------------------------------------------------------------------------
(* The interrupt.                                                            *)

\* What recv() leaves in the port, and the byte it stores, if any.
Store(p) ==
    LET next == (port[p].tail + 1) % RingSize IN
    IF next # port[p].head
    THEN /\ port' = [port EXCEPT ![p].buffer[port[p].tail] = Value(rxBuf), ![p].tail = next]
         /\ unread' = [unread EXCEPT ![p] = Append(@, Value(rxBuf))]
    ELSE /\ port' = [port EXCEPT ![p].overflow = TRUE]
         /\ UNCHANGED unread

FirstWaitEarly == OVERSAMPLE - 1                                \* mutant

\* From the start bit to the middle of the first data bit.
FirstWait == OVERSAMPLE + 1

Recv(p) ==
    LET bit == Invert(p, LineLevel(p)) IN
    IF rxTick > 1 THEN rxTick' = rxTick - 1 /\ UNCHANGED <<rxBit, rxBuf, port, unread>>
    ELSE IF rxBit = -1 THEN
        /\ rxTick' = (IF bit = 0 THEN FirstWait ELSE 1)
        /\ rxBit' = (IF bit = 0 THEN 0 ELSE -1)
        /\ rxBuf' = (IF bit = 0 THEN <<>> ELSE rxBuf)
        /\ UNCHANGED <<port, unread>>
    ELSE IF rxBit >= 8 THEN
        /\ rxTick' = 1 /\ rxBit' = -1 /\ rxBuf' = rxBuf
        /\ IF bit = 1 THEN Store(p) ELSE UNCHANGED <<port, unread>>
    ELSE
        /\ rxTick' = OVERSAMPLE /\ rxBit' = rxBit + 1 /\ rxBuf' = Append(rxBuf, bit)
        /\ UNCHANGED <<port, unread>>

SendEndsEarly(p) ==                                             \* mutant
    IF txTick > 1 THEN txTick' = txTick - 1 /\ UNCHANGED <<txBit, txBuf, level, out>>
    ELSE IF txBit < 9 THEN
        /\ level' = [level EXCEPT ![p] = Invert(p, Head(txBuf))]
        /\ txBuf' = Tail(txBuf) /\ txTick' = OVERSAMPLE /\ txBit' = txBit + 1
        /\ UNCHANGED out
    ELSE
        /\ txTick' = 1 /\ UNCHANGED <<txBit, txBuf, level>>
        /\ out' = IF port[p].pending THEN NoPort ELSE out

SendNeverFree(p) ==                                             \* mutant
    IF txTick > 1 THEN txTick' = txTick - 1 /\ UNCHANGED <<txBit, txBuf, level, out>>
    ELSE IF txBit < 10 THEN
        /\ level' = [level EXCEPT ![p] = Invert(p, Head(txBuf))]
        /\ txBuf' = Tail(txBuf) /\ txTick' = OVERSAMPLE /\ txBit' = txBit + 1
        /\ UNCHANGED out
    ELSE
        /\ txTick' = OVERSAMPLE /\ UNCHANGED <<txBit, txBuf, level>>
        /\ out' = IF port[p].pending /\ txBit < 10 THEN NoPort ELSE out

\* When the frame is out, the transmitter is free only for a pending write of
\* this very port.  (tx_bit_cnt counts on; the model
\* stops at 10.)
Send(p) ==
    IF txTick > 1 THEN txTick' = txTick - 1 /\ UNCHANGED <<txBit, txBuf, level, out>>
    ELSE IF txBit < 10 THEN
        /\ level' = [level EXCEPT ![p] = Invert(p, Head(txBuf))]
        /\ txBuf' = Tail(txBuf) /\ txTick' = OVERSAMPLE /\ txBit' = txBit + 1
        /\ UNCHANGED out
    ELSE
        /\ txTick' = 1 /\ UNCHANGED <<txBit, txBuf, level>>
        /\ out' = IF port[p].pending THEN NoPort ELSE out

Stored(p)  == SubSeq(unread'[p], Len(unread[p]) + 1, Len(unread'[p]))
Dropped(p) == rxBit = 8 /\ rxBit' = -1 /\ Stored(p) = <<>>

\* handleInterrupt, and what the line saw of it.
Tick ==
    /\ speed # 0
    /\ IF in # NoPort THEN Recv(in) ELSE UNCHANGED <<rx, port, unread>>
    /\ IF out # NoPort THEN Send(out) ELSE UNCHANGED <<txTick, txBit, txBuf, level, out>>
    /\ Reads(level')
    /\ peer' = [p \in Ports |->
          IF peer[p].byte = -1 \/ Ends(p) THEN NoFrame
          ELSE [Older(p) EXCEPT !.took = @ \o Stored(p), !.lost = @ \/ Dropped(p)]]
    /\ UNCHANGED <<speed, listener, in, pc, count, written>>

-----------------------------------------------------------------------------
(* The calls.  setSpeed() stops the timer and starts it with another period. *)

Enter(call, p, b) == pc = Idle /\ pc' = [call |-> call, port |-> p, byte |-> b]

Bounded == calls < MaxCalls /\ calls' = calls + 1

\* begin(): the speed, the idle level, then listen(); for the port that
\* listens already the timer keeps its speed.
Begin(p) ==
    /\ Bounded /\ (Careful => out = NoPort)
    /\ \E s \in Speeds : port' = [port EXCEPT ![p].speed = s]
    /\ peer[p].byte = -1
    /\ level' = [level EXCEPT ![p] = Invert(p, 1)]
    /\ IF listener = p THEN pc = Idle /\ UNCHANGED pc ELSE Enter("listen", p, -1)
    /\ UNCHANGED <<timer, rx, txTick, txBit, txBuf, frames, outside, written, unread>>

Listen(p) ==
    /\ Bounded /\ (Careful => out = NoPort) /\ port[p].speed # 0
    /\ listener # p /\ Enter("listen", p, -1)
    /\ UNCHANGED <<timer, rx, tx, port, frames, outside, written, unread>>

\* while(active_out); then the old listener stops, which stops the timer.
ListenStop ==
    /\ pc.call = "listen" /\ out = NoPort
    /\ pc' = [pc EXCEPT !.call = "arm"]
    /\ listener' = NoPort /\ in' = NoPort /\ speed' = 0 /\ BreakOff
    /\ UNCHANGED <<out, rx, tx, port, count, reader, written, unread>>

ListenArm ==
    /\ pc.call = "arm" /\ pc' = Idle
    /\ rxTick' = 1 /\ rxBit' = -1 /\ UNCHANGED rxBuf
    /\ speed' = port[pc.port].speed
    /\ listener' = pc.port /\ in' = pc.port
    /\ UNCHANGED <<out, tx, port, count, outside, written, unread>>

\* stopListening(), end() and the destructor.
StopListening(p) ==
    /\ Bounded /\ (Careful => out = NoPort)
    /\ listener = p /\ Enter("stop", p, -1)
    /\ UNCHANGED <<timer, rx, tx, port, frames, outside, written, unread>>

Stop ==
    /\ pc.call = "stop" /\ out = NoPort
    /\ pc' = Idle
    /\ listener' = NoPort /\ in' = NoPort /\ speed' = 0 /\ BreakOff
    /\ UNCHANGED <<out, rx, tx, port, count, reader, written, unread>>

\* write(): pending, so that the interrupt gives the transmitter back.
Write(p) ==
    /\ frames < MaxFrames /\ frames' = frames + 1
    /\ port[p].speed # 0 /\ (Careful => out \in {NoPort, p})
    /\ \E b \in Bytes : Enter("write", p, b)
    /\ port' = [port EXCEPT ![p].pending = TRUE]
    /\ UNCHANGED <<timer, rx, tx, calls, outside, written, unread>>

\* while(active_out); then the frame, and the timer at this port's speed.
WriteLoad ==
    /\ pc.call = "write" /\ out = NoPort
    /\ pc' = [pc EXCEPT !.call = "go"]
    /\ txBuf' = Frame(pc.byte) /\ txBit' = 0 /\ txTick' = OVERSAMPLE
    /\ speed' = port[pc.port].speed /\ in' = in /\ BreakOff
    /\ UNCHANGED <<listener, out, level, rx, port, count, reader, written, unread>>

WriteGo ==
    /\ pc.call = "go" /\ pc' = Idle
    /\ port' = [port EXCEPT ![pc.port].pending = FALSE]
    /\ out' = pc.port
    /\ written' = [written EXCEPT ![pc.port] = Append(@, pc.byte)]
    /\ UNCHANGED <<speed, listener, in, rx, tx, count, outside, unread>>

Available(p) == (port[p].tail + RingSize - port[p].head) % RingSize

\* A history keeps what read() must return: the oldest byte stored.
Read(p) ==
    /\ pc = Idle /\ port[p].head # port[p].tail
    /\ port' = [port EXCEPT ![p].head = (@ + 1) % RingSize]
    /\ unread' = [unread EXCEPT ![p] = Tail(@)]
    /\ UNCHANGED <<timer, rx, tx, pc, count, outside, written>>

\* With interrupts off.
Flush(p) ==
    /\ pc = Idle /\ Bounded
    /\ port' = [port EXCEPT ![p].head = 0, ![p].tail = 0]
    /\ unread' = [unread EXCEPT ![p] = <<>>]
    /\ UNCHANGED <<timer, rx, tx, pc, frames, outside, written>>

-----------------------------------------------------------------------------
Sketch(p) == Begin(p) \/ Listen(p) \/ StopListening(p) \/ Write(p) \/ Read(p) \/ Flush(p)

Go == ListenStop \/ ListenArm \/ Stop \/ WriteLoad \/ WriteGo

Next == Tick \/ Go \/ \E p \in Ports : Sketch(p) \/ PeerStarts(p)

\* The timer runs, and so does the sketch when its wait is over.
Spec == Init /\ [][Next]_vars /\ WF_vars(Tick) /\ WF_vars(Go)

-----------------------------------------------------------------------------
(* Properties.                                                               *)

\* The peer of a port reads exactly the bytes that were written, in order,
\* each in a frame at the port's speed, whatever is received meanwhile and
\* whichever port sets the timer (SoftwareSerial.cpp:156-177, 220-237).
SentAsWritten ==
    \A p \in Ports :
        /\ ~reader[p].broken
        /\ reader[p].got = SubSeq(written[p], 1, Len(reader[p].got))

\* A frame that the port heard from its start to its end was stored once, as
\* it was sent, or found the buffer full (SoftwareSerial.cpp:274-315).
HeardIsStored ==
    [][\A p \in Ports : (Ends(p) /\ peer[p].whole /\ peer'[p] = NoFrame /\ Hears(p)') =>
         \/ peer[p].took \o Stored(p) = <<peer[p].byte>>
         \/ (peer[p].lost \/ Dropped(p)) /\ port'[p].overflow]_vars

\* The ring holds the bytes that were stored and not read, oldest first
\* (SoftwareSerial.cpp:240-263, 295-304).
RingHoldsUnread ==
    \A p \in Ports :
        /\ Len(unread[p]) = Available(p)
        /\ \A i \in 1..Len(unread[p]) :
             unread[p][i] = port[p].buffer[(port[p].head + i - 1) % RingSize]

\* Every call returns (SoftwareSerial.cpp:128, 146, 223).
CallsReturn == (pc # Idle) ~> (pc = Idle)

\* What was heard can be read, in order (SoftwareSerial.cpp:240-315).
HeardCanBeRead == HeardIsStored /\ []RingHoldsUnread
=============================================================================
