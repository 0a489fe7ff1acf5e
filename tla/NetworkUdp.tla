------------------------------ MODULE NetworkUdp ----------------------------
(* NetworkUDP (NetworkUdp.cpp): one object, its socket and its two buffers,  *)
(* used by a sketch that answers what it receives, or by one that copies     *)
(* what it receives into a cbuf and takes it from there.                     *)
(*                                                                           *)
(* Assumed of the sketches: the object is a global one (no constructor sets  *)
(* rx_buffer); write() and endPacket() only follow a beginPacket() that      *)
(* answered 1, and parsePacket() does not come between them: it would send   *)
(* the packet to whoever wrote last.                                         *)
EXTENDS CircularBuffer, SequencesExt

CONSTANTS
    Peers, Group, NoPeer,   \* the addresses: hosts, a multicast group, none
    Lens,       \* lengths of what the peers send and the sketch writes
    RxSize,     \* UDP_RX_BUFFER_SIZE
    TxSize,     \* bytes of tx_buffer
    MaxArrive,  \* bound: datagrams that arrive
    MaxPacket,  \* bound: bytes of a packet the sketch makes
    MaxBegin    \* bound: calls of begin

ASSUME UdpAssumption ==
    /\ Lens \subseteq Nat
    /\ {RxSize, TxSize, MaxArrive, MaxPacket, MaxBegin} \subseteq Nat \ {0}
    /\ Group \notin Peers /\ NoPeer \notin Peers \cup {Group}
    /\ {"more", "last"} \subseteq Byte

VARIABLES
    sock,       \* udp_server is open
    joined,     \* multicast_ip is Group
    remote,     \* remote_ip and remote_port
    tx, txLen,  \* tx_buffer (<<>> for NULL) and tx_buffer_len
    rx, rxLen, rxPos,       \* rx_buf_data and its indexes
    inbox,      \* datagrams that wait in the socket
    arrived, begun,         \* counters for the bounds
    making,     \* history: the packet from beginPacket to endPacket
    current     \* history: the datagram parsePacket took and what was read

udp  == <<sock, joined, remote>>
send == <<tx, txLen, making>>
recv == <<rx, rxLen, rxPos, current>>
net  == <<inbox, arrived>>
vars == <<udp, send, recv, net, begun, bufVars>>

Datagram(p, d) == [peer |-> p, data |-> d]
Payload(n)     == [i \in 1..n |-> IF i = n THEN "last" ELSE "more"]
Blank(n)       == [i \in 1..n |-> "more"]

\* open: between beginPacket and endPacket; to and data: what was asked for;
\* out: the datagrams it became; lost: one could not be sent.
NotMaking == [open |-> FALSE, to |-> NoPeer, data |-> <<>>, out |-> <<>>, lost |-> FALSE]
NoCurrent == [from |-> NoPeer, data |-> <<>>, seen |-> <<>>]

Init ==
    /\ BufInit
    /\ style = "none" => mem = [i \in DOMAIN mem |-> "more"]
    /\ sock = FALSE /\ joined = FALSE /\ remote = NoPeer
    /\ tx = <<>> /\ txLen = 0 /\ making = NotMaking
    /\ rx = <<>> /\ rxLen = 0 /\ rxPos = 0 /\ current = NoCurrent
    /\ inbox = <<>> /\ arrived = 0 /\ begun = 0

-----------------------------------------------------------------------------
(* Opening and closing.                                                      *)

\* The indexes are only reset with a buffer; without one they are 0.
Stopped ==
    /\ tx' = <<>> /\ txLen' = 0
    /\ rx' = <<>> /\ rxLen' = 0 /\ rxPos' = 0
    /\ sock' = FALSE /\ joined' = FALSE /\ inbox' = <<>>
    /\ making' = NotMaking /\ current' = NoCurrent

Stop == /\ Stopped
        /\ UNCHANGED <<remote, arrived, begun, bufVars>>

\* What begin() makes when nothing fails.
Opened(group) ==
    /\ tx' = Blank(TxSize) /\ txLen' = 0
    /\ rx' = Blank(RxSize) /\ rxLen' = 0 /\ rxPos' = 0
    /\ sock' = TRUE /\ joined' = group /\ inbox' = <<>>
    /\ making' = NotMaking /\ current' = NoCurrent

\* When memory for rx_buf_data is missing, tx_buffer stays behind.
NoMemory ==
    /\ tx' = Blank(TxSize) /\ txLen' = 0
    /\ rx' = <<>> /\ rxLen' = 0 /\ rxPos' = 0
    /\ sock' = FALSE /\ joined' = FALSE /\ inbox' = <<>>
    /\ making' = NotMaking /\ current' = NoCurrent

\* begin: whatever else fails undoes it.
Begin ==
    /\ begun < MaxBegin /\ begun' = begun + 1
    /\ Opened(FALSE) \/ NoMemory \/ Stopped
    /\ UNCHANGED <<remote, arrived, bufVars>>

\* For an address that is no group it answers 0 and leaves the socket open.
BeginMulticast ==
    /\ begun < MaxBegin /\ begun' = begun + 1
    /\ Opened(TRUE) \/ Opened(FALSE) \/ NoMemory \/ Stopped
    /\ UNCHANGED <<remote, arrived, bufVars>>

-----------------------------------------------------------------------------
(* Sending.                                                                  *)

\* beginPacket(): a socket made here is bound to a port of lwIP's choice.
Prepared(to) ==
    /\ to # NoPeer
    /\ tx' = IF tx = <<>> THEN Blank(TxSize) ELSE tx
    /\ txLen' = 0
    /\ making' = [NotMaking EXCEPT !.open = TRUE, !.to = to]
    /\ sock' = TRUE

\* No port to send to, no memory or no socket.
Unprepared(to) ==
    /\ \/ to = NoPeer /\ UNCHANGED <<tx, txLen>>
       \/ tx = <<>> /\ UNCHANGED <<tx, txLen>>
       \/ ~sock /\ tx' = Blank(TxSize) /\ txLen' = 0
    /\ making' = NotMaking
    /\ UNCHANGED sock

\* beginPacket(ip, port); with the sender of the last datagram beginPacket();
\* with the group beginMulticastPacket().
BeginPacket(to) ==
    /\ style = "none" /\ ~making.open
    /\ to \in Peers \/ to = remote \/ (joined /\ to = Group)
    /\ remote' = to
    /\ Prepared(to) \/ Unprepared(to)
    /\ UNCHANGED <<joined, recv, net, begun, bufVars>>

\* sendto: it may fail.
Sent(data) ==
    {[making EXCEPT !.out = Append(@, Datagram(remote, data))],
     [making EXCEPT !.lost = TRUE]}

TxData == SubSeq(tx, 1, txLen)

\* write() of one byte; a full buffer is sent first, and emptied whether that
\* worked or not.
Write(b) ==
    /\ making.open
    /\ Len(making.data) < MaxPacket
    /\ LET full == txLen = TxSize
           at   == IF full THEN 0 ELSE txLen
       IN  /\ making' \in {[m EXCEPT !.data = Append(@, b)] :
                             m \in IF full THEN Sent(TxData) ELSE {making}}
           /\ tx' = [tx EXCEPT ![at + 1] = b]
           /\ txLen' = at + 1
    /\ UNCHANGED <<udp, recv, net, begun, bufVars>>

EndPacket ==
    /\ making.open
    /\ making' \in {[m EXCEPT !.open = FALSE] : m \in Sent(TxData)}
    /\ UNCHANGED <<udp, tx, txLen, recv, net, begun, bufVars>>

-----------------------------------------------------------------------------
(* Receiving.                                                                *)

\* A datagram is lost, or arrives here.
Arrive(p, n) ==
    /\ sock /\ arrived < MaxArrive
    /\ arrived' = arrived + 1
    /\ inbox' = Append(inbox, Datagram(p, Payload(n)))
    /\ UNCHANGED <<udp, send, recv, begun, bufVars>>

Unread == rxLen - rxPos

\* FIONREAD: whether any bytes wait, in whichever datagram.  (With the option
\* of lwIP that makes it the size of the first one, an empty datagram would
\* stay at the head, and block all others.)
Fionread == \E i \in DOMAIN inbox : inbox[i].data # <<>>

PositionKept(len) == rxLen' = len /\ UNCHANGED rxPos            \* mutant
Received(len) == rxLen' = len /\ rxPos' = 0

UnreadOrRead == rx # <<>> /\ rxLen >= rxPos                     \* mutant
HasUnread == rx # <<>> /\ rxLen > rxPos

\* parsePacket: recvfrom takes the oldest datagram and cuts it at RxSize.  An
\* empty one is answered like none.  Memory may be missing.
ParsePacket ==
    /\ ~making.open /\ sock
    /\ ~HasUnread /\ Fionread
    /\ LET d   == Head(inbox)
           len == Lesser(Len(d.data), RxSize)
           old == IF rx = <<>> THEN Blank(RxSize) ELSE rx
       IN  /\ rx' = [i \in 1..RxSize |-> IF i <= len THEN d.data[i] ELSE old[i]]
           /\ Received(len)
           /\ remote' = d.peer
           /\ current' = [from |-> d.peer, data |-> SubSeq(d.data, 1, len), seen |-> <<>>]
           /\ inbox' = Tail(inbox)
    /\ UNCHANGED <<sock, joined, send, arrived, begun, bufVars>>

\* read: up to n bytes of the datagram.
Taken(n) == SubSeq(rx, rxPos + 1, rxPos + n)

Advance(n) ==
    /\ rxPos' = rxPos + n
    /\ current' = [current EXCEPT !.seen = @ \o Taken(n)]
    /\ UNCHANGED <<rx, rxLen>>

\* read(buffer, len), by a sketch that answers.
ReadSome(n) ==
    /\ style = "none" /\ rx # <<>>
    /\ n \in 1..Unread
    /\ Advance(n)
    /\ UNCHANGED <<udp, send, net, begun, bufVars>>

\* clear() or flush(), and readString() once it has read.
ClearRx ==
    /\ style = "none"
    /\ rxLen' = 0 /\ rxPos' = 0
    /\ current' = NoCurrent
    /\ UNCHANGED <<rx, udp, send, net, begun, bufVars>>

\* A sketch with a cbuf reads what that has room for, and writes it there.
CopyByte ==
    /\ rx # <<>> /\ Unread > 0 /\ Room > 0
    /\ Advance(1)
    /\ WriteByte(rx[rxPos + 1])
    /\ UNCHANGED <<udp, send, net, begun>>

CopyBlock(n) ==
    /\ rx # <<>> /\ n \in 1..Unread /\ n <= Room
    /\ Advance(n)
    /\ WriteBlock(Taken(n))
    /\ UNCHANGED <<udp, send, net, begun>>

\* The other calls of the cbuf.
UseBuffer ==
    /\ \/ ReadByte \/ FlushBuffer
       \/ \E n \in 1..MaxData : RemoveBytes(n) \/ ReadBlock(n)
       \/ \E n \in 1..MaxSize : ResizeAdd(n)
    /\ UNCHANGED <<udp, send, recv, net, begun>>

Receive == ParsePacket \/ CopyByte \/ (\E n \in 1..RxSize : CopyBlock(n) \/ ReadSome(n))
Consume == (ReadByte \/ \E n \in 1..MaxData : ReadBlock(n))
           /\ UNCHANGED <<udp, send, recv, net, begun>>

Next ==
    \/ Stop \/ Begin \/ BeginMulticast
    \/ \E to \in Peers \cup {Group, NoPeer} : BeginPacket(to)
    \/ \E b \in Byte : Write(b)
    \/ EndPacket
    \/ \E p \in Peers, n \in Lens : Arrive(p, n)
    \/ Receive \/ ClearRx \/ UseBuffer

\* The sketch's loop goes round: it ends the packets it begins, asks for
\* datagrams and reads them in each round, whatever else it does there, and
\* takes what is in its cbuf.
Spec == Init /\ [][Next]_vars
             /\ WF_vars(EndPacket) /\ SF_vars(Receive) /\ SF_vars(Consume)

-----------------------------------------------------------------------------
(* Properties.                                                               *)

\* A packet goes out as it was written: all bytes, in order, none left over
\* from an earlier packet, to the address of beginPacket(), in datagrams of
\* which only the last is not full.
SentAsWritten ==
    LET out == making.out
        all == FlattenSeq([i \in DOMAIN out |-> out[i].data])
    IN  making.to # NoPeer /\ ~making.lost =>
            /\ making.data = all \o IF making.open THEN TxData ELSE <<>>
            /\ \A i \in DOMAIN out : out[i].peer = making.to
            /\ \A i \in DOMAIN out : Len(out[i].data) < TxSize =>
                  i = Len(out) /\ ~making.open

\* What is read, with what is still to be read, is the datagram that
\* parsePacket() took, from its first byte and up to RxSize, and nothing of
\* another one.
ReadAsReceived ==
    IF current = NoCurrent THEN Unread = 0
    ELSE current.data = current.seen \o SubSeq(rx, rxPos + 1, rxLen)

\* While the sketch goes on asking and reading, no datagram that is followed
\* by one with data, or has data itself, waits for ever.
DatagramsTaken == <>[](~sock \/ ~Fionread)

\* No byte of a packet is lost, added or moved, in either direction.
PacketsIntact == SentAsWritten /\ ReadAsReceived
=============================================================================
