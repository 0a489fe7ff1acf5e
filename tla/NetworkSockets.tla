---------------------------- MODULE NetworkSockets ---------------------------
(* NetworkClient and NetworkServer: clients of a sketch that share sockets    *)
(* and receive buffers by copying, and a server that accepts them.  lwIP is   *)
(* external: it gives the lowest free descriptor, delivers the bytes of a     *)
(* connection in order, and any call to it may fail or have nothing yet.      *)
(*                                                                           *)
(* Assumed, with Tidy: a copy is not used once another copy is stopped; what  *)
(* hasClient() took is accepted before end(); bind() and listen() work, and   *)
(* the options of an accepted socket can be set.                              *)
EXTENDS SequencesExt

CONSTANTS
    Clients,        \* the NetworkClient objects
    Callers,        \* bound: those the sketch connects with,
    Takers,         \* and those it accepts into
    Descriptors,    \* the number of sockets lwIP has
    BufferSize,         \* of a receive buffer (1436 in the code)
    ReadLens,       \* lengths of read() that are tried
    MaxConnections, \* bound: connections made
    MaxTraffic,     \* bound: bytes on those that are held, both ways
    Tidy            \* the assumption above

ASSUME SocketAssumption ==
    /\ Callers \union Takers \subseteq Clients
    /\ {Descriptors, BufferSize, MaxConnections, MaxTraffic} \subseteq Nat /\ BufferSize > 0
    /\ ReadLens \subseteq Nat \ {0} /\ Tidy \in BOOLEAN

VARIABLES
    client,     \* _sockfd, _connected and the number of what it shares with copies
    shared,     \* per connection: the socket handle and the receive buffer
    server,     \* sockfd, _accepted_sockfd, _listening
    sockets,    \* the open descriptors: the connection of each, or LISTENER
    traffic     \* per connection: bytes received from lwIP, history: bytes that
                \* left the buffer, bytes written as the sketch knows, and sent

socketVars == <<client, shared, server, sockets, traffic>>

LISTENER == 0
None == 0
Made == DOMAIN traffic
Open == DOMAIN sockets

Unconnected == [fd |-> -1, connected |-> FALSE, share |-> None]
On(fd, k) == [fd |-> fd, connected |-> TRUE, share |-> k]
Share(fd) == [fd |-> fd, rxfd |-> fd, allocated |-> FALSE, data |-> <<>>, pos |-> 0, failed |-> FALSE]
Released == [Share(-1) EXCEPT !.failed = TRUE]
Silent == [taken |-> 0, passed |-> <<>>, written |-> 0, sent |-> <<>>]

SocketInit ==
    /\ client = [c \in Clients |-> Unconnected]
    /\ shared = <<>> /\ traffic = <<>>
    /\ server = [fd |-> -1, accepted |-> -1, listening |-> FALSE]
    /\ sockets = <<>>

-----------------------------------------------------------------------------
(* Descriptors, and what becomes of what no client holds any more.           *)

FreeFds == (0..Descriptors - 1) \ Open
NextFd == CHOOSE fd \in FreeFds : \A g \in FreeFds : fd <= g
Opening(open, fd, k) == [g \in DOMAIN open \union {fd} |-> IF g = fd THEN k ELSE open[g]]
Closing(open, fds) == [g \in DOMAIN open \ fds |-> open[g]]

HandleKept(share, held) == share                                \* mutant

\* ~NetworkClientSocketHandle and ~NetworkClientRxBuffer, with the last holder.
Unheld(share, held) == IF held THEN share ELSE Released

\* The clients are now cl, what they share sh, the descriptors open.
Assign(cl, sh, open, lines) ==
    LET left   == [k \in DOMAIN sh |-> Unheld(sh[k], \E c \in Clients : cl[c].share = k)]
        closed == {sh[k].fd : k \in {j \in DOMAIN sh : left[j].fd # sh[j].fd}}
    IN  /\ client' = cl /\ shared' = left
        /\ sockets' = Closing(open, closed)
        /\ traffic' = [k \in DOMAIN lines |-> IF left[k] = Released THEN Silent ELSE lines[k]]

\* stop(), with the buffers as in sh and the traffic of lines.
AfterStop(c, sh, lines) ==
    LET k == client[c].share
    IN  Assign([client EXCEPT ![c] = Unconnected],
               IF k = None THEN sh ELSE [sh EXCEPT ![k].fd = -1],
               IF k = None THEN sockets ELSE Closing(sockets, {sh[k].fd}),
               lines)

\* Another copy of this client was stopped.
Stale(c) == client[c].share # None /\ shared[client[c].share].fd = -1
Uses(c) == Tidy => ~Stale(c)

-----------------------------------------------------------------------------
(* NetworkClient: connections and copies.                                    *)

\* connect() by address or name.  What fails closes the new socket again.
Connect(c) ==
    LET k == Len(traffic) + 1
    IN  /\ FreeFds # {} /\ k <= MaxConnections
        /\ Assign([client EXCEPT ![c] = On(NextFd, k)], Append(shared, Share(NextFd)),
                  Opening(sockets, NextFd, k), Append(traffic, Silent))
        /\ UNCHANGED server

CopyAssign(c, other) ==
    /\ c # other /\ Uses(other)
    /\ Assign([client EXCEPT ![c] = client[other]], shared, sockets, traffic)
    /\ UNCHANGED server

MoveAssign(c, other) ==
    /\ c # other /\ Uses(other)
    /\ Assign([client EXCEPT ![c] = client[other], ![other] = Unconnected], shared, sockets, traffic)
    /\ UNCHANGED server

\* stop(), and the destructor.
StopClient(c) == AfterStop(c, shared, traffic) /\ UNCHANGED server

\* After the peer has closed, recv() gives 0 and errno is what it was.
Connected(c) ==
    /\ client[c].connected /\ Uses(c)
    /\ client' = [client EXCEPT ![c].connected = FALSE]
    /\ UNCHANGED <<shared, server, sockets, traffic>>

-----------------------------------------------------------------------------
(* NetworkClientRxBuffer.  A state of it is its part of shared, with the part *)
(* of traffic of the connection k that its descriptor stands for.            *)

Filled(r) == Len(r.data)
Line(r) == IF r.rxfd \in Open THEN sockets[r.rxfd] ELSE LISTENER
Arriving(r, n) == [i \in 1..n |-> <<Line(r), r.taken + i>>]
Failed(r) == [r EXCEPT !.failed = TRUE, !.got = 0]

\* fillBuffer(): the outcomes.  got is what it returns.
Fills(r) ==
    LET ready == IF r.pos = Filled(r)
                 THEN [r EXCEPT !.allocated = TRUE, !.got = 0, !.data = <<>>, !.pos = 0]
                 ELSE [r EXCEPT !.allocated = TRUE, !.got = 0]
        room  == BufferSize - Filled(ready)
        coming == IF Line(r) = LISTENER THEN 0 ELSE r.room
        amounts == {n \in 1..coming : n <= room}
    IN  (IF r.allocated THEN {} ELSE {Failed(r)})
        \union {ready}
        \union (IF room = 0 THEN {} ELSE {Failed(ready)})
        \union {[ready EXCEPT !.data = @ \o Arriving(r, n), !.taken = @ + n,
                              !.room = @ - n, !.got = n] : n \in amounts}

\* n bytes leave the buffer at _pos.
Copied(r, n) ==
    [r EXCEPT !.pos = @ + n, !.passed = @ \o SubSeq(r.data, r.pos + 1, r.pos + n)]

RECURSIVE ReadOn(_, _)
ReadOn(r, left) ==
    IF left = 0 THEN {r}
    ELSE UNION {IF f.got = 0 THEN {f}
                ELSE LET n == IF Filled(f) - f.pos > left THEN left ELSE Filled(f) - f.pos
                     IN  ReadOn(Copied(f, n), left - n) : f \in Fills(r)}

ReadHere(r, len) ==
    LET a == Filled(r) - r.pos
    IN  IF len <= a THEN {Copied(r, len)}
        ELSE IF len - a > BufferSize - Filled(r) THEN ReadOn(Copied(r, a), len - a)
        ELSE UNION {IF f.got >= len - a THEN {Copied(f, len)}
                    ELSE ReadOn(Copied(f, a), len - a) : f \in Fills(r)}

Reads(r, len) ==
    IF r.pos < Filled(r) THEN ReadHere(r, len)
    ELSE UNION {IF f.got = 0 THEN {f} ELSE ReadHere(f, len) : f \in Fills(r)}

Peeks(r) == IF r.pos < Filled(r) THEN {r} ELSE Fills(r)

\* FIONREAD may fail.
Availables(r) == {r, Failed(r)}

Emptied(r) == [Copied(r, Filled(r) - r.pos) EXCEPT !.data = <<>>, !.pos = 0]

RECURSIVE Drains(_)
Drains(r) == UNION {IF f.got = 0 THEN {f} ELSE Drains(Emptied(f)) : f \in Fills(r)}

Clears(r) == {Emptied(r), Failed(Emptied(r))} \union {Emptied(f) : f \in Drains(Emptied(r))}

-----------------------------------------------------------------------------
(* NetworkClient: bytes.                                                     *)

Allowance == MaxTraffic - FoldSeq(LAMBDA line, n : n + line.taken + line.written, 0, traffic)

\* The buffer of client c, before an operation.
Buffer(c) ==
    LET s == shared[client[c].share]
        k == IF s.rxfd \in Open THEN sockets[s.rxfd] ELSE LISTENER
    IN  s @@ [got |-> 0, passed |-> traffic[client[c].share].passed,
              taken |-> IF k = LISTENER THEN 0 ELSE traffic[k].taken,
              room |-> IF k = LISTENER THEN 0 ELSE Allowance]

\* And after it: a failure stops the client, except after clear().
Becomes(c, r, stops) ==
    LET k == client[c].share
        now == [shared EXCEPT ![k] = [f \in DOMAIN shared[k] |-> r[f]]]
        told == [traffic EXCEPT ![k].passed = r.passed]
        lines == IF Line(r) = LISTENER THEN told ELSE [told EXCEPT ![Line(r)].taken = r.taken]
    IN  /\ IF stops /\ r.failed THEN AfterStop(c, now, lines)
           ELSE shared' = now /\ traffic' = lines /\ UNCHANGED <<client, sockets>>
        /\ UNCHANGED server

ReadClient(c, len) ==
    /\ client[c].share # None /\ Uses(c)
    /\ \E r \in Reads(Buffer(c), len) : Becomes(c, r, TRUE)

PeekOrAvailable(c) ==
    /\ client[c].share # None /\ client[c].fd >= 0 /\ Uses(c)
    /\ \E r \in Peeks(Buffer(c)) \union Availables(Buffer(c)) : Becomes(c, r, TRUE)

ClearClient(c) ==
    /\ client[c].share # None /\ Uses(c)
    /\ \E r \in Clears(Buffer(c)) : Becomes(c, r, FALSE)

SendsFromStart(total, res) == [i \in 1..res |-> i]              \* mutant

\* send() takes res bytes of what is left of the caller's buffer.
Sends(total, res) == [i \in 1..res |-> total + i]

\* write() of size bytes: any number of sends, in the end all is sent, or ten
\* times nothing, or an error, which stops the client.
RECURSIVE Deliveries(_, _)
Deliveries(total, size) ==
    {<<>>} \union UNION {{Sends(total, res) \o more : more \in Deliveries(total + res, size)} :
                            res \in 1..size - total}

WriteClient(c, size) ==
    LET k == client[c].share
    IN  /\ client[c].connected /\ client[c].fd >= 0 /\ Uses(c)
        /\ sockets[client[c].fd] = k /\ size <= Allowance
        /\ \E bytes \in Deliveries(0, size) :
             LET was   == traffic[k].written
                 lines == [traffic EXCEPT ![k].written = was + Len(bytes),
                                          ![k].sent = @ \o [i \in DOMAIN bytes |-> was + bytes[i]]]
             IN  \/ traffic' = lines /\ UNCHANGED <<client, shared, sockets>>
                 \/ Len(bytes) < size /\ AfterStop(c, shared, lines)
        /\ UNCHANGED server

-----------------------------------------------------------------------------
(* NetworkServer.                                                            *)

ServerBegin ==
    /\ ~server.listening /\ FreeFds # {}
    /\ server' = [fd |-> NextFd, accepted |-> -1, listening |-> TRUE]
    /\ sockets' = Opening(sockets, NextFd, LISTENER)
    /\ UNCHANGED <<client, shared, traffic>>

HasClient ==
    /\ server.accepted < 0 /\ server.listening
    /\ FreeFds # {} /\ Len(traffic) < MaxConnections
    /\ server' = [server EXCEPT !.accepted = NextFd]
    /\ sockets' = Opening(sockets, NextFd, Len(traffic) + 1)
    /\ traffic' = Append(traffic, Silent)
    /\ shared' = Append(shared, Released)
    /\ UNCHANGED client

AcceptKeepsTaken(c) ==                                          \* mutant
    /\ server.listening /\ server.accepted >= 0
    /\ LET fd == server.accepted
       IN  Assign([client EXCEPT ![c] = On(fd, sockets[fd])],
                  [shared EXCEPT ![sockets[fd]] = Share(fd)], sockets, traffic)
    /\ UNCHANGED server

\* accept(): what hasClient() took.
AcceptTaken(c) ==
    /\ server.listening /\ server.accepted >= 0
    /\ LET fd == server.accepted
       IN  Assign([client EXCEPT ![c] = On(fd, sockets[fd])],
                  [shared EXCEPT ![sockets[fd]] = Share(fd)], sockets, traffic)
    /\ server' = [server EXCEPT !.accepted = -1]

\* Or a client that waits, or none, or a server that does not listen.
AcceptNext(c) ==
    /\ server.accepted < 0
    /\ \/ server.listening /\ Connect(c)
       \/ Assign([client EXCEPT ![c] = Unconnected], shared, sockets, traffic) /\ UNCHANGED server

ServerEnd ==
    /\ server.fd >= 0 /\ (Tidy => server.accepted < 0)
    /\ server' = [server EXCEPT !.fd = -1, !.listening = FALSE]
    /\ sockets' = Closing(sockets, {server.fd})
    /\ UNCHANGED <<client, shared, traffic>>

SocketNext ==
    \/ \E c \in Clients :
         \/ c \in Callers /\ Connect(c)
         \/ StopClient(c) \/ Connected(c)
         \/ \E other \in Clients : CopyAssign(c, other) \/ MoveAssign(c, other)
         \/ \E len \in ReadLens : ReadClient(c, len) \/ WriteClient(c, len)
         \/ PeekOrAvailable(c) \/ ClearClient(c)
         \/ c \in Takers /\ (AcceptTaken(c) \/ AcceptNext(c))
    \/ ServerBegin \/ HasClient \/ ServerEnd

SocketSpec == SocketInit /\ [][SocketNext]_socketVars

-----------------------------------------------------------------------------
(* Properties.                                                               *)

Holders(k) == {c \in Clients : client[c].share = k}

\* Every open socket is the server's, or waits in it, or belongs to a handle
\* that some client holds, over copies, moves and failures; and a client that
\* was not stopped behind its back has its own (NetworkClient.cpp:32-53,
\* 176-226, NetworkServer.cpp:41-70).
SocketsOwned ==
    /\ \A fd \in Open :
         \/ sockets[fd] = LISTENER /\ fd = server.fd
         \/ sockets[fd] # LISTENER /\ Holders(sockets[fd]) = {} /\ fd = server.accepted
         \/ /\ sockets[fd] # LISTENER /\ Holders(sockets[fd]) # {} /\ fd # server.accepted
            /\ shared[sockets[fd]].fd = fd
    /\ \A c \in Clients : client[c].fd >= 0 /\ ~Stale(c) =>
         client[c].fd \in Open /\ sockets[client[c].fd] = client[c].share

\* What left a receive buffer and what is in it are the bytes its connection
\* received, in order; and the peer got what write() said it wrote, in order
\* (NetworkClient.cpp:65-173, 337-384).
BytesInOrder ==
    \A k \in Made :
      /\ Holders(k) # {} =>
           traffic[k].passed \o SubSeq(shared[k].data, shared[k].pos + 1, Filled(shared[k]))
             = [n \in 1..traffic[k].taken |-> <<k, n>>]
      /\ traffic[k].sent = [n \in 1..traffic[k].written |-> n]

\* No byte of a connection is lost, added, moved or given to another one, and
\* its socket is open while somebody holds it and closed when nobody does.
SocketsRight == SocketsOwned /\ BytesInOrder
=============================================================================
