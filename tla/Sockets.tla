------------------------------ MODULE Sockets --------------------------------
(* What a sketch does with the network's sockets: it exchanges datagrams with *)
(* NetworkUDP, or it connects with NetworkClient and NetworkServer.  The two  *)
(* share nothing but lwIP's descriptors, so an order of calls to both is one  *)
(* order for each: a behaviour of this module is about one of them.           *)
EXTENDS NetworkUdp, NetworkSockets

VARIABLE protocol       \* that the sketch uses

SocketsInit ==
    /\ Init /\ SocketInit
    /\ protocol \in {"udp", "tcp"} /\ (protocol = "tcp" => style = "none")

SocketsNext ==
    \/ protocol = "udp" /\ Next /\ UNCHANGED <<protocol, socketVars>>
    \/ protocol = "tcp" /\ SocketNext /\ UNCHANGED <<protocol, vars>>

socketsVars == <<protocol, vars, socketVars>>

\* The fairness of NetworkUdp, of the same loop.
SocketsSpec ==
    /\ SocketsInit /\ [][SocketsNext]_socketsVars
    /\ WF_vars(EndPacket) /\ SF_vars(Receive) /\ SF_vars(Consume)
=============================================================================
