SPECIFICATION SocketsSpec
CONSTANTS
    Byte = {"more", "last"}
    MaxData = 2
    FirstSize = 2
    MaxSize = 4
    Styles = {"byte", "block", "none"}
    Peers = {p1, p2}
    Group = Group
    NoPeer = NoPeer
    Lens = {0, 1, 3}
    RxSize = 2
    TxSize = 2
    MaxArrive = 2
    MaxPacket = 3
    MaxBegin = 1
    Clients = {c1, c2}
    Callers = {c1}
    Takers = {c2}
    Descriptors = 3
    BufferSize = 2
    ReadLens = {1, 3}
    MaxConnections = 2
    MaxTraffic = 3
    Tidy = TRUE
INVARIANTS
    PacketsIntact
    
PROPERTIES
    DatagramsTaken
    QueueSpec
CHECK_DEADLOCK FALSE
