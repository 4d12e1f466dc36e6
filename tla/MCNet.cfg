CONSTANTS
    Byte = {0, 1}
    Size = 3
    MaxCount = 4
    Parts = {"buffer", "stream", "socket", "acceptor", "timer", "server", "agent", "peer"}
    MaxBytes = 4
    SocketSize = 2
    SocketId = {1, 2}
    MaxConn = 2
    Conn = {c1, c2, c3}
    Banned = {c3}
    NoConn = NoConn
    TimerId = {1, 2, 3}
    MaxArmed = 4
    Requests <- MCRequests
    BufSize = 3
    Request = {r1, r2, r3}
    None = None
    Timeout = 3
    MaxLosses = 3
    HeaderSize = 2
    Body <- MCBody
    Bad = {6}
    Answer <- MCAnswer
    MaxBroadcast = 1
SPECIFICATION NetSpec
INVARIANTS
    BufferSound
    OperationsMatch
    MessagesInOrder
PROPERTIES
    ImplementsFifo
    
    WaitersAreTold
