\* Two clients, both in readfds, two lines under way, and an image of three bytes.
SPECIFICATION Spec
CONSTANTS
    NoText = ""
    Sockets = {s1, s2}
    Listener = listener
    Lines <- LoopLines
    MaxLines = 2
    BacklogBound = 1
    FdSetSize = 3
    HeaderSize = 2
    ImageSize = 3
    ChunkSize = 1
INVARIANTS
    TypeOK
    SocketsAgree
    ImageUnbroken
    RepliesMatch
PROPERTIES
    EveryoneServed
