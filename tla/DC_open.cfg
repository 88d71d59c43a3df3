SPECIFICATION FairSpec
CONSTANTS
    A = A
    B = B
    c1 = c1
    c2 = c2
    NoChannel = NoChannel
    Peer = {A, B}
    Channel = {c1, c2}
    Opener <- BothOpen
    Negotiated = {c2}
    Unordered = {c2}
    MaxSend = 1
    MaxAdd = 1
    EarlyAdd = FALSE
    MayTerminate = FALSE
    SendWhen <- Prudent
    CloseWhen <- OpenerDrained
INVARIANT EntriesFound
PROPERTY ReadyForward
PROPERTY OpenCompletes
PROPERTY MessagesArrive
PROPERTY CloseCompletes
CHECK_DEADLOCK FALSE
