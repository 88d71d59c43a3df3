SPECIFICATION Spec
CONSTANTS
    A = A
    B = B
    c1 = c1
    c2 = c2
    NoChannel = NoChannel
    Peer = {A, B}
    Channel = {c1}
    Opener <- OneOpener
    Negotiated = {}
    Unordered = {}
    MaxSend = 1
    MaxAdd = 1
    EarlyAdd = FALSE
    MayTerminate = FALSE
    SendWhen <- WhenOpen
    CloseWhen <- Never
INVARIANT NothingEarly
CHECK_DEADLOCK FALSE
