SPECIFICATION Spec
CONSTANTS
    A = A
    B = B
    c1 = c1
    c2 = c2
    NoChannel = NoChannel
    Peer = {A, B}
    Channel = {c1}
    Opener <- OneOpener
    Negotiated = {}
    Unordered = {}
    MaxSend = 2
    MaxAdd = 1
    EarlyAdd = TRUE
    MayTerminate = TRUE
    SendWhen <- OpenerEager
    CloseWhen <- OpenerEager
INVARIANT OpenHasChannel
INVARIANT InOrder
CHECK_DEADLOCK FALSE
