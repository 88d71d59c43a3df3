SPECIFICATION FairSpec
CONSTANTS
    v1 = v1
    a1 = a1
    None = None
    Payload = {v1, a1}
    Video = {v1}
    HasRtx = {v1}
    MaxCall = 4
PROPERTY MediaReceived
CHECK_DEADLOCK FALSE
