SPECIFICATION FairSpec
CONSTANTS
    s1 = s1
    h1 = h1
    h2 = h2
    None = None
    Session = {s1}
    Data = {}
    Server = {h1, h2}
    Remote <- Several
    Reported = {3, 5}
    MaxCall = 3
    MaxLocal = 2
    MaxTask = 1
INVARIANT RemoteCandidatesHanded
INVARIANT CredentialsAgree
INVARIANT IceStateAgrees
PROPERTY GatheringStarts
CHECK_DEADLOCK FALSE
