SPECIFICATION FairSpec
CONSTANTS
    s1 = s1
    s2 = s2
    r1 = r1
    r2 = r2
    t1 = t1
    h1 = h1
    h2 = h2
    None = None
    Source = {s1, s2}
    VolumeElement = {s1}
    StreamVolume = {}
    Renderer = {r1, r2}
    Tag = {t1}
    Handle = {h1, h2}
    MaxCall = 5
INVARIANT BranchesOwned
INVARIANT RunsWhileUsed
INVARIANT WindowReaches
 
PROPERTY StopsWhenUnused
CHECK_DEADLOCK FALSE
