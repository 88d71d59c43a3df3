SPECIFICATION FairSpec
CONSTANTS
    s1 = s1
    s2 = s2
    a1 = a1
    p1 = p1
    p2 = p2
    None = None
    Source = {s1, s2, a1}
    Payload = {p1, p2}
    Video = {s1, s2, p1, p2}
    MaxCall = 5
INVARIANT StartNotLost
INVARIANT NothingLeftBlocked
INVARIANT CarefulNeverAborts
INVARIANT SendsWhatIsSet
PROPERTY SendingStarts
CHECK_DEADLOCK FALSE
