SPECIFICATION Spec
CONSTANTS
    s1 = s1
    s2 = s2
    None = None
    Session = {s1, s2}
    Adapting = {s1}
    SeqnoMod = 7
    Threshold = 3
    Window = 3
    Grace = 2
    LossMod = 3
    FirstSeq = 4
    MaxGap = 3
    MaxPacket = 5
    MaxArrival = 4
    MaxWire = 1
    MaxStats = 1
INVARIANT FeedbackRight
CHECK_DEADLOCK FALSE
