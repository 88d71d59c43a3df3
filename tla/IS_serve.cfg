SPECIFICATION FairSpec
CONSTANTS
    r1 = r1
    r2 = r2
    s1 = s1
    t1 = t1
    t2 = t2
    o1 = o1
    c1 = c1
    c2 = c2
    None = None
    Renderer = {r1, r2}
    Source = {s1}
    Tag = {t1, t2}
    Origin = {o1}
    Connection = {c1, c2}
    Worker = 2
    Width <- Widths
    Height <- Heights
    MaxCall = 4
    MaxRequest = 2
PROPERTY RequestsAnswered
CHECK_DEADLOCK FALSE
