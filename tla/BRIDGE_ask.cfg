SPECIFICATION Spec
CONSTANTS
    p1 = p1
    p2 = p2
    Pages <- MCPages
    MaxRequests = 1
    MaxShows <- MCShows
    MaxRestarts = 1
    MaxCloses = 1
INVARIANT AnsweredOnce
INVARIANT UserDecides
PROPERTY RequestsSettle
PROPERTY RenderersReleased
CHECK_DEADLOCK FALSE
