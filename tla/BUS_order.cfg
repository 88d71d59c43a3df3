SPECIFICATION FairSpec
CONSTANTS
    p1 = p1
    p2 = p2
    b1 = b1
    o1 = o1
    App = App
    None = None
    Poster = {p1, p2}
    Bus = {b1}
    Origin = {o1}
    Type = {1}
    MaxPost = 3
    MaxCallback = 2
    CallbackMay = {}
    CallbackOrigin = {}
INVARIANT CountedRefs
INVARIANT NothingLost
INVARIANT CallbackDataAlive
PROPERTY DeliveryPromised
PROPERTY MessagesHandled
PROPERTY CallsReturn
CHECK_DEADLOCK FALSE
