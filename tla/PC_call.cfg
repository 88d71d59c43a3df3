SPECIFICATION FairSpec
CONSTANTS
    RemoteOffers <- MCRemoteOffers
    Candidates <- MCCandidates
    Scripts <- MCScripts
    MaxQueue = 2
INVARIANT NegotiationSignalled
INVARIANT StreamSent
INVARIANT EndOfCandidates
INVARIANT RemoteStreamsAnnounced
INVARIANT CallsFindSessions
PROPERTY OperationsSettle
CHECK_DEADLOCK FALSE
