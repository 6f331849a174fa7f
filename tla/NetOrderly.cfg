SPECIFICATION FairSpec
CONSTANTS
    QueueLen = 2
    MaxOpens = 2
    MaxLines = 1
    Chatter = {"start", "desync", "dropped"}
    Windows = {}
INVARIANTS
    FirstLineJoins
    NoGhostRoom
PROPERTIES
    QueuesInStep
    ConnectAnswered
