SPECIFICATION Spec
CONSTANTS
    Frames = 2
    PollTicks = 1
    Old = 20
    RingWords = 4
    FloodAt = 2
    IoqSize = 2
    TimelineSize = 2
    AgeOut = 3
    QueueSize = 4
    Guests <- AllGuests
INVARIANTS
    PsgInStep
    PlayheadBehind
PROPERTIES
    PlaysInOrder
    MergedInOrder
    JudgedByItsBanks
