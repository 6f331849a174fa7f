SPECIFICATION DSpec
CONSTANTS
    Byte = {0, 1}
    MaxSize = 4
    CacheSize = 2
    MaxCall = 2
    Modes <- Opens
    Base = 2
    Probe = 1
    Overrun = FALSE
INVARIANTS
    FlushTellsTruth
    GuestReadsBack
PROPERTIES
    ImplementsByteArray
