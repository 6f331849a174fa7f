SPECIFICATION Spec
CONSTANTS
    Names = {"A", "B"}
    NumSlots = 2
    PerSector = 1
    NumBlocks = 3
    PerExtent = 2
    d1 = d1
    Data = {d1}
    Fill = Fill
    Junk = Junk
    Unknown = Unknown
    MaxStage = 2
    Shelves <- Shelf
    Windows = {}
INVARIANTS
    ReadsBack
    Mirrored
    Survives
