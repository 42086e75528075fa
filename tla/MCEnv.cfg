SPECIFICATION Spec
CONSTANTS
    week = week
    day = day
    None = None
    Keys <- TwoKeys
    Values <- TwoValues
    SECTOR_NUM = 2
    Slots = 6
    RemainThreshold = 2
    EmptyThreshold = 1
    CacheSize = 1
    MaxLosses = 2
INVARIANTS
    Findable
    HeaderSurvives
    EmptyKept
PROPERTIES
    ImplementsSettings
    BootEnds
