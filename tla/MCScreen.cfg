SPECIFICATION FairSpec
CONSTANTS
    MaxKeys = 1
    LongCount = 1
INVARIANTS
    FlagTellsDisplay
    WrongFlagIsPutRight
PROPERTIES
    KeysActOnVisibleScreen
    SleepsAgain
