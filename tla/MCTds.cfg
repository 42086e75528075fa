SPECIFICATION FairSpec
CONSTANTS
    FrameLen = 7
    MaxRequests = 3
    HeaderLike <- SomeHeaderLike
CHECK_DEADLOCK FALSE
INVARIANTS
    IndexInBounds
    AlignedUnlessMisled
    ValueIsFresh
PROPERTIES
    AnswerArrives
