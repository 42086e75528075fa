SPECIFICATION FairSpec
CONSTANTS
    HoursPerDay = 2
    DaysPerWeek = 2
    MaxWeek = 1
    MaxDay = 1
    Edited <- OnlyAutomatic
    MaxCrashes = 1
    MaxTime = 7
    SinceCap = 3
INVARIANTS
    EnabledHasPeriod
    AtMostDaily
    NotAhead
PROPERTIES
    CountReturns
    WakeUpEnds
