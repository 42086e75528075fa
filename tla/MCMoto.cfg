SPECIFICATION FairSpec
CONSTANTS
    Callers <- OneCaller
    MaxCycles = 2
    MinLoops = 3
    MaxErrors = 6
    ShellCommands <- NoShell
    SleepMidCycle = FALSE
    TimerMargin = TRUE
INVARIANTS
    WorkingMeansDriven
    ErrorsPerCycle
PROPERTIES
    BackStartsAtRight
    StopsAtEndStop
    BackIsActedOn
    ScreenTimersResume
