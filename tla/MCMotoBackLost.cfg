SPECIFICATION FairSpec
CONSTANTS
    Callers <- OneCaller
    MaxCycles = 1
    MinLoops = 3
    MaxErrors = 2
    ShellCommands <- NoShell
    SleepMidCycle = FALSE
    TimerMargin = FALSE
PROPERTY BackIsActedOn
