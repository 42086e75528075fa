SPECIFICATION Spec
CONSTANTS
    Callers <- TwoCallers
    MaxCycles = 2
    MinLoops = 2
    MaxErrors = 2
    ShellCommands <- MotoBits
    SleepMidCycle = TRUE
    TimerMargin = FALSE
INVARIANTS
    DriveSupervised
