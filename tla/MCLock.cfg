SPECIFICATION Spec
CONSTANTS
    timer = timer
    moto = moto
    button = button
    rtc = rtc
    lcd = lcd
    Threads <- CallingThreads
    timer_thread = timer
    Priority <- Priorities
    MaxResumes = 2
INVARIANTS
    TokensConserved
    NoLostWakeup
PROPERTIES
    TimerThreadGetsIn
