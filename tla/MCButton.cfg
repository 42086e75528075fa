SPECIFICATION Spec
CONSTANTS
    enter = enter
    down = down
    Keys <- TwoKeys
    KeyNum = 2
    List <- HeadFirst
    Enter = enter
    BUTTON_DEBOUNCE_TIME = 2
    BUTTON_DOUBLE_TIME = 2
    BUTTON_LONG_TIME = 3
    LONG_TIME_LIMIT = 5
    K2_LONG_LIMIT = 2
INVARIANTS
    LongFlagHasOwner
    NeverStuck
    MenuOncePerPress
PROPERTIES
    ReleaseAnswered
    MenuOpens
