SPECIFICATION Spec
CONSTANTS
  GUIWINMANAGE_NUM = 16
  Keys = {"K2_Long","K0","K1","K2"}
  Calls = {"automatic"}
  MaxPending = 4
  MaxTimers = 1
  MaxDepth = 2
  Anytime = FALSE
  TwoReports = FALSE
INVARIANT DrawnIsTop
INVARIANT ButtonExists
INVARIANT RunningIsShown
