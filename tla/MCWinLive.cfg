SPECIFICATION FairSpec
CONSTANTS
  GUIWINMANAGE_NUM = 16
  Keys = {"K0","K2"}
  Calls = {"reminder","automatic"}
  MaxPending = 1
  MaxTimers = 1
  MaxDepth = 3
  Anytime = FALSE
  TwoReports = FALSE
INVARIANT InProgressIsTrue
PROPERTY InProgressEnds
