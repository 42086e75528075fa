SPECIFICATION Spec
CONSTANTS
  GUIWINMANAGE_NUM = 3
  Keys = {"K2"}
  Calls = {"automatic","empty","new"}
  MaxPending = 1
  MaxTimers = 1
  MaxDepth = 3
  Anytime = TRUE
  TwoReports = TRUE
INVARIANT TypeOK
INVARIANT MainWindowStays
