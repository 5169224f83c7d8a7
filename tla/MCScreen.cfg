SPECIFICATION FrontSpec
CONSTANTS
  Max = 2
  DefaultOn = 1
  MaxTrouble = 3
  Top = 3
  Mishaps = 2
  RunLen = 2
  MaxGhosts = 2
  MaxPauses = 1
  MaxNaps = 2
  None = None
  NM_EVERY = 5
  NM_DOWN_AFTER = 10
  CONNECTING_MAX = 30
  WORSE_AFTER = 3
  FAULT_AFTER = 5
  MaxChanges = 2
INVARIANTS ScreenSafe SwitchedIsSo
PROPERTIES RetryLights FrontSound FrontSettles
