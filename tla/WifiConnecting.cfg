SPECIFICATION FairSpec
CONSTANTS
  NM_EVERY = 5
  NM_DOWN_AFTER = 10
  CONNECTING_MAX = 30
  WORSE_AFTER = 3
  FAULT_AFTER = 5
  None = None
  MaxChanges = 2
PROPERTIES ConnectingEnds
