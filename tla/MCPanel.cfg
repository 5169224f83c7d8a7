SPECIFICATION PanelSpec
CONSTANTS
  MaxChanges = 2
  MaxCount = 2
  MaxFaults = 1
  SlowPuts = FALSE
  Slips = {s1}
  MaxSlips = 2
  PageIds = {1, 2, 3, 4, 5, 6}
  MaxDepth = 3
  MidSlide = FALSE
  Devs = {"d1"}
  MaxQuestions = 2
  MaxAnswers = 2
  MaxPairs = 1
  Parallel = FALSE
  Aps = {"a", "b"}
  Locked = {"b"}
  Hasty = FALSE
  Ports = {"p1", "p2"}
  MaxTyped = 4
  Overlap = FALSE
  MaxVisits = 2
  MaxStays = 1
  MaxPresses = 2
  MaxTrouble = 1
  None = None
  
PROPERTIES TapNotDropped NotBeforeTheChange   
CHECK_DEADLOCK FALSE
