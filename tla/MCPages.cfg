SPECIFICATION Spec
CONSTANTS
  Here = "a"
  There = "b"
  Names = {"m", "n"}
  TaskIds = {1, 2}
  Persons = {"ann", "bo"}
  MaxPolls = 2
  MaxMissed = 1
  MaxCancels = 1
  MaxMoves = 6
  MaxRestarts = 1
  MaxMisses = 1
  Late = FALSE
  Kinds = {"polled", "stepper", "once", "night"}
  MaxChanges = 2
  MaxFails = 1
  FailedPuts = FALSE
  LateFlush = FALSE
  Blank = Blank
  Skeleton = Skeleton
  Failed = Failed
  MaxLayers = 2
  MaxActs = 3
  MaxToasts = 1
  Slips = FALSE
  Hasty = FALSE
  MaxOpened = 2
  MaxTaps = 2
  Both = FALSE
  Items = {"a", "b"}
  MaxViewers = 2
  MaxSheets = 3
  MaxPlayers = 2
  MaxPauses = 2
  MaxLost = 1
  MaxCrashes = 1
  Strays = FALSE
  Keys = {"up", "enter"}
  Volume = "volume"
  Power = "power"
  MaxSleeps = 2
  MaxAsked = 2
  MaxTrouble = 1
  None = None
INVARIANTS BarsTell  
PROPERTIES FirstThingsFirst PaintsWithCare  
CHECK_DEADLOCK FALSE
