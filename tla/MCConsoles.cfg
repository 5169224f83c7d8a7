SPECIFICATION Spec
CONSTANTS
  Cards = {"profile", "limits", "night", "chips", "checkbox", "brightness"}
  Shared = {"profile", "limits", "night", "chips", "checkbox"}
  Values = {0, 1}
  Presets = {0}
  MaxOthers = 1
  Zones = {"cpu", "sys"}
  MaxTemp = 2
  MaxRuns = 2
  MaxAsked = 2
  Settings = {0, 1}
  First = 0
  Plans <- PlansHere
  MaxEdits = 2
  MaxActs = 3
  MaxTrouble = 1
  MaxMisses = 3
  MaxLoads = 2
  None = None
INVARIANTS PagesSound 
PROPERTIES OnlyWhatWasAsked CatchesUp
CHECK_DEADLOCK FALSE
