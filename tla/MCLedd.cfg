SPECIFICATION FairSpec
CONSTANTS
  Configs <- MCConfigs
  Broken = Broken
  MaxTrouble = 1
INVARIANTS RemembersRight
PROPERTIES ReloadRepaints AlarmShown NightDark
