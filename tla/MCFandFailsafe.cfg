SPECIFICATION FairSpec
CONSTANTS
  Fans = {1}
  Duties = {40, 70}
  Profiles = {"silent", "balance"}
  Configs <- MCConfigs
  MaxTrouble = 1
  NoProfile = "none"
PROPERTIES UnreadableGetsFailsafe
CHECK_DEADLOCK FALSE
