SPECIFICATION FandSpec
CONSTANTS
  Temps <- MCTemps
  Curves <- MCCurves
  Dts = {1, 2}
  Filtering = TRUE
  emergency_temp = 4
  emergency_secs = 2
  emergency_ramp = 30
  hysteresis = 2
  ramp_up = 20
  ramp_down = 15
  min_pwm = 10
  start_pwm = 20
  kick_secs = 2
  failsafe_pwm = 70
  Fans = {1, 2}
  Duties = {40, 70}
  Profiles = {"silent", "balance"}
  Configs <- MCConfigs
  MaxTrouble = 1
  NoProfile = "none"
  None = None
INVARIANTS FloorKept CurveSound LoopSound
PROPERTIES ZoneSteps FandSettles
CHECK_DEADLOCK FALSE
