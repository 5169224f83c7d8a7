SPECIFICATION Spec
CONSTANTS
  N = 1
  Full = 2
  Parked = 1
  Min = 0
  Paced = TRUE
INVARIANT ZeroForcesFullSpeed
