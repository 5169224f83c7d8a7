\* Two fans, percentages 0..2: every neighbour relation of the real 0..100.
SPECIFICATION FairSpec
CONSTANTS
  N = 2
  Full = 2
  Parked = 1
  Min = 0
  Paced = TRUE
INVARIANTS FanSafe
PROPERTIES SleepsOnlyParked KeepsPromise LivesUp
