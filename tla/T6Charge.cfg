\* The state of charge is scaled down to 0..Full.
\* Four charge levels: below, at and above either threshold of a band.
SPECIFICATION FairSpec
CONSTANTS
  Full = 3
  LowSoc = 1
  DefStart = 1
  DefEnd = 2
INVARIANTS ChargeSafe WithinBand
PROPERTIES NoFlapping HandBackHappens
