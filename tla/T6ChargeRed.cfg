SPECIFICATION FairSpec
CONSTANTS
  Full = 2
  LowSoc = 1
  DefStart = 0
  DefEnd = 2
PROPERTIES RedWhenLow
