CONSTANTS
  OneWay = 2
  EndRest = 2
  StartDelay = 3
  Updates <- OneOrTwo
  Faults = 1
SPECIFICATION FairSpec
INVARIANT TypeOK
PROPERTIES
  TurnsOnlyAtEnds
  SweepFinishes
  SweepsGoOn
