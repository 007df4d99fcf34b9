CONSTANTS
  p1 = p1
  p2 = p2
  b1 = b1
  v1 = v1
  NULL = NULL
  Pad <- OnePad
  Board <- OneBoard
  Virtual <- OneVirtual
  MaxDevices = 2
  TestSteps = 1
SPECIFICATION FairSpec
INVARIANTS
  TypeOK
  ConnectionMatchesBooks
  ExhibitNeverDrives
  TurretGivenBack
  NoSampleWaits
  TestCleansUp
PROPERTIES
  WheelsStopWhenAlone
