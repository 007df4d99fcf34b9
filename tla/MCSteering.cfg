SPECIFICATION Spec
CONSTANTS
  AxisMax = 512
  Deadzone = 60
  AxisGate = 48
  MinSpeed = 448
  PeriodTicks = 50
  PadAxis <- Sticks
  Corner <- Weights
  Shifts = 3
  Riding <- Forward
INVARIANTS
  TypeOK
  ScaledNotClipped
  MirrorImage
  NoCreep
  TurnsWhenTold
  BoardStopsAgree
PROPERTY BoardCalmsDown
