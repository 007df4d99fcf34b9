CONSTANTS
  OneWay = 2
  EndRest = 2
  StartDelay = 3
  Updates <- OneOrTwo
  Faults = 0
SPECIFICATION Spec
PROPERTY NeverStartsDriving
