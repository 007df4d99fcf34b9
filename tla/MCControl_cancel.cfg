CONSTANTS
  p1 = p1
  p2 = p2
  b1 = b1
  v1 = v1
  NULL = NULL
  Pad <- OnePad
  Board <- Nobody
  Virtual <- Nobody
  MaxDevices = 1
  TestSteps = 1
SPECIFICATION Spec
INVARIANT FailsafeStopsTest
