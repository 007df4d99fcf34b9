CONSTANTS
  VolumeMin = 1
  VolumeMax = 3
  VolumeDefault = 2
  NULL = NULL
  Hold = 2
  Failsafe = 1
  Players <- ThreePlayers
  Presses = 4
SPECIFICATION Spec
PROPERTY EdgesSurviveTheBoard
