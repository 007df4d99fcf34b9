CONSTANTS
  p1 = p1
  p2 = p2
  p3 = p3
  b1 = b1
  v1 = v1
  NULL = NULL
  Pad <- Pads
  Board <- OneBoard
  Virtual <- OneVirtual
  SelfAlive <- SelfAlivePads
  MaxDevices = 2
SPECIFICATION FairSoundSpec
INVARIANTS
  SoundTypeOK
  ScanPlanned
  MailboxesAlive
  PadKeptAlive
  ConnectSoundPlanned
  MusicGoesOn
PROPERTY
  ScanResumes
