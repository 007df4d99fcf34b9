CONSTANT Polls <- PollTimes
SPECIFICATION FairSpec
INVARIANTS
  TypeOK
  NothingLeftOn
  ShotsAreHeard
PROPERTIES
  PlaysTheShow
  ShowGoesOn
