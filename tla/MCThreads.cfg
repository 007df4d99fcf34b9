SPECIFICATION ThreadsSpec
INVARIANTS
  ThreadsTypeOK
  LaserGoesOut
  BurstGoesOut
  PuffEnds
PROPERTY MistShows
