CONSTANTS
  RingSize = 2
  MaxKeys = 2
  MaxChanges = 2
SPECIFICATION FairSpec
INVARIANTS MenuExclusive BrowseFrameDone WholeFrame
PROPERTIES ScreenInOrder KeysInOrder KeysHandled ScreenCatchesUp
CHECK_DEADLOCK TRUE
