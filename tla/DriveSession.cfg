CONSTANTS
  ChangeTime = 2
  TickEvery = 2
  MaxPresses = 3
  MaxResets = 2
SPECIFICATION FairSpec
INVARIANTS NeverDriveless IdleTold
PROPERTIES NeverSleepsThrough HostServed DiskChangeEnds
CHECK_DEADLOCK FALSE
