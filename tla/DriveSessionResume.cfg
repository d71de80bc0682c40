CONSTANTS
  ChangeTime = 2
  TickEvery = 2
  MaxPresses = 3
  MaxResets = 0
SPECIFICATION Spec
INVARIANT ResumeOnlyActive
