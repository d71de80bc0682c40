SPECIFICATION Spec
CONSTANTS
  Settings = {Autoplay, Sound}
  Values = {0, 1}
  Defaults <- AllOff
  Absent = Absent
  None = None
  Torn = Torn
INVARIANTS
  NothingTorn
PROPERTY StoreSpec
CHECK_DEADLOCK FALSE
