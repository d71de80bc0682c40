SPECIFICATION Spec
CONSTANTS
  core0 = core0
  core1 = core1
  Core2 = Core2
  NoCore = NoCore
  Controllers = {core1}
  IrqCore = core0
  Torn = Torn
  SevOvertakes = FALSE
  Issues <- RecordIssues
  Tapes <- OneHalfWave
  Autoplay = {FALSE}
  AlwaysOn = {FALSE}
  HalfWaves = {1}
  MaxHalfWaves = 5
  HeaderPulses = 2
INVARIANTS
  PulsesExclusive
  FetchWithinTape
  WithinBuffer
  SavedUnlessLate
PROPERTY OwnershipSpec
VIEW Relevant
CONSTRAINTS OnTime Played
CHECK_DEADLOCK FALSE
