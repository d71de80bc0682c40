SPECIFICATION FairSpec
CONSTANTS
  core0 = core0
  core1 = core1
  Core2 = Core2
  NoCore = NoCore
  Controllers = {core1}
  IrqCore = core0
  Torn = Torn
  SevOvertakes = TRUE
  Issues <- PlayOnly
  Tapes <- TwoHalfWaves
  Autoplay = {TRUE, FALSE}
  AlwaysOn = {TRUE, FALSE}
  HalfWaves = {1}
  MaxHalfWaves = 3
  HeaderPulses = 1
INVARIANT WholeHalfWave
PROPERTIES
  PauseEnds
  TapeRunsOut
CHECK_DEADLOCK FALSE
