SPECIFICATION Spec
CONSTANTS
  Environments <- MCEnvironments
  Machines <- MCMachines
  Milli = 4
  Lengths = {4004, 240000}
  Frame = 160
  AudioRates = {128}
  Trims <- MCTrims
  Targets = {0, 1, 11}
  Size = 20000000
INVARIANTS
  TypeOK
  AcceptedRuns
  TargetIsMet
  PercentagesFit
  UploadsUseCard
CHECK_DEADLOCK FALSE
