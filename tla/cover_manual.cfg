SPECIFICATION FairSpec
CONSTANTS
  MaxPct = 2
  BpPerPct = 1
  RelayMinSwitch = 3
  Overrun = 1
  ManualTimeout = 6
  UpdateShare = 4
  MinUpdate = 2
  MaxDeadzone = 1
  DefaultOpenTime = 0
  OpenTimes = {0}
  CloseTimes = {0}
  Deadzones = {0, 2}
  Lifts = {1}
  MaxTravel = 0
PROPERTIES
  ProtectsMotor
  ComesToRest
