SPECIFICATION PlantSpec
CONSTANTS
  MaxPct = 4
  BpPerPct = 1
  RelayMinSwitch = 2
  Overrun = 2
  ManualTimeout = 6
  UpdateShare = 4
  MinUpdate = 2
  MaxDeadzone = 1
  DefaultOpenTime = 4
  OpenTimes = {4}
  CloseTimes = {0}
  Deadzones = {0}
  Lifts = {1, 2}
  MaxTravel = 4
  LiftTicks = 4
  LowerTicks = 4
  WiredReversed = FALSE
INVARIANTS
  TrackingExact
  RunTimeBounded
  AcceptedCommandWins
