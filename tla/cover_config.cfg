SPECIFICATION Spec
CONSTANTS
  MaxPct = 4
  BpPerPct = 1
  RelayMinSwitch = 2
  Overrun = 1
  ManualTimeout = 3
  UpdateShare = 4
  MinUpdate = 2
  MaxDeadzone = 1
  DefaultOpenTime = 2
  OpenTimes = {0, 4}
  CloseTimes = {0, 2}
  Deadzones = {0, 3}
  Lifts = {2, 5}
  MaxTravel = 4
INVARIANTS
  RelaysMatchMoving
  MotorSupervised
PROPERTIES
  SwapOnlyWhenOvertaken
  SwitchesSpaced
