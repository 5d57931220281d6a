SPECIFICATION FairSpec
CONSTANTS
  DebounceDelay = 1
  MaxAge = 2
  SwitchIdx = 1
  RelayClusters = 1
  DefaultHigh = 0
  DefaultMode = "momentary"
  DefaultDuration = 2
  Modes = {"toggle", "momentary", "momentary_nc"}
  Actions = {"toggle_smart_sync"}
  RelayModes = {"short", "long"}
  BindedModes = {"short"}
  Indexes = {9}
  Durations = {0}
INVARIANTS
  MultistateInSync
  MoveEndsWithPress
PROPERTIES
  SmartInSync
  ShortPressOnly
  ReportsEvents
  LongPressesCome
