SPECIFICATION Spec
CONSTANTS
  SwitchIdx = 0
  CoverClusters = 2
  Types = {"toggle", "momentary"}
  Indexes = {0, 1, 2, 3}
  LocalModes = {"immediate", "short_press", "long_press", "hybrid"}
  BindedModes = {"immediate", "short_press", "long_press", "hybrid"}
INVARIANTS
  HoldEndsWithRelease
  KeptTogether
  PresentValueInSync
PROPERTIES
  StopIsFinal
