SPECIFICATION Spec
CONSTANTS
  Gangs = 4
  CoverGangs = 3
  MaxButtons = 11
  MaxLeds = 5
  DefaultDebounce = 50
  Numbers = {50}
  Rewritten = {"TS0001-custom", "TS0002-custom"}
  MaxFaults = 1
  MaxWrites = 2
INVARIANTS
  Understands
  ConfiguredReports
  RelayIndexTranslated
PROPERTIES
  EndsConfigured
