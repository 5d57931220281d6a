SPECIFICATION Spec
CONSTANTS
  IndicatorCount = 2
  MaxTimers = 2
INVARIANTS
  NetworkShown
  IndicatorsFollow
