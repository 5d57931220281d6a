SPECIFICATION ParserSpec
CONSTANTS
  Gangs = 3
  CoverGangs = 1
  MaxButtons = 4
  MaxLeds = 4
  DefaultDebounce = 1
  Numbers = {0, 256}
INVARIANTS
  IndicatorsPaired
  NetworkLedsAsDocumented
  ReadAlike
