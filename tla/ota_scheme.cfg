SPECIFICATION FairSpec
CONSTANTS
  MainAddr = 1
  SmallAddr = 2
  BigAddr = 6
  PagesPerSector = 2
  Size = 4
  MaxFirmwareSize = 6
INVARIANTS
  AlwaysBoots
PROPERTIES
  Reformatted
CHECK_DEADLOCK FALSE
