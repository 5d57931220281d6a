SPECIFICATION FairSpec
CONSTANTS
  RelayCount = 3
  Latching = {1, 2}
  PulseTicks = 2
  Indicated = {1}
  Written = {1}
INVARIANTS
  PulsesEnd
  PulsesExclusive
  ContactsFollow
  IndicatorsShow
PROPERTIES
  RestartsAsConfigured
  PulsesSettle
