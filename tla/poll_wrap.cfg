SPECIFICATION FairSpec
CONSTANTS
  IntWrap = 16
  ClockWrap = 6
  MsPerQs = 1
  CheckInDefault = 4
  LongPollDefault = 3
  ShortPollDefault = 2
  MainsPollDefault = 1
  FastPollDefault = 3
  MinLongPoll = 2
  MaxLongPoll = 4
  StackPollRate = 5
  CheckIns = {0}
  LongPolls = {2}
  ShortPolls = {1}
  Timeouts = {2}
PROPERTIES
  FastPollEnds
