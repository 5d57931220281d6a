SPECIFICATION Spec
CONSTANTS
  IntWrap = 16
  ClockWrap = 16
  MsPerQs = 1
  CheckInDefault = 4
  LongPollDefault = 3
  ShortPollDefault = 2
  MainsPollDefault = 1
  FastPollDefault = 3
  MinLongPoll = 2
  MaxLongPoll = 4
  StackPollRate = 5
  CheckIns = {0, 2, 19}
  LongPolls = {1, 2, 4, 5}
  ShortPolls = {0, 1, 4}
  Timeouts = {0, 2}
INVARIANTS
  RestartKeepsIntervals
  RateFollowsMode
  CheckInTimed
PROPERTIES
  FastPollTimed
