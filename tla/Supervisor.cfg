SPECIFICATION FairSpec
CONSTANTS
  MaxAttempts = 3
  MaxRestarts = 5
  MaxFrames = 2
INVARIANTS
  ChildIsReachable
  DisabledIsOff
PROPERTIES
  IsLifecycle
  LastWordsRecorded
  Recovers
  StopIsHeard
