SPECIFICATION FairSpec
CONSTANTS
  a = a
  b = b
  c = c
  Clients <- MCClients
  Asks <- MCAsks
  Silent = {}
  Stalled = {a}
  PickerEdits = FALSE
  None = None
  MaxVersion = 3
  MaxCopies = 1
INVARIANTS
  NoLostWakeup
PROPERTIES
  SubscribersCatchUp
  EveryRequestAnswered
CHECK_DEADLOCK FALSE
