SPECIFICATION FairSpec
CONSTANTS
  one = one
  two = two
  Copies = {one, two}
  Setups <- MCSetups
  MaxMishaps = 1
INVARIANTS
  NothingStaleIsPasted
  PastesAreAsked
  KeysAreLetGo
PROPERTIES
  CopiesComeThrough
