SPECIFICATION Spec
CONSTANTS
  main = main
  worker = worker
  text = text
  word = word
  image = image
  large = large
  Contents <- MCFew
  Size <- MCFewSize
  Images <- MCImages
  Main = main
  Workers = {worker}
  None = None
  MaxItemSize = 3
  CacheBudget = 3
  MaxEntries = 3
  MaxAge = 0
  MaxTotal = 3
  CanCrash = TRUE
  MaxKept = 1
  MaxId = 3
  MaxClock = 1
INVARIANTS
  CacheAccounted
  NeverAnotherPayload
PROPERTIES
  NoEvictionBeyondBudget
  IsHistory
