SPECIFICATION FairSpec
CONSTANTS
  main = main
  worker = worker
  text = text
  word = word
  image = image
  large = large
  Contents <- MCContents
  Size <- MCSize
  Images <- MCImages
  Main = main
  Workers = {}
  None = None
  MaxItemSize = 3
  CacheBudget = 2
  MaxEntries = 2
  MaxAge = 1
  MaxTotal = 3
  CanCrash = FALSE
  MaxKept = 2
  MaxId = 4
  MaxClock = 2
INVARIANTS
  DeletedNotServed
  ThumbnailsFollowRows
PROPERTIES
  PruneReachesLimits
  OldestGoFirst
  PinnedSurvive
  PruneTerminates
