SPECIFICATION FairSpec
CONSTANTS
  text = text
  word = word
  image = image
  files = files
  Contents = {text, word, image, files}
  Kind <- MCKind
  None = None
  MaxChanges = 2
  MaxSets = 1
INVARIANTS
  NothingMissed
PROPERTIES
  SettledIsReported
  OrphanEndsAtNextCopy
