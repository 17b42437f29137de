SPECIFICATION Spec
CONSTANTS
  Procs = {daemon, cli}
  Jobs = {first, second}
  LastRelease = 2
  MaxMishaps = 1
  Configs <- MCConfigs
INVARIANTS
  SettledIsUsable
PROPERTIES
  PublishedWhole
  FailuresKeepThePrevious
  OkMeansCurrent
  LeftoversAreNoObstacle
SYMMETRY Symmetry
