SPECIFICATION Spec
CONSTANTS
  Ids <- MCIds
  KindOf <- MCKindOf
  Requires <- MCRequires
  Envs <- MCEnvs
  Configs <- MCConfigs
  Sources <- MCSources
  Machines <- MCMachines
  MaxChanges = 1
INVARIANTS
  CalmStartServes
  RestartIsQuiet
PROPERTIES
  BestIsPicked
