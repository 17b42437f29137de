SPECIFICATION Spec
CONSTANTS
  Ids <- MCIds
  KindOf <- MCKindOf
  Requires <- MCRequires
  Envs <- MCEnvs
  Configs <- MCConfigs
  Sources <- MCSources
  Machines <- MCMachines
  MaxChanges = 0
PROPERTIES
  NeverWrongSession
