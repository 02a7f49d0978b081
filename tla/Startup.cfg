\* Every configuration of MCConfigs, every way a step may fail.
SPECIFICATION Spec
CONSTANTS
  None = None
  Configs <- MCConfigs
INVARIANTS TypeOK NeverPanics IdentityPresented TokenTyped CAFileOrBundle
