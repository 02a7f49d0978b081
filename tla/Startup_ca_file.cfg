\* A CA file beside an SVID.
SPECIFICATION Spec
CONSTANTS
  None = None
  Configs <- MCConfigs
INVARIANT CAFileVerifies
