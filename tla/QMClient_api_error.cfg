\* A status outside the tables, and a known one without a JSON body.
SPECIFICATION Spec
CONSTANTS
  Statuses = {200, 401, 502}
  Configs <- MCConfigs
  Daemon <- MCDaemonConfig
INVARIANT NonSuccessIsAPIError
