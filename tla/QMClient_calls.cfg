\* Every operation against every status in the tables, and two outside them.
SPECIFICATION Spec
CONSTANTS
  Statuses = {200, 201, 204, 400, 401, 403, 404, 502}
  Configs <- MCConfigs
  Daemon <- MCDaemonConfig
INVARIANTS TypeOK ErrorIsSeen ErrorExplained NilOnlyWithoutJSON
PROPERTY CallReturns
