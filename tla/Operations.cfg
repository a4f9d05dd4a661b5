CONSTANTS
  Pods = {p1, p2}
  Files = {1, 2, 3}
  Idempotent = {1, 3}
  Undoes <- MCUndoes
  Configs <- MCConfigs
  MaxCrashes = 2
  Clients = {c1, c2}
  WatchIds = {"w"}
  NewWatches <- MCNewWatches
  Edits <- MCEdits
  MaxCommands = 5
  Alerts = {1, 2, 3}
  Kinds <- MCKinds
  Queries <- MCQueries
  Operators = {o1, o2}
  MaxClicks = 2
SPECIFICATION MCSpec
CHECK_DEADLOCK FALSE
INVARIANTS SchemaBeforeServe PoolOutlivesJobs RoutesHaveParts NoneSkipped LabelTruthful
PROPERTIES PodsMigrate SerialEditsKept
