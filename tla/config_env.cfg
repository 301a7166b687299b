\* As in traffic_core.
SPECIFICATION FairSpec
CONSTANTS
  Yaml <- Files
  Env <- Environments
  Service = {"frontend"}
  MaxBufferedRecords = 1
  MaxImpressions = 1
INVARIANT EnvironmentConfigures
CHECK_DEADLOCK FALSE
