\* One option varied in the file and one in the environment; two services.
\* A process whose configuration is refused exits, and impressions are bounded.
SPECIFICATION FairSpec
CONSTANTS
  Yaml <- Files
  Env <- Environments
  Service = {"frontend", "order"}
  MaxBufferedRecords = 1
  MaxImpressions = 3
INVARIANTS TypeOK LoadedAsWritten AcceptedMechanismIsUsed
PROPERTIES RateLoopNeverWaits ServicesAreIsolated
CHECK_DEADLOCK FALSE
