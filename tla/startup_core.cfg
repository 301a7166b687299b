\* Two processes with different parameters, one fault, fairness.
\* Once all run the system of this module is at rest.
SPECIFICATION FairSpec
CONSTANTS
  i1 = i1  i2 = i2  p = p  q = q
  Instance = {i1, i2}
  Params <- OtherParams
  SchemaRegistry = TRUE
  MetaEnabled = TRUE
  MaxFaults = 1
INVARIANTS TypeOK RunningIsReady ReferencesResolve
PROPERTIES ClusterOnlyGrows EventuallyAllRun
CHECK_DEADLOCK FALSE
