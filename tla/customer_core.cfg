\* Three goroutines, two customers, a slice of one, one crash, fairness.
SPECIFICATION FairSpec
CONSTANTS
  p1 = p1
  Nil = Nil
  Customer = {c1, c2}
  Goroutine = {g1, g2, g3}
  Partition <- OnePartition
  PartitionOf <- AllToOne
  MaxBufferedRecords = 2
  BufferSize = 1
  MaxCrashes = 1
INVARIANTS TypeOK AtMostOneChange SoleClaimant MetricCountsProduceCalls
PROPERTIES TopicSpec RegistrationSettles PoppedCustomerIsChanged
