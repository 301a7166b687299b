\* One impression, one customer, no crash: a delivery timeout alone.
SPECIFICATION Spec
CONSTANTS
  p1 = p1
  Nil = Nil
  Customer = {c1}
  Goroutine = {g1}
  Partition <- OnePartition
  PartitionOf <- AllToOne
  MaxBufferedRecords = 2
  BufferSize = 2
  MaxCrashes = 0
INVARIANT MetricCountsTopicMessages
