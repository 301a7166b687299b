\* Two goroutines on a reliable broker: the race alone.
SPECIFICATION ReliableSpec
CONSTANTS
  p1 = p1
  Nil = Nil
  Customer = {c1, c2}
  Goroutine = {g1, g2}
  Partition <- OnePartition
  PartitionOf <- AllToOne
  MaxBufferedRecords = 2
  BufferSize = 2
  MaxCrashes = 0
INVARIANT ChangesFollowRegistration
