\* Four topics, two impressions at a time, two records of one customer, no crash.
SPECIFICATION Spec
CONSTANTS
  Nil = Nil
  Undecodable = Undecodable
  Untyped = Untyped
  Foreign = {Untyped}
  Customer = {c1}
  OrderId = {o1, o2}
  Goroutine = {g1, g2}
  Partition <- FourTopics
  SchemaRegistry = TRUE
  MaxBufferedRecords = 1
  MaxPollRecords = 1
  BufferSize = 1
  MaxCrashes = 0
SYMMETRY Symmetry
CONSTRAINT TwoRecords
INVARIANTS TypeOK FanOut MetricCountsMessages
