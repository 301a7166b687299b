\* Two topics, one impression at a time, one customer, one crash, fairness.
SPECIFICATION FairSpec
CONSTANTS
  Nil = Nil
  Undecodable = Undecodable
  Untyped = Untyped
  Foreign = {Undecodable}
  Customer = {c1}
  OrderId = {o1, o2, o3}
  Goroutine = {g1}
  Partition <- TwoTopics
  SchemaRegistry = FALSE
  MaxBufferedRecords = 1
  MaxPollRecords = 2
  BufferSize = 2
  MaxCrashes = 1
INVARIANTS OneOrderPerLifetime FanOut
PROPERTIES CustomerIsKept CommitsCatchUp OrdersTopicsSpec
