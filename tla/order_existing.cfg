\* One customer, one impression, no crash, nobody else writes to the topic:
\* an order for a customer that was cached before its tombstone was read.
SPECIFICATION Spec
CONSTANTS
  Nil = Nil
  Undecodable = Undecodable
  Untyped = Untyped
  Foreign = {}
  Customer = {c1}
  OrderId = {o1, o2}
  Goroutine = {g1}
  Partition <- TwoTopics
  SchemaRegistry = FALSE
  MaxBufferedRecords = 1
  MaxPollRecords = 2
  BufferSize = 2
  MaxCrashes = 0
PROPERTY OrdersReferenceExistingCustomers
