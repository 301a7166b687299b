\* One customer, two of its impressions at a time, three orders, one crash.
SPECIFICATION FairSpec
CONSTANTS
  Nil = Nil
  Undecodable = Undecodable
  Untyped = Untyped
  Customer = {c1}
  OrderId = {o1, o2, o3}
  Visitor = {v1, v2}
  Buyer = {b1}
  OrderTopic <- TwoTopics
  SchemaRegistry = FALSE
  BufferSize = 3
  MaxBufferedRecords = 1
  MaxPollRecords = 2
  MaxCrashes = 1
INVARIANT OrdersPerCustomer
PROPERTIES OrderServiceSpec RegistrationLeadsToOrders OrderSettles
