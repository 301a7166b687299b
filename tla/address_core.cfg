\* A topic with two addresses and a tombstone, two impressions, two crashes.
SPECIFICATION Spec
CONSTANTS
  t = t  c1 = c1  a1 = a1  a2 = a2  a3 = a3  a4 = a4  a5 = a5
  Topic = t
  Partition <- OneTopic
  Customer = {c1}
  AddressId = {a1, a2, a3, a4, a5}
  Seed <- UsedTopic
  Goroutine = {g1, g2}
  Nil = Nil
  Undecodable = Undecodable
  MaxBufferedRecords = 1
  MaxPollRecords = 2
  BufferSize = 2
  MaxCrashes = 2
SYMMETRY Symmetry
INVARIANTS TypeOK AddressesFromAddresses FeedbackDoesNotGrow OneSuccessorPerLifetime
