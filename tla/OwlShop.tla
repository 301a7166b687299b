------------------------------ MODULE OwlShop ------------------------------
(***************************************************************************)
(* The customer service and the order service in one process, joined by    *)
(* the customers topic: what the one's client delivers is what the other's *)
(* consumer group reads.  The environment of OrderService, which publishes *)
(* whatever the topic's contract allows, is replaced by the service that   *)
(* does publish there (pkg/shop/shop.go:48-119, README.md:12-17).          *)
(*                                                                         *)
(* The services share no other state that either reads: each has its own   *)
(* clients and its own slice, and the metrics are only ever written.  Each *)
(* counts what it produces under event types of its own; what consumers    *)
(* read is counted under one event type for both the order service and the *)
(* address service (order_service.go:116, address_service.go:121-123), of  *)
(* which consumed is the order service's part.  A crash ends both.         *)
(***************************************************************************)
EXTENDS Naturals, Sequences, FiniteSets, Functions

CONSTANTS
  Customer, OrderId, Nil, Undecodable, Untyped,
  Visitor, Buyer,      \* bound: concurrent impressions of the two services
  OrderTopic,          \* the topics orders go to
  SchemaRegistry,
  BufferSize, MaxBufferedRecords, MaxPollRecords, MaxCrashes

ASSUME ShopAssumption ==
  /\ OrderTopic = IF SchemaRegistry
                  THEN {"orders", "orders-protobuf-plain",
                        "orders-protobuf-sr", "orders-avro-sr"}
                  ELSE {"orders", "orders-protobuf-plain"}
  /\ SchemaRegistry \in BOOLEAN
  /\ {Nil, Undecodable, Untyped} \cap Nat = {}
  /\ Cardinality({Nil, Undecodable, Untyped}) = 3
  /\ {BufferSize, MaxBufferedRecords, MaxPollRecords} \subseteq Nat \ {0}
  /\ MaxCrashes \in Nat

VARIABLES
  \* the customer service: its client, its topic, its memory
  customersBuffered, customersLog, customersLost,
  changeable, registered, visit, customersCounted,
  \* the order service: its client, its topics, its group, its memory
  ordersBuffered, ordersLog, ordersLost,
  position, fetched, committable, committed,
  orderable, orderIds, purchase, ordersCounted, consumed,
  \* the process
  crashes

customerVars == <<customersBuffered, customersLog, customersLost,
                  changeable, registered, visit, customersCounted>>
orderVars == <<ordersBuffered, ordersLog, ordersLost, position, fetched,
               committable, committed, orderable, orderIds, purchase,
               ordersCounted, consumed>>
vars == <<customerVars, orderVars, crashes>>

(* The customers topic, of one partition (TopicPartitionCount is 1).       *)
Topic == "customers"

Customers == INSTANCE CustomerService WITH
  Partition <- {Topic}, PartitionOf <- [c \in Customer |-> Topic],
  Goroutine <- Visitor,
  buffered <- customersBuffered, log <- customersLog, lost <- customersLost,
  recentCustomers <- changeable, task <- visit, counted <- customersCounted

Orders == INSTANCE OrderService WITH
  Partition <- OrderTopic, Goroutine <- Buyer, Foreign <- {},
  buffered <- ordersBuffered, log <- ordersLog, lost <- ordersLost,
  source <- customersLog[Topic],
  recentCustomers <- orderable, task <- purchase, counted <- ordersCounted

Init == Customers!Init /\ Orders!Init

CustomerImpression ==
  /\ \E g \in Visitor : Customers!Impression(g) \/ Customers!Continue(g)
  /\ UNCHANGED orderVars

CustomerClient == Customers!Client(Topic) /\ UNCHANGED orderVars

OrderConsumer ==
  /\ UNCHANGED customerVars
  /\ Orders!Start \/ Orders!Commit

OrderImpression ==
  /\ UNCHANGED customerVars
  /\ \E g \in Buyer :
       Orders!CreateOrder(g) \/ Orders!NothingToPop(g) \/ Orders!Continue(g)

OrderClient(t) == UNCHANGED customerVars /\ Orders!ProducerClient(t)

(* Both services live in one process.                                      *)
Crash == Customers!Crash /\ Orders!Crash

Next ==
  \/ CustomerImpression
  \/ CustomerClient
  \/ OrderConsumer
  \/ OrderImpression
  \/ \E t \in OrderTopic : OrderClient(t)
  \/ Crash

Spec == Init /\ [][Next]_vars

(* The fairness of the two services.                                       *)
FairSpec ==
  /\ Spec
  /\ \A g \in Visitor : WF_vars(Customers!Continue(g) /\ UNCHANGED orderVars)
  /\ WF_vars(CustomerClient)
  /\ WF_vars(UNCHANGED customerVars /\ Orders!Start)
  /\ WF_vars(UNCHANGED customerVars /\ Orders!Commit)
  /\ \A g \in Buyer : WF_vars(UNCHANGED customerVars /\ Orders!Continue(g))
  /\ \A t \in OrderTopic : WF_vars(OrderClient(t))
-----------------------------------------------------------------------------
(***************************************************************************)
(* Properties.                                                             *)
(***************************************************************************)

(* The order service behaves in the shop as in its own module: the         *)
(* customer service keeps the promises OrderService makes about its        *)
(* environment, whatever their impressions, clients and crashes do to each *)
(* other.                                                                  *)
OrderServiceSpec == Orders!Spec

(* From end to end, a customer gets at most one order per record of it in  *)
(* the topic that has a value, and process lifetime: the registration and  *)
(* at most one modification.                                               *)
Versions(c) == {r \in Range(customersLog[Topic]) : r.key = c /\ r.value # Nil}

OrdersOf(c) ==
  UNION {Orders!OrdersFor(c, state) : state \in {0, 1}}

OrdersPerCustomer ==
  \A c \in Customer :
    /\ Cardinality(OrdersOf(c)) <= Cardinality(Versions(c)) * (1 + crashes)
    /\ Cardinality(OrdersOf(c)) <= 2 * (1 + crashes)

(* A customer that registers becomes orderable and stays so until an order *)
(* is created for it, unless a delivery failed, the slice was full or the  *)
(* process died.                                                           *)
RegistrationLeadsToOrders ==
  \A c \in Customer :
    (c \in registered) ~>
      \/ []Orders!Cached(c, 0)
      \/ Orders!OrdersFor(c, 0) # {}
      \/ [key |-> c, value |-> 0] \in customersLost
      \/ Len(orderable) = BufferSize
      \/ crashes > 0

(* A started order reaches, or fails to reach, every topic for good.       *)
OrderSettles == Orders!OrderSettles
=============================================================================
