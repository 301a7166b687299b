--------------------------- MODULE OwlShopProofs ---------------------------
(***************************************************************************)
(* Proofs about OwlShop: each service in the shop is the service of its    *)
(* own module, so what is proved there holds here, for any number of       *)
(* customers, orders, impressions and crashes.                             *)
(***************************************************************************)
EXTENDS OwlShop, FiniteSetTheorems, TLAPS

USE ShopAssumption

(* The theorems of the two services. *)
CustomersProved == INSTANCE CustomerServiceProofs WITH
  Partition <- {Topic}, PartitionOf <- [c \in Customer |-> Topic],
  Goroutine <- Visitor,
  buffered <- customersBuffered, log <- customersLog, lost <- customersLost,
  recentCustomers <- changeable, task <- visit, counted <- customersCounted

OrdersProved == INSTANCE OrderServiceProofs WITH
  Partition <- OrderTopic, Goroutine <- Buyer, Foreign <- {},
  buffered <- ordersBuffered, log <- ordersLog, lost <- ordersLost,
  source <- customersLog[Topic],
  recentCustomers <- orderable, task <- purchase, counted <- ordersCounted

-----------------------------------------------------------------------------
(* The customer service. *)

LEMMA SameCustomerBacklog == CustomersProved!Backlog = Customers!Backlog
BY DEF CustomersProved!Backlog, Customers!Backlog,
       CustomersProved!MapThenSumSet, Customers!MapThenSumSet,
       CustomersProved!MapThenFoldSet, Customers!MapThenFoldSet

LEMMA SameCustomerRange == \A f : CustomersProved!Range(f) = Customers!Range(f)
BY DEF CustomersProved!Range, Customers!Range

(* The small definitions. *)
LEMMA SameCustomerTerms ==
  /\ CustomersProved!Idle = Customers!Idle
  /\ CustomersProved!Event = Customers!Event
  /\ \A e, id, v : CustomersProved!ProduceNext(e, id, v) = Customers!ProduceNext(e, id, v)
  /\ \A id : CustomersProved!Remember(id) = Customers!Remember(id)
  /\ CustomersProved!PopCustomer = Customers!PopCustomer
  /\ \A p, r : CustomersProved!Produce(p, r) = Customers!Produce(p, r)
  /\ \A p : CustomersProved!Deliver(p) = Customers!Deliver(p)
  /\ \A p : CustomersProved!ExpireBuffered(p) = Customers!ExpireBuffered(p)
  /\ CustomersProved!LoseBuffered = Customers!LoseBuffered
<1>1. /\ CustomersProved!Idle = Customers!Idle
      /\ CustomersProved!Event = Customers!Event
      /\ \A e, id, v :
           CustomersProved!ProduceNext(e, id, v) = Customers!ProduceNext(e, id, v)
      /\ \A id : CustomersProved!Remember(id) = Customers!Remember(id)
      /\ CustomersProved!PopCustomer = Customers!PopCustomer
  BY DEF CustomersProved!Idle, Customers!Idle, CustomersProved!Event, Customers!Event,
         CustomersProved!ProduceNext, Customers!ProduceNext,
         CustomersProved!Remember, Customers!Remember,
         CustomersProved!PopCustomer, Customers!PopCustomer
<1>2. /\ \A p, r : CustomersProved!Produce(p, r) = Customers!Produce(p, r)
      /\ \A p : CustomersProved!Deliver(p) = Customers!Deliver(p)
  BY SameCustomerBacklog
     DEF CustomersProved!Produce, Customers!Produce,
         CustomersProved!Deliver, Customers!Deliver
<1>3. /\ \A p : CustomersProved!ExpireBuffered(p) = Customers!ExpireBuffered(p)
      /\ CustomersProved!LoseBuffered = Customers!LoseBuffered
  BY SameCustomerRange
     DEF CustomersProved!ExpireBuffered, Customers!ExpireBuffered,
         CustomersProved!LoseBuffered, Customers!LoseBuffered
<1> QED BY <1>1, <1>2, <1>3

LEMMA SameCustomerInit == Customers!Init => CustomersProved!Init
BY SameCustomerTerms
   DEF Customers!Init, CustomersProved!Init,
       Customers!ProducerInit, CustomersProved!ProducerInit

LEMMA SameCustomerImpression ==
  ASSUME NEW g \in Visitor
  PROVE  /\ Customers!Impression(g) => CustomersProved!Impression(g)
         /\ Customers!Continue(g) => CustomersProved!Continue(g)
<1>1. /\ Customers!CreateCustomer(g) => CustomersProved!CreateCustomer(g)
      /\ Customers!ModifyCustomer(g) => CustomersProved!ModifyCustomer(g)
      /\ Customers!DeleteCustomer(g) => CustomersProved!DeleteCustomer(g)
      /\ Customers!NothingToPop(g) => CustomersProved!NothingToPop(g)
  BY SameCustomerTerms
     DEF Customers!CreateCustomer, CustomersProved!CreateCustomer,
         Customers!ModifyCustomer, CustomersProved!ModifyCustomer,
         Customers!DeleteCustomer, CustomersProved!DeleteCustomer,
         Customers!NothingToPop, CustomersProved!NothingToPop,
         Customers!vars, CustomersProved!vars,
         Customers!producerVars, CustomersProved!producerVars,
         Customers!serviceVars, CustomersProved!serviceVars
<1>2. /\ Customers!ProduceRecord(g) => CustomersProved!ProduceRecord(g)
      /\ Customers!CountProduced(g) => CustomersProved!CountProduced(g)
  BY SameCustomerTerms
     DEF Customers!ProduceRecord, CustomersProved!ProduceRecord,
         Customers!CountProduced, CustomersProved!CountProduced,
         Customers!producerVars, CustomersProved!producerVars
<1> QED BY <1>1, <1>2 DEF Customers!Impression, CustomersProved!Impression,
                          Customers!Continue, CustomersProved!Continue

(* A step of the shop is one of the customer service, or leaves it alone.  *)
LEMMA CustomerStep ==
  [Next]_vars => [CustomersProved!Next]_(CustomersProved!vars)
<1> SUFFICES ASSUME [Next]_vars
             PROVE  [CustomersProved!Next]_(CustomersProved!vars)
  OBVIOUS
<1> USE DEF CustomersProved!vars, CustomersProved!producerVars,
            CustomersProved!serviceVars
<1>1. CASE CustomerImpression
  BY <1>1, SameCustomerImpression DEF CustomerImpression, CustomersProved!Next
<1>2. CASE CustomerClient
  <2>1. CustomersProved!Client(Topic)
    BY <1>2, SameCustomerTerms
       DEF CustomerClient, Customers!Client, CustomersProved!Client,
           Customers!serviceVars
  <2> QED BY <2>1 DEF CustomersProved!Next
<1>3. CASE Crash
  <2>1. CustomersProved!Crash
    BY <1>3, SameCustomerTerms DEF Crash, Customers!Crash, CustomersProved!Crash
  <2> QED BY <2>1 DEF CustomersProved!Next
<1>4. CASE OrderConsumer \/ OrderImpression \/ \E t \in OrderTopic : OrderClient(t)
  <2>1. UNCHANGED customerVars
    BY <1>4 DEF OrderConsumer, OrderImpression, OrderClient
  <2>2. UNCHANGED crashes
    BY <1>4 DEF OrderConsumer, OrderImpression, OrderClient, Orders!Start,
                Orders!HandleRecord, Orders!HandleRecordSkipping, Orders!Poll,
                Orders!Commit, Orders!CreateOrder, Orders!CreateOrderLeaving,
                Orders!NothingToPop, Orders!Continue, Orders!ProduceOrder,
                Orders!EncodingFails, Orders!CountProduced, Orders!ProducerClient,
                Orders!serviceVars, Orders!vars
  <2> QED BY <2>1, <2>2 DEF customerVars
<1>5. CASE UNCHANGED vars
  BY <1>5 DEF vars, customerVars
<1> QED BY <1>1, <1>2, <1>3, <1>4, <1>5 DEF Next

(* What the customer service promises. *)
CustomersKeep == CustomersProved!TypeOK /\ CustomersProved!SoleClaimant

LEMMA InitCustomersKeep == Init => CustomersKeep
BY SameCustomerInit, CustomersProved!InitTypeOK, CustomersProved!InitSoleClaimant
   DEF Init, CustomersKeep

LEMMA NextCustomersKeep == CustomersKeep /\ [Next]_vars => CustomersKeep'
BY CustomerStep, CustomersProved!NextTypeOK, CustomersProved!NextSoleClaimant
   DEF CustomersKeep

LEMMA CustomersKeepAlways == Spec => []CustomersKeep
<1> QED BY InitCustomersKeep, NextCustomersKeep, PTL DEF Spec

-----------------------------------------------------------------------------
(* The customer service as the environment of the order service.           *)

(* What the client of the customer service delivers is a record that       *)
(* OrderService allows to appear: no earlier one makes its claim.          *)
LEMMA DeliveredIsAllowed ==
  ASSUME CustomersKeep, Customers!Deliver(Topic)
  PROVE  \E rec \in Orders!SourceRecord :
           /\ \A i \in DOMAIN customersLog[Topic] :
                ~ Orders!SameClaim(customersLog[Topic][i], rec)
           /\ customersLog'[Topic] = Append(customersLog[Topic], rec)
<1> DEFINE rec == Head(customersBuffered[Topic])
           written == customersLog[Topic]
           pipe == CustomersProved!Pipe(Topic)
<1>1. /\ customersBuffered[Topic] \in Seq(CustomersProved!Record)
      /\ customersBuffered[Topic] # <<>>
      /\ written \in Seq(CustomersProved!Record)
      /\ customersLog' = [customersLog EXCEPT ![Topic] = Append(@, rec)]
      /\ Topic \in DOMAIN customersLog
  BY DEF CustomersKeep, CustomersProved!TypeOK, Customers!Deliver
<1>2. customersLog'[Topic] = Append(written, rec)
  BY <1>1
<1>3. /\ pipe = written \o customersBuffered[Topic]
      /\ Len(written) \in Nat /\ Len(customersBuffered[Topic]) \in Nat \ {0}
      /\ rec = customersBuffered[Topic][1]
      /\ rec \in CustomersProved!Record
  BY <1>1 DEF CustomersProved!Pipe
<1>4. /\ DOMAIN pipe = 1..(Len(written) + Len(customersBuffered[Topic]))
      /\ pipe[Len(written) + 1] = rec
      /\ \A i \in DOMAIN written : pipe[i] = written[i] /\ i \in 1..Len(written)
  BY <1>1, <1>3
<1>5. ASSUME NEW i \in DOMAIN pipe
      PROVE  pipe[i].value \in {0, 1, Nil}
  BY <1>5 DEF CustomersKeep, CustomersProved!SoleClaimant, CustomersProved!RecordsWellFormed
<1>6. ASSUME NEW i \in DOMAIN pipe, NEW j \in DOMAIN pipe,
             CustomersProved!SameClaim(pipe[i], pipe[j])
      PROVE  i = j
  BY <1>6 DEF CustomersKeep, CustomersProved!SoleClaimant, CustomersProved!AtMostOneChange
<1> HIDE DEF rec, written, pipe
<1>7. Len(written) + 1 \in DOMAIN pipe
  BY <1>3, <1>4
<1>8. rec \in Orders!SourceRecord
  <2>1. rec.value \in {0, 1, Nil}
    BY <1>4, <1>5, <1>7
  <2> QED BY <1>3, <2>1 DEF Orders!SourceRecord, CustomersProved!Record
<1>9. ASSUME NEW i \in DOMAIN written, Orders!SameClaim(written[i], rec)
      PROVE  FALSE
  <2>1. i \in DOMAIN pipe /\ i # Len(written) + 1 /\ pipe[i] = written[i]
    BY <1>3, <1>4
  <2>2. written[i].value \in {0, 1, Nil} /\ rec.value \in {0, 1, Nil}
    BY <1>4, <1>5, <1>7, <2>1
  <2>3. CustomersProved!SameClaim(written[i], rec)
    BY <1>9, <2>2 DEF Orders!SameClaim, CustomersProved!SameClaim, CustomersProved!IsChange
  <2> QED BY <1>4, <1>6, <1>7, <2>1, <2>3
<1> QED BY <1>2, <1>8, <1>9 DEF written

(* A step of the shop is one of the order service, its environment's, or   *)
(* leaves it alone.                                                        *)
LEMMA OrderStep ==
  CustomersKeep /\ [Next]_vars => [Orders!Next]_(Orders!vars)
<1> SUFFICES ASSUME CustomersKeep, [Next]_vars
             PROVE  [Orders!Next]_(Orders!vars)
  OBVIOUS
<1> USE DEF Orders!vars, Orders!producerVars, Orders!consumerVars, Orders!serviceVars
<1>1. CASE CustomerImpression
  <2>1. UNCHANGED <<orderVars, customersLog, crashes>>
    BY <1>1 DEF CustomerImpression, Customers!Impression, Customers!CreateCustomer,
                Customers!ModifyCustomer, Customers!DeleteCustomer,
                Customers!NothingToPop, Customers!Continue, Customers!ProduceRecord,
                Customers!CountProduced, Customers!Produce, Customers!producerVars,
                Customers!serviceVars, Customers!vars
  <2> QED BY <2>1 DEF orderVars
<1>2. CASE CustomerClient
  <2>1. UNCHANGED <<orderVars, crashes>>
    BY <1>2 DEF CustomerClient, Customers!Client, Customers!serviceVars
  <2>2. CASE Customers!Deliver(Topic)
    <3>1. Orders!CustomerPublished
      BY <2>1, <2>2, DeliveredIsAllowed DEF Orders!CustomerPublished, orderVars
    <3> QED BY <3>1 DEF Orders!Next
  <2>3. CASE Customers!ExpireBuffered(Topic)
    BY <2>1, <2>3 DEF Customers!ExpireBuffered, orderVars
  <2> QED BY <1>2, <2>2, <2>3 DEF CustomerClient, Customers!Client
<1>3. CASE OrderConsumer \/ OrderImpression \/ \E t \in OrderTopic : OrderClient(t)
  BY <1>3 DEF OrderConsumer, OrderImpression, OrderClient, Orders!Next
<1>4. CASE Crash
  BY <1>4 DEF Crash, Orders!Next
<1>5. CASE UNCHANGED vars
  BY <1>5 DEF vars, customerVars, orderVars
<1> QED BY <1>1, <1>2, <1>3, <1>4, <1>5 DEF Next

(* OrderServiceSpec: the order service behaves in the shop as in its own   *)
(* module, because the customer service keeps the promises made about its  *)
(* environment (shop.go:48-119, README.md:12-17).                          *)
THEOREM OrderServiceInShop == Spec => OrderServiceSpec
<1>1. Init => Orders!Init
  BY DEF Init
<1> QED BY <1>1, OrderStep, CustomersKeepAlways, PTL DEF Spec, OrderServiceSpec, Orders!Spec

-----------------------------------------------------------------------------
(* The order service. *)

LEMMA SameOrderBacklog == OrdersProved!Backlog = Orders!Backlog
BY DEF OrdersProved!Backlog, Orders!Backlog,
       OrdersProved!MapThenSumSet, Orders!MapThenSumSet,
       OrdersProved!MapThenFoldSet, Orders!MapThenFoldSet

LEMMA SameOrderTerms ==
  /\ OrdersProved!Script = Orders!Script
  /\ OrdersProved!Idle = Orders!Idle
  /\ OrdersProved!FreshId = Orders!FreshId
  /\ OrdersProved!SourceRecord = Orders!SourceRecord
  /\ \A r, q : OrdersProved!SameClaim(r, q) = Orders!SameClaim(r, q)
  /\ \A t, o : OrdersProved!Message(t, o) = Orders!Message(t, o)
  /\ \A t, o : OrdersProved!Encodes(t, o) = Orders!Encodes(t, o)
  /\ \A g : OrdersProved!Todo(g) = Orders!Todo(g)
  /\ \A g : OrdersProved!Busy(g) = Orders!Busy(g)
BY DEF OrdersProved!Script, Orders!Script, OrdersProved!ProduceTo, Orders!ProduceTo,
       OrdersProved!Add, Orders!Add, OrdersProved!Topics, Orders!Topics,
       OrdersProved!Idle, Orders!Idle, OrdersProved!FreshId, Orders!FreshId,
       OrdersProved!SourceRecord, Orders!SourceRecord,
       OrdersProved!SameClaim, Orders!SameClaim, OrdersProved!Message, Orders!Message,
       OrdersProved!Encodes, Orders!Encodes, OrdersProved!Todo, Orders!Todo,
       OrdersProved!Busy, Orders!Busy

LEMMA SameOrderClients ==
  /\ \A t, m : OrdersProved!Produce(t, m) = Orders!Produce(t, m)
  /\ \A t : OrdersProved!Deliver(t) = Orders!Deliver(t)
  /\ \A t : OrdersProved!ExpireBuffered(t) = Orders!ExpireBuffered(t)
  /\ OrdersProved!LoseBuffered = Orders!LoseBuffered
  /\ OrdersProved!EnterPoll = Orders!EnterPoll
  /\ OrdersProved!PollReturns = Orders!PollReturns
  /\ OrdersProved!NextRecord = Orders!NextRecord
  /\ OrdersProved!AutoCommit = Orders!AutoCommit
  /\ OrdersProved!Resume = Orders!Resume
<1>1. /\ \A t, m : OrdersProved!Produce(t, m) = Orders!Produce(t, m)
      /\ \A t : OrdersProved!Deliver(t) = Orders!Deliver(t)
  BY SameOrderBacklog
     DEF OrdersProved!Produce, Orders!Produce, OrdersProved!Deliver, Orders!Deliver
<1>2. /\ \A t : OrdersProved!ExpireBuffered(t) = Orders!ExpireBuffered(t)
      /\ OrdersProved!LoseBuffered = Orders!LoseBuffered
  <2>1. \A f : OrdersProved!Range(f) = Orders!Range(f)
    BY DEF OrdersProved!Range, Orders!Range
  <2> QED BY <2>1 DEF OrdersProved!ExpireBuffered, Orders!ExpireBuffered,
                      OrdersProved!LoseBuffered, Orders!LoseBuffered
<1>3. /\ OrdersProved!EnterPoll = Orders!EnterPoll
      /\ OrdersProved!PollReturns = Orders!PollReturns
      /\ OrdersProved!NextRecord = Orders!NextRecord
      /\ OrdersProved!AutoCommit = Orders!AutoCommit
      /\ OrdersProved!Resume = Orders!Resume
  BY DEF OrdersProved!EnterPoll, Orders!EnterPoll, OrdersProved!PollReturns,
         Orders!PollReturns, OrdersProved!NextRecord, Orders!NextRecord,
         OrdersProved!AutoCommit, Orders!AutoCommit, OrdersProved!Resume, Orders!Resume
<1> QED BY <1>1, <1>2, <1>3

LEMMA SameOrderVars ==
  /\ OrdersProved!vars = Orders!vars
  /\ OrdersProved!producerVars = Orders!producerVars
  /\ OrdersProved!consumerVars = Orders!consumerVars
  /\ OrdersProved!serviceVars = Orders!serviceVars
BY DEF OrdersProved!vars, Orders!vars, OrdersProved!producerVars, Orders!producerVars,
       OrdersProved!consumerVars, Orders!consumerVars,
       OrdersProved!serviceVars, Orders!serviceVars

LEMMA SameOrderInit == Orders!Init => OrdersProved!Init
BY SameOrderTerms
   DEF Orders!Init, OrdersProved!Init, Orders!ProducerInit, OrdersProved!ProducerInit,
       Orders!ConsumerInit, OrdersProved!ConsumerInit

LEMMA SameOrderNext ==
  [Orders!Next]_(Orders!vars) => [OrdersProved!Next]_(OrdersProved!vars)
<1> SUFFICES ASSUME [Orders!Next]_(Orders!vars)
             PROVE  [OrdersProved!Next]_(OrdersProved!vars)
  OBVIOUS
<1> USE SameOrderTerms, SameOrderClients, SameOrderVars
    DEF Orders!vars, Orders!producerVars, Orders!consumerVars, Orders!serviceVars,
        OrdersProved!vars, OrdersProved!producerVars, OrdersProved!consumerVars,
        OrdersProved!serviceVars
<1>1. Orders!CustomerPublished => OrdersProved!CustomerPublished
  BY DEF Orders!CustomerPublished, OrdersProved!CustomerPublished
<1>2. Orders!Start => OrdersProved!Start
  BY DEF Orders!Start, OrdersProved!Start, Orders!HandleRecord, OrdersProved!HandleRecord,
         Orders!HandleRecordSkipping, OrdersProved!HandleRecordSkipping,
         Orders!Remember, OrdersProved!Remember, Orders!Poll, OrdersProved!Poll
<1>3. Orders!Commit => OrdersProved!Commit
  BY DEF Orders!Commit, OrdersProved!Commit
<1>4. ASSUME NEW g \in Buyer
      PROVE  /\ Orders!CreateOrder(g) => OrdersProved!CreateOrder(g)
             /\ Orders!NothingToPop(g) => OrdersProved!NothingToPop(g)
  BY DEF Orders!CreateOrder, OrdersProved!CreateOrder,
         Orders!CreateOrderLeaving, OrdersProved!CreateOrderLeaving,
         Orders!NothingToPop, OrdersProved!NothingToPop
<1>5. ASSUME NEW g \in Buyer
      PROVE  Orders!Continue(g) => OrdersProved!Continue(g)
  BY DEF Orders!Continue, OrdersProved!Continue,
         Orders!ProduceOrder, OrdersProved!ProduceOrder,
         Orders!EncodingFails, OrdersProved!EncodingFails,
         Orders!CountProduced, OrdersProved!CountProduced
<1>6. ASSUME NEW t \in OrderTopic
      PROVE  Orders!ProducerClient(t) => OrdersProved!ProducerClient(t)
  BY DEF Orders!ProducerClient, OrdersProved!ProducerClient
<1>7. Orders!Crash => OrdersProved!Crash
  BY DEF Orders!Crash, OrdersProved!Crash
<1> QED BY <1>1, <1>2, <1>3, <1>4, <1>5, <1>6, <1>7 DEF Orders!Next, OrdersProved!Next

LEMMA OrderAssumptions ==
  /\ OrderTopic = OrdersProved!Range(OrdersProved!Topics)
  /\ OrdersProved!Cardinality({Nil, Undecodable, Untyped}) = 3
<1>1. OrderTopic = OrdersProved!Range(OrdersProved!Topics)
  <2>1. CASE SchemaRegistry
    BY <2>1 DEF OrdersProved!Range, OrdersProved!Topics
  <2>2. CASE ~ SchemaRegistry
    BY <2>2 DEF OrdersProved!Range, OrdersProved!Topics
  <2> QED BY <2>1, <2>2
<1>2. OrdersProved!Cardinality({Nil, Undecodable, Untyped})
        = Cardinality({Nil, Undecodable, Untyped})
  BY Zenon DEF OrdersProved!Cardinality, Cardinality
<1> QED BY <1>1, <1>2

OrdersKeep ==
  OrdersProved!TypeOK /\ OrdersProved!FanOutInv /\ OrdersProved!LifetimeInv

LEMMA InitOrdersKeep == Init => OrdersKeep
<1> SUFFICES ASSUME Init PROVE OrdersKeep
  OBVIOUS
<1>1. OrdersProved!Init
  BY SameOrderInit DEF Init
<1>2. OrdersProved!TypeOK
  BY <1>1, OrderAssumptions, OrdersProved!InitTypeOK
<1>3. OrdersProved!FanOutInv
  BY <1>1, OrderAssumptions, OrdersProved!InitFanOut
<1>4. OrdersProved!LifetimeInv
  BY <1>1, OrderAssumptions, OrdersProved!InitLifetimes
<1> QED BY <1>2, <1>3, <1>4 DEF OrdersKeep

LEMMA NextOrdersKeep == CustomersKeep /\ OrdersKeep /\ [Next]_vars => OrdersKeep'
<1> SUFFICES ASSUME CustomersKeep, OrdersKeep, [Next]_vars PROVE OrdersKeep'
  OBVIOUS
<1>1. [OrdersProved!Next]_(OrdersProved!vars)
  BY OrderStep, SameOrderNext
<1>2. OrdersProved!TypeOK'
  BY <1>1, OrderAssumptions, OrdersProved!NextTypeOK DEF OrdersKeep
<1>3. OrdersProved!FanOutInv'
  BY <1>1, OrderAssumptions, OrdersProved!NextFanOut DEF OrdersKeep
<1>4. OrdersProved!LifetimeInv'
  BY <1>1, OrderAssumptions, OrdersProved!NextLifetimes DEF OrdersKeep
<1> QED BY <1>2, <1>3, <1>4 DEF OrdersKeep

LEMMA OrdersKeepAlways == Spec => [](CustomersKeep /\ OrdersKeep)
<1> QED BY InitOrdersKeep, NextOrdersKeep, InitCustomersKeep, NextCustomersKeep, PTL
        DEF Spec

-----------------------------------------------------------------------------
(* From end to end. *)

LEMMA SameFiniteness ==
  ASSUME NEW S
  PROVE  /\ OrdersProved!Cardinality(S) = Cardinality(S)
         /\ Orders!Cardinality(S) = Cardinality(S)
         /\ Customers!Cardinality(S) = Cardinality(S)
         /\ OrdersProved!IsFiniteSet(S) = IsFiniteSet(S)
<1>1. /\ OrdersProved!Cardinality(S) = Cardinality(S)
      /\ Orders!Cardinality(S) = Cardinality(S)
      /\ Customers!Cardinality(S) = Cardinality(S)
  BY Zenon DEF OrdersProved!Cardinality, Orders!Cardinality, Customers!Cardinality,
               Cardinality
<1>2. OrdersProved!IsFiniteSet(S) = IsFiniteSet(S)
  BY Zenon DEF OrdersProved!IsFiniteSet, IsFiniteSet
<1> QED BY <1>1, <1>2

LEMMA SameOrders ==
  \A c, state : Orders!OrdersFor(c, state)
                  = OrdersProved!OrdersIn(OrdersProved!Topics[1], c, state)
BY DEF Orders!OrdersFor, OrdersProved!OrdersIn, Orders!Topics, OrdersProved!Topics,
       Orders!Handed, OrdersProved!Handed, Orders!Pipe, OrdersProved!Pipe,
       Orders!Range, OrdersProved!Range

(* The orders for one version of a customer. *)
LEMMA OrdersForVersion ==
  ASSUME CustomersKeep, OrdersKeep, NEW c \in Customer, NEW state \in {0, 1}
  PROVE  /\ IsFiniteSet(Orders!OrdersFor(c, state))
         /\ Cardinality(Orders!OrdersFor(c, state)) <= 1 + crashes
         /\ Orders!OrdersFor(c, state) # {} => [key |-> c, value |-> state] \in Versions(c)
<1> DEFINE T == OrdersProved!Topics[1]
<1>1. T \in OrderTopic
  BY DEF OrdersProved!Topics
<1>2. state \in OrdersProved!State
  BY DEF OrdersProved!State
<1>3. /\ OrdersProved!IsFiniteSet(OrdersProved!OrdersIn(T, c, state))
      /\ OrdersProved!Cardinality(OrdersProved!OrdersIn(T, c, state)) <= 1 + crashes
  BY <1>1, <1>2 DEF OrdersKeep, OrdersProved!LifetimeInv, OrdersProved!OrdersWithinLifetimes
<1>4. ASSUME OrdersProved!OrdersIn(T, c, state) # {}
      PROVE  [key |-> c, value |-> state] \in Versions(c)
  <2>1. OrdersProved!Published(c, state)
    BY <1>1, <1>4 DEF OrdersKeep, OrdersProved!LifetimeInv,
                      OrdersProved!CustomersArePublished, OrdersProved!OrdersIn
  <2>2. state # Nil
    OBVIOUS
  <2> QED BY <2>1, <2>2 DEF OrdersProved!Published, OrdersProved!CustomerRecord,
                            Versions, Range
<1> QED BY <1>3, <1>4, SameOrders, SameFiniteness

(* A sequence has no more elements than positions.                         *)
LEMMA RangeIsFinite ==
  ASSUME NEW S, NEW q \in Seq(S)
  PROVE  IsFiniteSet(Range(q)) /\ Cardinality(Range(q)) <= Len(q)
<1>1. q \in Surjection(1..Len(q), Range(q))
  BY DEF Surjection, Range
<1>2. IsFiniteSet(1..Len(q)) /\ Cardinality(1..Len(q)) = Len(q)
  <2>1. Len(q) \in Nat
    OBVIOUS
  <2>2. /\ IsFiniteSet(1..Len(q))
        /\ Cardinality(1..Len(q)) = IF 1 > Len(q) THEN 0 ELSE Len(q) - 1 + 1
    BY ONLY <2>1, FS_Interval
  <2> QED BY ONLY <2>1, <2>2
<1> QED BY <1>1, <1>2, FS_Surjection

LEMMA OrdersPerCustomerHolds == CustomersKeep /\ OrdersKeep => OrdersPerCustomer
<1> SUFFICES ASSUME CustomersKeep, OrdersKeep, NEW c \in Customer
             PROVE  /\ Cardinality(OrdersOf(c)) <= Cardinality(Versions(c)) * (1 + crashes)
                    /\ Cardinality(OrdersOf(c)) <= 2 * (1 + crashes)
  BY DEF OrdersPerCustomer
<1> DEFINE first == Orders!OrdersFor(c, 0)
           second == Orders!OrdersFor(c, 1)
           v == Cardinality(Versions(c))
           k == 1 + crashes
<1>1. OrdersOf(c) = first \cup second
  BY DEF OrdersOf
<1>2. /\ IsFiniteSet(first) /\ Cardinality(first) <= k
      /\ IsFiniteSet(second) /\ Cardinality(second) <= k
      /\ first # {} => [key |-> c, value |-> 0] \in Versions(c)
      /\ second # {} => [key |-> c, value |-> 1] \in Versions(c)
  BY OrdersForVersion
<1>3. k \in Nat \ {0}
  BY DEF CustomersKeep, CustomersProved!TypeOK
<1>4. IsFiniteSet(Versions(c)) /\ v \in Nat
  <2>1. customersLog[Topic] \in Seq(CustomersProved!Record)
    BY DEF CustomersKeep, CustomersProved!TypeOK
  <2>2. IsFiniteSet(Range(customersLog[Topic]))
    BY <2>1, RangeIsFinite
  <2>3. Versions(c) \in SUBSET Range(customersLog[Topic])
    BY DEF Versions
  <2> QED BY <2>2, <2>3, FS_Subset, FS_CardinalityType
<1> HIDE DEF first, second, v, k
<1>5. /\ Cardinality(first \cup second) <= Cardinality(first) + Cardinality(second)
      /\ Cardinality(first) \in Nat /\ Cardinality(second) \in Nat
      /\ Cardinality(first \cup second) \in Nat
  <2>1. IsFiniteSet(first \cap second) /\ IsFiniteSet(first \cup second)
    BY <1>2, FS_Intersection, FS_Union
  <2>2. Cardinality(first \cup second)
          = Cardinality(first) + Cardinality(second) - Cardinality(first \cap second)
    BY ONLY <1>2, FS_Union
  <2>3. /\ Cardinality(first) \in Nat /\ Cardinality(second) \in Nat
        /\ Cardinality(first \cap second) \in Nat /\ Cardinality(first \cup second) \in Nat
    BY ONLY <1>2, <2>1, FS_CardinalityType
  <2> QED BY ONLY <2>2, <2>3
<1>6. Cardinality(first \cup second) <= 2 * k
  BY <1>2, <1>3, <1>5
<1>7. Cardinality(first \cup second) <= v * k
  <2>1. CASE first = {} /\ second = {}
    <3>1. Cardinality(first \cup second) = 0
      BY <2>1, FS_EmptySet
    <3>2. v * k \in Nat
      BY <1>3, <1>4
    <3> QED BY <3>1, <3>2
  <2>2. CASE first # {} /\ second = {}
    <3>1. v >= 1
      BY <1>2, <1>4, <2>2, FS_EmptySet DEF v
    <3>2. v * k >= k
      BY <1>3, <1>4, <3>1
    <3>3. first \cup second = first /\ v * k \in Nat
      BY <1>3, <1>4, <2>2
    <3>4. Cardinality(first \cup second) <= k /\ v \in Nat
      BY <1>2, <1>4, <3>3
    <3> QED BY ONLY <1>3, <1>5, <3>2, <3>4
  <2>3. CASE first = {} /\ second # {}
    <3>1. v >= 1
      BY <1>2, <1>4, <2>3, FS_EmptySet DEF v
    <3>2. v * k >= k
      BY <1>3, <1>4, <3>1
    <3>3. first \cup second = second /\ v * k \in Nat
      BY <1>3, <1>4, <2>3
    <3>4. Cardinality(first \cup second) <= k /\ v \in Nat
      BY <1>2, <1>4, <3>3
    <3> QED BY ONLY <1>3, <1>5, <3>2, <3>4
  <2>4. CASE first # {} /\ second # {}
    <3>1. v >= 2
      <4> DEFINE a == [key |-> c, value |-> 0]
                 b == [key |-> c, value |-> 1]
      <4>1. {a, b} \in SUBSET Versions(c) /\ a # b
        BY <1>2, <2>4
      <4> HIDE DEF a, b
      <4>2. Cardinality({a, b}) = 2
        <5>1. {a, b} = {a} \cup {b} /\ b \notin {a}
          BY <4>1
        <5>2. IsFiniteSet({a}) /\ Cardinality({a}) = 1
          BY FS_Singleton
        <5>3. Cardinality({a} \cup {b}) = Cardinality({a}) + 1
          BY ONLY <5>1, <5>2, FS_AddElement
        <5> QED BY <5>1, <5>2, <5>3
      <4> QED BY <1>4, <4>1, <4>2, FS_Subset DEF v
    <3>2. v * k >= 2 * k
      <4>1. v * k = 2 * k + (v - 2) * k /\ (v - 2) * k >= 0
        BY <1>3, <1>4, <3>1
      <4> QED BY <1>3, <1>4, <4>1
    <3>3. v * k \in Nat
      BY <1>3, <1>4
    <3> QED BY <1>3, <1>5, <1>6, <3>2, <3>3
  <2> QED BY <2>1, <2>2, <2>3, <2>4
<1> QED BY <1>1, <1>6, <1>7 DEF v, k

(* OrdersPerCustomer: from end to end a customer gets at most one order    *)
(* per version in the topic and process lifetime (customer_service.go:     *)
(* 97-165, order_service.go:105-136, 541-553).                             *)
THEOREM OrdersPerCustomerInShop == Spec => []OrdersPerCustomer
<1> QED BY OrdersKeepAlways, OrdersPerCustomerHolds, PTL

-----------------------------------------------------------------------------
(* The topics.                                                             *)

LEMMA SameCustomersTopic ==
  /\ CustomersProved!Topic!Init = Customers!Topic!Init
  /\ CustomersProved!Topic!Next = Customers!Topic!Next
BY DEF CustomersProved!Topic!Init, Customers!Topic!Init,
       CustomersProved!Topic!Next, Customers!Topic!Next,
       CustomersProved!Topic!Publish, Customers!Topic!Publish,
       CustomersProved!Topic!Record, Customers!Topic!Record,
       CustomersProved!Topic!SameClaim, Customers!Topic!SameClaim,
       CustomersProved!Topic!IsChange, Customers!Topic!IsChange

(* The shop keeps what the customers topic promises all its readers, not   *)
(* only what its own order service relies on (customer_service.go:97-165). *)
THEOREM CustomersTopicInShop == Spec => Customers!TopicSpec
<1>1. Init => Customers!Topic!Init
  BY DEF Init, Customers!Init, Customers!ProducerInit, Customers!Topic!Init
<1>2. CustomersKeep /\ [Next]_vars => [Customers!Topic!Next]_customersLog
  BY CustomerStep, CustomersProved!NextRefinesTopic, SameCustomersTopic
     DEF CustomersKeep
<1> QED BY <1>1, <1>2, CustomersKeepAlways, PTL
        DEF Spec, Customers!TopicSpec, Customers!Topic!Spec

LEMMA InitNoDuplicates == Init => OrdersProved!NoDuplicates
BY SameOrderInit, OrderAssumptions, OrdersProved!InitNoDuplicates DEF Init

LEMMA NextNoDuplicates ==
  CustomersKeep /\ OrdersKeep /\ OrdersProved!NoDuplicates /\ [Next]_vars
    => OrdersProved!NoDuplicates'
BY OrderStep, SameOrderNext, OrderAssumptions, OrdersProved!NextNoDuplicates
   DEF OrdersKeep

LEMMA SameOrdersTopics ==
  /\ OrdersProved!OrdersTopics!Init = Orders!OrdersTopics!Init
  /\ OrdersProved!OrdersTopics!Next = Orders!OrdersTopics!Next
<1>1. OrdersProved!OrdersTopics!Init = Orders!OrdersTopics!Init
  BY DEF OrdersProved!OrdersTopics!Init, Orders!OrdersTopics!Init
<1>2. OrdersProved!OrdersTopics!CustomersGrow = Orders!OrdersTopics!CustomersGrow
  BY SameOrderTerms
     DEF OrdersProved!OrdersTopics!CustomersGrow, Orders!OrdersTopics!CustomersGrow
<1>3. /\ OrdersProved!OrdersTopics!Order = Orders!OrdersTopics!Order
      /\ \A o, q : OrdersProved!OrdersTopics!SameCustomer(o, q)
                     = Orders!OrdersTopics!SameCustomer(o, q)
  BY DEF OrdersProved!OrdersTopics!Order, Orders!OrdersTopics!Order,
         OrdersProved!State, Orders!State,
         OrdersProved!OrdersTopics!SameCustomer, Orders!OrdersTopics!SameCustomer
<1>4. \A S : OrdersProved!OrdersTopics!Cardinality(S) = Orders!OrdersTopics!Cardinality(S)
  BY Zenon DEF OrdersProved!OrdersTopics!Cardinality, Orders!OrdersTopics!Cardinality
<1>5. \A o : OrdersProved!OrdersTopics!Publish(o) = Orders!OrdersTopics!Publish(o)
  BY <1>3, <1>4 DEF OrdersProved!OrdersTopics!Publish, Orders!OrdersTopics!Publish
<1> QED BY <1>1, <1>2, <1>3, <1>5
           DEF OrdersProved!OrdersTopics!Next, Orders!OrdersTopics!Next

(* The shop keeps what the order topics promise about the customers topic, *)
(* now that a service writes that one too: an order embeds what the        *)
(* customer service did publish (order_service.go:105-231, 541-586).       *)
THEOREM OrdersTopicsInShop == Spec => Orders!OrdersTopicsSpec
<1>1. Init => Orders!OrdersTopics!Init
  BY DEF Init, Orders!Init, Orders!ProducerInit, Orders!OrdersTopics!Init,
         Customers!Init, Customers!ProducerInit
<1>2. CustomersKeep /\ OrdersKeep /\ OrdersProved!NoDuplicates /\ [Next]_vars
        => [Orders!OrdersTopics!Next]_<<customersLog[Topic], ordersLog>>
  BY OrderStep, SameOrderNext, OrderAssumptions, OrdersProved!NextRefinesTopics,
     SameOrdersTopics DEF OrdersKeep
<1> QED BY <1>1, <1>2, OrdersKeepAlways, InitNoDuplicates, NextNoDuplicates, PTL
        DEF Spec, Orders!OrdersTopicsSpec, Orders!OrdersTopics!Spec
=============================================================================
