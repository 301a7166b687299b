---------------------------- MODULE OrderService ----------------------------
(***************************************************************************)
(* The order service (pkg/shop/order_service.go).  Its consumer goroutine  *)
(* (Start) reads the customers topic into the slice recentCustomers; page  *)
(* impressions (CreateOrder) pop a customer, build one order from it and   *)
(* produce that order to two or, with a schema registry, four topics, one  *)
(* format each.  The slice is guarded by a mutex; everything after the pop *)
(* runs unguarded and interleaves with other impressions, with the         *)
(* consumer, with the producer client and with a crash.                    *)
(*                                                                         *)
(* An order is its id and the customer state it embeds: the revision, or   *)
(* Untyped for a customer without a customerType that the Avro schema      *)
(* knows, which somebody else has written (an owl-shop before that field   *)
(* was there, say).  Such a customer has no Avro encoding; everything else *)
(* in an order can be encoded in every format.                             *)
(***************************************************************************)
EXTENDS KafkaProducer, GroupConsumer, FiniteSets, Functions

CONSTANTS
  Customer,       \* customer ids
  OrderId,        \* the ids gofakeit.UUID hands out (bound: how many orders)
  Goroutine,      \* bound: page impressions running at the same time
  Nil,            \* the value of a tombstone
  Undecodable,    \* a value json.Unmarshal rejects, written by someone else
  Untyped,        \* a customer whose type the Avro schema does not know
  Foreign,        \* bound: what somebody else may write
  SchemaRegistry, \* svc.srClient # nil
  BufferSize,     \* bufferSize, 500 in the code
  MaxCrashes      \* bound: how often the process dies and is restarted

(* The topics CreateOrder produces to, one per format, in its order.       *)
Topics ==
  IF SchemaRegistry
  THEN <<"orders", "orders-protobuf-plain", "orders-protobuf-sr", "orders-avro-sr">>
  ELSE <<"orders", "orders-protobuf-plain">>

ASSUME OrderServiceAssumption ==
  /\ SchemaRegistry \in BOOLEAN
  /\ Partition = Range(Topics)
  /\ {Nil, Undecodable, Untyped} \cap Nat = {}
  /\ Cardinality({Nil, Undecodable, Untyped}) = 3
  /\ Foreign \subseteq {Undecodable, Untyped}
  /\ BufferSize \in Nat \ {0}
  /\ MaxCrashes \in Nat

VARIABLES
  recentCustomers,  \* the slice: customers an order can be created for
  orderIds,         \* every order id generated so far
  task,             \* per goroutine: its order and what is left to be done
  counted,          \* kafkaMessagesProducedTotal{order_created}
  consumed,         \* what this consumer has added to CUSTOMER_CONSUMED, a
                    \* series that the address service adds to as well
  crashes

serviceVars == <<recentCustomers, orderIds, task, counted, consumed, crashes>>
vars == <<producerVars, source, consumerVars, serviceVars>>

State == {0, 1} \cup (Foreign \cap {Untyped})
CachedCustomer == [id : Customer, state : State]
SourceRecord == [key : Customer, value : {0, 1, Nil} \cup Foreign]
Order == [id : OrderId, customer : Customer, state : State]
OrderMessage ==
  [topic : Partition, id : OrderId, customer : Customer, state : State]

(* CreateOrder after the pop: produce to two topics, add 2 to the metric,  *)
(* then with a schema registry produce and add 1, twice.  A topic stands   *)
(* for its produce call, a number for the Add.                             *)
ProduceTo(i) == [do |-> "produce", topic |-> Topics[i]]
Add(n) == [do |-> "count", n |-> n]
Script ==
  <<ProduceTo(1), ProduceTo(2), Add(2)>> \o
  (IF SchemaRegistry THEN <<ProduceTo(3), Add(1), ProduceTo(4), Add(1)>> ELSE <<>>)

Idle == [left |-> <<>>]
Unfinished ==
  [left : {SubSeq(Script, k, Len(Script)) : k \in DOMAIN Script}, order : Order]

Init ==
  /\ ProducerInit
  /\ ConsumerInit
  /\ source = <<>>
  /\ recentCustomers = <<>>
  /\ orderIds = {}
  /\ task = [g \in Goroutine |-> Idle]
  /\ counted = 0
  /\ consumed = 0
  /\ crashes = 0
-----------------------------------------------------------------------------
(* The customers topic grows: by what the customer service publishes (at   *)
(* most one registration and one change per customer, see CustomersTopic,  *)
(* in any order) and by at most one foreign record of each kind per key.   *)
SameClaim(r, s) ==
  /\ r.key = s.key
  /\ r.value = s.value \/ {r.value, s.value} = {1, Nil}

CustomerPublished ==
  /\ \E rec \in SourceRecord :
       /\ \A i \in DOMAIN source : ~ SameClaim(source[i], rec)
       /\ source' = Append(source, rec)
  /\ UNCHANGED <<producerVars, consumerVars, serviceVars>>

(* Mutant: an off-by-one in the test for room.                             *)
RememberOneTooMany(customer) ==
  recentCustomers' = IF Len(recentCustomers) <= BufferSize
                     THEN Append(recentCustomers, customer)
                     ELSE recentCustomers

(* Append under the mutex; a full slice drops the newcomer silently.       *)
Remember(customer) ==
  recentCustomers' = IF Len(recentCustomers) < BufferSize
                     THEN Append(recentCustomers, customer)
                     ELSE recentCustomers

(* The loop body of Start: every record is counted, some are skipped.      *)
HandleRecordSkipping(values) ==
  /\ NextRecord
  /\ consumed' = consumed + 1
  /\ LET rec == Head(fetched)
     IN  IF rec.value \in values
         THEN UNCHANGED recentCustomers
         ELSE Remember([id |-> rec.key, state |-> rec.value])
  /\ UNCHANGED <<producerVars, source, orderIds, task, counted, crashes>>

(* Mutants: what a failed decoding leaves is cached; a record that cannot  *)
(* be decoded is tried again; a skipped record ends the loop over the      *)
(* fetch.                                                                  *)
HandleRecordDespiteError == HandleRecordSkipping({Nil})

HandleRecordRetries ==
  HandleRecordSkipping({Nil, Undecodable}) /\ Head(fetched).value # Undecodable

HandleRecordBreaks ==
  /\ fetched # <<>>
  /\ IF Head(fetched).value \in {Nil, Undecodable}
     THEN /\ fetched' = <<>>
          /\ consumed' = consumed + 1
          /\ UNCHANGED <<producerVars, source, position, committable, committed,
                         recentCustomers, orderIds, task, counted, crashes>>
     ELSE HandleRecordSkipping({})

(* Tombstones and values that are not a customer's JSON are skipped.       *)
HandleRecord == HandleRecordSkipping({Nil, Undecodable})

(* The rest of Start's loop.                                               *)
Poll ==
  /\ EnterPoll \/ PollReturns
  /\ UNCHANGED <<producerVars, source, serviceVars>>

(* kgo.AutoCommitInterval(500ms).                                          *)
Commit ==
  /\ AutoCommit
  /\ UNCHANGED <<producerVars, source, serviceVars>>

(* An id nobody has used.  Ids are only compared, so it does not matter    *)
(* which of the unused ones is drawn.                                      *)
FreshId == CHOOSE id \in OrderId : id \notin orderIds

(* fake.NewOrder for the first customer of the slice, of which rest stays. *)
CreateOrderLeaving(g, rest) ==
  /\ task[g] = Idle
  /\ orderIds # OrderId
  /\ recentCustomers # <<>>
  /\ recentCustomers' = rest
  /\ LET customer == Head(recentCustomers)
     IN  /\ orderIds' = orderIds \cup {FreshId}
         /\ task' = [task EXCEPT ![g] =
              [left |-> Script,
               order |-> [id |-> FreshId, customer |-> customer.id,
                          state |-> customer.state]]]
  /\ UNCHANGED <<producerVars, source, consumerVars, counted, consumed, crashes>>

(* Mutant: the slice is not cut after the read.                            *)
CreateOrderWithoutCut(g) == CreateOrderLeaving(g, recentCustomers)

(* CreateOrder up to the first produce: pop and fake.NewOrder.             *)
CreateOrder(g) == CreateOrderLeaving(g, Tail(recentCustomers))

(* popCustomerFromBuffer on an empty slice: the goroutine logs and ends.   *)
(* An impression also ends at once where the model has run out of ids.     *)
NothingToPop(g) ==
  /\ task[g] = Idle
  /\ recentCustomers = <<>> \/ orderIds = OrderId
  /\ UNCHANGED vars

Todo(g) == Head(task[g].left)
Busy(g) == task[g].left # <<>>

(* One of the four produce functions.                                      *)
Message(t, order) ==
  [topic |-> t, id |-> order.id, customer |-> order.customer,
   state |-> order.state]

(* avroSerde.Encode rejects an enum symbol that is not in the schema.      *)
Encodes(t, order) == t = "orders-avro-sr" => order.state # Untyped

(* Mutant: TryProduce, a full client buffer drops the message.             *)
TryProduceOrder(g) ==
  /\ Busy(g)
  /\ Todo(g).do = "produce"
  /\ Encodes(Todo(g).topic, task[g].order)
  /\ IF Backlog < MaxBufferedRecords
     THEN Produce(Todo(g).topic, Message(Todo(g).topic, task[g].order))
     ELSE UNCHANGED producerVars
  /\ task' = [task EXCEPT ![g].left = Tail(@)]
  /\ UNCHANGED <<source, consumerVars, recentCustomers, orderIds, counted,
                 consumed, crashes>>

(* The next of the produce calls, which waits for room.                    *)
ProduceOrder(g) ==
  /\ Busy(g)
  /\ Todo(g).do = "produce"
  /\ Encodes(Todo(g).topic, task[g].order)
  /\ Produce(Todo(g).topic, Message(Todo(g).topic, task[g].order))
  /\ task' = [task EXCEPT ![g].left = Tail(@)]
  /\ UNCHANGED <<source, consumerVars, recentCustomers, orderIds, counted,
                 consumed, crashes>>

(* Mutant: the error is logged, no more.                                   *)
CountDespiteError(g) ==
  /\ Busy(g)
  /\ Todo(g).do = "produce"
  /\ ~ Encodes(Todo(g).topic, task[g].order)
  /\ task' = [task EXCEPT ![g].left = Tail(@)]
  /\ UNCHANGED <<producerVars, source, consumerVars, recentCustomers, orderIds,
                 counted, consumed, crashes>>

(* A produce function returns the error of its encoder: CreateOrder ends.  *)
EncodingFails(g) ==
  /\ Busy(g)
  /\ Todo(g).do = "produce"
  /\ ~ Encodes(Todo(g).topic, task[g].order)
  /\ task' = [task EXCEPT ![g] = Idle]
  /\ UNCHANGED <<producerVars, source, consumerVars, recentCustomers, orderIds,
                 counted, consumed, crashes>>

(* The metric; after the last Add the goroutine ends.                      *)
CountProduced(g) ==
  /\ Busy(g)
  /\ Todo(g).do = "count"
  /\ counted' = counted + Todo(g).n
  /\ task' = [task EXCEPT ![g] =
       IF Len(@.left) = 1 THEN Idle
       ELSE [left |-> Tail(@.left), order |-> @.order]]
  /\ UNCHANGED <<producerVars, source, consumerVars, recentCustomers, orderIds,
                 consumed, crashes>>

ProducerClient(t) ==
  /\ Deliver(t) \/ ExpireBuffered(t)
  /\ UNCHANGED <<source, consumerVars, serviceVars>>

(* The process dies and is started again.  The topics and the group's      *)
(* commit survive.                                                         *)
Crash ==
  /\ crashes < MaxCrashes
  /\ crashes' = crashes + 1
  /\ LoseBuffered
  /\ Resume
  /\ recentCustomers' = <<>>
  /\ task' = [g \in Goroutine |-> Idle]
  /\ counted' = 0
  /\ consumed' = 0
  /\ UNCHANGED <<source, orderIds>>

Start == HandleRecord \/ Poll
Continue(g) == ProduceOrder(g) \/ EncodingFails(g) \/ CountProduced(g)

Next ==
  \/ CustomerPublished
  \/ Start
  \/ Commit
  \/ \E g \in Goroutine : CreateOrder(g) \/ NothingToPop(g) \/ Continue(g)
  \/ \E t \in Partition : ProducerClient(t)
  \/ Crash

Spec == Init /\ [][Next]_vars

(* The consumer loop and its timer run, a goroutine with work left is      *)
(* scheduled and the client delivers or fails what it holds.  Nothing is   *)
(* assumed about new customers, impressions or crashes.                    *)
FairSpec ==
  /\ Spec
  /\ WF_vars(Start)
  /\ WF_vars(Commit)
  /\ \A g \in Goroutine : WF_vars(Continue(g))
  /\ \A t \in Partition : WF_vars(ProducerClient(t))
-----------------------------------------------------------------------------
(***************************************************************************)
(* Properties.                                                             *)
(***************************************************************************)

(* Every variable has its type; a task holds the rest of the script.       *)
TypeOK ==
  /\ source \in Seq(SourceRecord)
  /\ fetched \in Seq(SourceRecord)
  /\ position \in 0..Len(source)
  /\ committable \in 0..position
  /\ committed \in 0..committable
  /\ recentCustomers \in Seq(CachedCustomer)
  /\ Len(recentCustomers) <= BufferSize
  /\ orderIds \in SUBSET OrderId
  /\ task \in [Goroutine -> {Idle} \cup Unfinished]
  /\ counted \in Nat
  /\ consumed \in 0..HandledUpTo
  /\ crashes \in 0..MaxCrashes
  /\ buffered \in [Partition -> Seq(OrderMessage)]
  /\ log \in [Partition -> Seq(OrderMessage)]
  /\ lost \in SUBSET OrderMessage

(* The messages ever handed to the client for topic t.                     *)
Handed(t) == Range(Pipe(t)) \cup {m \in lost : m.topic = t}

IdsOf(messages) == {m.id : m \in messages}

(* The formats of an order are produced in a fixed sequence and none is    *)
(* skipped, however many impressions interleave and whatever the client    *)
(* loses: an order handed to one topic was handed to the topics before it. *)
(* As long as the process has not died none is left out either: an order   *)
(* that no goroutine is working on was handed to all topics whose format   *)
(* can express it (order_service.go:381-418).                              *)
Inexpressible(t, id) ==
  \E m \in Handed(Topics[1]) : m.id = id /\ ~ Encodes(t, m)

FanOut ==
  /\ \A i \in 2..Len(Topics) :
       IdsOf(Handed(Topics[i])) \subseteq IdsOf(Handed(Topics[i - 1]))
  /\ \A id \in orderIds :
       \/ crashes > 0
       \/ \E g \in Goroutine : Busy(g) /\ task[g].order.id = id
       \/ \A t \in Partition : (id \in IdsOf(Handed(t))) # Inexpressible(t, id)

(* The consumer group reads every customer record at least once and each   *)
(* process reads it at most once, so a customer state leads to at most one *)
(* order more than there were crashes, delivered or lost: the pop hands a  *)
(* customer to one impression only, and a restart replays nothing but what *)
(* had not been committed (order_service.go:67-73, 105-136, 541-553).      *)
(* Orders are counted at their first topic; FanOut bounds the others.      *)
OrdersFor(c, state) ==
  {m \in Handed(Topics[1]) : m.customer = c /\ m.state = state}

OneOrderPerLifetime ==
  \A c \in Customer, state \in State :
    Cardinality(OrdersFor(c, state)) <= 1 + crashes

(* What the code counts under ORDER_CREATED are its produce calls, two at  *)
(* once and then one by one: within one process lifetime the counter is    *)
(* the number of messages handed to the client less those whose Add the    *)
(* impression has yet to come to (no two calls hand over the same message, *)
(* see FanOut; order_service.go:399-415).  Messages whose delivery fails   *)
(* stay counted: as in CustomerService!MetricCountsTopicMessages, this is  *)
(* not what the metric's help text says.                                   *)
StepsDone(g) == Len(Script) - Len(task[g].left)

CountedUpTo(n, t) ==
  \E i, j \in 1..n :
    /\ i < j /\ Script[j].do = "count"
    /\ Script[i].do = "produce" /\ Script[i].topic = t

Uncounted ==
  {m \in EverProduced :
     \E g \in Goroutine :
       /\ Busy(g) /\ task[g].order.id = m.id
       /\ ~ CountedUpTo(StepsDone(g), m.topic)}

MetricCountsMessages ==
  /\ counted + Cardinality(Uncounted) <= Cardinality(EverProduced)
  /\ crashes = 0 =>
       counted + Cardinality(Uncounted) = Cardinality(EverProduced)

(* Start never gets stuck on a record, be it a tombstone or one it cannot  *)
(* decode: as long as the topic holds records the group has not committed, *)
(* its commit moves on, over crashes (order_service.go:105-136).           *)
CommitsCatchUp ==
  <>[](committed < Len(source)) => []<><<TRUE>>_committed

(* A customer that can be decoded ends up in the slice and stays there     *)
(* until an order has been created for it, unless the slice was full or    *)
(* the process died (order_service.go:116-134, 381-387).                   *)
Cached(c, state) ==
  [id |-> c, state |-> state] \in Range(recentCustomers)

CustomerIsKept ==
  \A c \in Customer, state \in State :
    ([key |-> c, value |-> state] \in Range(source)) ~>
      \/ []Cached(c, state)
      \/ OrdersFor(c, state) # {}
      \/ Len(recentCustomers) = BufferSize
      \/ crashes > 0

(* A started order reaches, or fails to reach, every topic for good: no    *)
(* impression waits forever for room in the client's buffer.               *)
OrderSettles ==
  \A id \in OrderId :
    (id \in orderIds) ~>
      \/ crashes > 0
      \/ \A t \in Partition :
           \/ id \in IdsOf(Range(log[t]) \cup {m \in lost : m.topic = t})
           \/ Inexpressible(t, id)

(* The last that Start has read of a customer is its tombstone.            *)
KnownDeleted(c) ==
  \E n \in 1..HandledUpTo :
    /\ source[n] = [key |-> c, value |-> Nil]
    /\ \A later \in (n + 1)..HandledUpTo : source[later].key # c

(* "so that an existing customer can be referenced in the order message"   *)
(* (order_service.go:378-380): no order is created for a customer that,    *)
(* by all that this process has read, is deleted.  The slice is stale: a   *)
(* tombstone does not take its customer out of it (lines 119-121).         *)
OrdersReferenceExistingCustomers ==
  [][\A g \in Goroutine :
       CreateOrder(g) => ~ KnownDeleted(Head(recentCustomers).id)]_vars

(* The service implements the abstract order topics.                       *)
OrdersTopics == INSTANCE OrdersTopics WITH Lifetimes <- MaxCrashes + 1
OrdersTopicsSpec == OrdersTopics!Spec
=============================================================================
