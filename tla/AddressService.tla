--------------------------- MODULE AddressService ---------------------------
(***************************************************************************)
(* The address service (pkg/shop/address_service.go).  Its consumer is     *)
(* created with kgo.ConsumeTopics(topicName), where topicName is the       *)
(* addresses topic (lines 45-48), so the service reads the topic it        *)
(* writes: an address record is decoded as a fake.Customer, whose id is    *)
(* then the id of the address, and the next address is created for that    *)
(* id.  The customers topic is written by others and never read here.      *)
(*                                                                         *)
(* Start returns when its client is closed; nothing closes it.  Encoding   *)
(* an address never fails.                                                 *)
(***************************************************************************)
EXTENDS KafkaProducer, FiniteSets, Functions

CONSTANTS
  Topic,            \* the addresses topic, of one partition
  Customer,         \* the ids the customer service registers
  AddressId,        \* the ids gofakeit.UUID hands out (bound: how many)
  Seed,             \* what the topic holds before the service first starts
  Goroutine,        \* bound: page impressions running at the same time
  Nil,              \* the value of a tombstone
  Undecodable,      \* a value json.Unmarshal rejects
  MaxPollRecords,   \* bound: records one poll returns
  BufferSize,       \* bufferSize, 500 in the code
  MaxCrashes        \* bound: how often the process dies and is restarted

(* A record of the topic.  The value of an address is the id of the        *)
(* customer it was created for; the key is the id of the address.          *)
Decodable == AddressId \cup Customer
Record == [key : AddressId, value : Decodable \cup {Nil, Undecodable}]

KeysOf(records) == {records[i].key : i \in DOMAIN records}

ASSUME AddressServiceAssumption ==
  /\ Partition = {Topic}
  /\ Nil \notin Decodable /\ Undecodable \notin Decodable
  /\ Seed \in Seq(Record)
  /\ MaxPollRecords \in Nat \ {0}
  /\ BufferSize \in Nat \ {0}
  /\ MaxCrashes \in Nat

(* An address has an id of its own (gofakeit.UUID) and is produced once: a  *)
(* topic that was in use before holds no two addresses with the same id.    *)
ASSUME SeedAssumption ==
  \A i, j \in DOMAIN Seed :
    Seed[i].key = Seed[j].key /\ {Seed[i].value, Seed[j].value} \subseteq Decodable
      => i = j

VARIABLES
  position, fetched, committable, committed,   \* the consumer, see GroupConsumer
  recentCustomers,  \* the slice: ids an address can be created for
  addressIds,       \* every address id in use
  task,             \* what each goroutine is doing
  counted,          \* kafkaMessagesProducedTotal{address_created}
  consumed,         \* what this consumer has added to CUSTOMER_CONSUMED, a
                    \* series that the order service adds to as well
  registered,       \* the customers the customers topic knows of
  crashes

Consumer == INSTANCE GroupConsumer WITH source <- log[Topic]

consumerVars == <<position, fetched, committable, committed>>
serviceVars ==
  <<recentCustomers, addressIds, task, counted, consumed, registered, crashes>>
vars == <<producerVars, consumerVars, serviceVars>>

Idle == [at |-> "idle"]
Busy == [at : {"produce", "count"}, rec : Record]

Init ==
  /\ buffered = [t \in Partition |-> <<>>]
  /\ log = [t \in Partition |-> Seed]
  /\ lost = {}
  /\ Consumer!ConsumerInit
  /\ recentCustomers = <<>>
  /\ addressIds = KeysOf(Seed)
  /\ task = [g \in Goroutine |-> Idle]
  /\ counted = 0
  /\ consumed = 0
  /\ registered = {}
  /\ crashes = 0

(* Another service registers a customer.                                   *)
CustomerRegistered ==
  /\ \E c \in Customer \ registered : registered' = registered \cup {c}
  /\ UNCHANGED <<producerVars, consumerVars, recentCustomers, addressIds, task,
                 counted, consumed, crashes>>

(* Mutant: an off-by-one in the test for room.                             *)
RememberOneTooMany(id) ==
  recentCustomers' = IF Len(recentCustomers) <= BufferSize
                     THEN Append(recentCustomers, id)
                     ELSE recentCustomers

(* Append under the mutex; a full slice drops the newcomer silently.       *)
Remember(id) ==
  recentCustomers' = IF Len(recentCustomers) < BufferSize
                     THEN Append(recentCustomers, id)
                     ELSE recentCustomers

(* Mutant: the customer of the address is cached, not the address.         *)
HandleRecordByCustomer ==
  /\ Consumer!NextRecord
  /\ consumed' = consumed + 1
  /\ LET rec == Head(fetched)
     IN  IF rec.value \in Decodable
         THEN Remember(rec.value)
         ELSE UNCHANGED recentCustomers
  /\ UNCHANGED <<producerVars, addressIds, task, counted, registered, crashes>>

(* The callback of EachRecord: every record is counted, tombstones and     *)
(* undecodable values are skipped, anything else is taken for a customer.  *)
HandleRecord ==
  /\ Consumer!NextRecord
  /\ consumed' = consumed + 1
  /\ LET rec == Head(fetched)
     IN  IF rec.value \in Decodable
         THEN Remember(rec.key)
         ELSE UNCHANGED recentCustomers
  /\ UNCHANGED <<producerVars, addressIds, task, counted, registered, crashes>>

(* The rest of Start's loop.                                               *)
Poll ==
  /\ Consumer!EnterPoll \/ Consumer!PollReturns
  /\ UNCHANGED <<producerVars, serviceVars>>

(* kgo.AutoCommitInterval(500ms).                                          *)
Commit ==
  /\ Consumer!AutoCommit
  /\ UNCHANGED <<producerVars, serviceVars>>

(* An id nobody has used.  Ids are only compared, so it does not matter    *)
(* which of the unused ones is drawn.                                      *)
FreshId == CHOOSE id \in AddressId : id \notin addressIds

(* Mutant: the slice is not cut after the read.                            *)
CreateAddressWithoutCut(g) ==
  /\ task[g] = Idle
  /\ recentCustomers # <<>>
  /\ addressIds # AddressId
  /\ addressIds' = addressIds \cup {FreshId}
  /\ task' = [task EXCEPT ![g] =
       [at |-> "produce", rec |-> [key |-> FreshId, value |-> Head(recentCustomers)]]]
  /\ UNCHANGED <<recentCustomers, producerVars, consumerVars, counted, consumed,
                 registered, crashes>>

(* CreateAddress up to the produce call: pop and fake.NewAddress.          *)
CreateAddress(g) ==
  /\ task[g] = Idle
  /\ recentCustomers # <<>>
  /\ addressIds # AddressId
  /\ recentCustomers' = Tail(recentCustomers)
  /\ addressIds' = addressIds \cup {FreshId}
  /\ task' = [task EXCEPT ![g] =
       [at |-> "produce", rec |-> [key |-> FreshId, value |-> Head(recentCustomers)]]]
  /\ UNCHANGED <<producerVars, consumerVars, counted, consumed, registered,
                 crashes>>

(* popCustomerFromBuffer on an empty slice: the goroutine logs and ends.   *)
(* An impression also ends at once where the model has run out of ids.     *)
NothingToPop(g) ==
  /\ task[g] = Idle
  /\ recentCustomers = <<>> \/ addressIds = AddressId
  /\ UNCHANGED vars

(* produceAddress.                                                         *)
ProduceAddress(g) ==
  /\ task[g].at = "produce"
  /\ Produce(Topic, task[g].rec)
  /\ task' = [task EXCEPT ![g].at = "count"]
  /\ UNCHANGED <<consumerVars, recentCustomers, addressIds, counted, consumed,
                 registered, crashes>>

CountProduced(g) ==
  /\ task[g].at = "count"
  /\ counted' = counted + 1
  /\ task' = [task EXCEPT ![g] = Idle]
  /\ UNCHANGED <<producerVars, consumerVars, recentCustomers, addressIds,
                 consumed, registered, crashes>>

ProducerClient ==
  /\ Deliver(Topic) \/ ExpireBuffered(Topic)
  /\ UNCHANGED <<consumerVars, serviceVars>>

(* The process dies and is started again.  The topics and the group's      *)
(* commit survive.                                                         *)
Crash ==
  /\ crashes < MaxCrashes
  /\ crashes' = crashes + 1
  /\ LoseBuffered
  /\ Consumer!Resume
  /\ recentCustomers' = <<>>
  /\ task' = [g \in Goroutine |-> Idle]
  /\ counted' = 0
  /\ consumed' = 0
  /\ UNCHANGED <<addressIds, registered>>

Start == HandleRecord \/ Poll
Impression(g) == CreateAddress(g) \/ NothingToPop(g)
Continue(g) == ProduceAddress(g) \/ CountProduced(g)

Next ==
  \/ CustomerRegistered
  \/ Start
  \/ Commit
  \/ \E g \in Goroutine : Impression(g) \/ Continue(g)
  \/ ProducerClient
  \/ Crash

Spec == Init /\ [][Next]_vars

(* The consumer loop and its timer run, a started goroutine is scheduled,  *)
(* the client delivers or fails what it holds, and, since the chooser      *)
(* gives CreateAddress a positive weight, the impression is picked again   *)
(* and again (shop.go:100-107).                                            *)
FairSpec ==
  /\ Spec
  /\ WF_vars(Start)
  /\ WF_vars(Commit)
  /\ WF_vars(ProducerClient)
  /\ \A g \in Goroutine : WF_vars(CreateAddress(g)) /\ WF_vars(Continue(g))
-----------------------------------------------------------------------------
(***************************************************************************)
(* Properties.                                                             *)
(***************************************************************************)

(* Every variable has its type.                                            *)
TypeOK ==
  /\ buffered \in [Partition -> Seq(Record)]
  /\ log \in [Partition -> Seq(Record)]
  /\ lost \in SUBSET Record
  /\ position \in 0..Len(log[Topic])
  /\ committable \in 0..position
  /\ committed \in 0..committable
  /\ fetched \in Seq(Record)
  /\ Len(fetched) <= position
  /\ recentCustomers \in Seq(AddressId)
  /\ Len(recentCustomers) <= BufferSize
  /\ addressIds \in SUBSET AddressId
  /\ task \in [Goroutine -> {Idle} \cup Busy]
  /\ counted \in Nat
  /\ consumed \in Nat
  /\ registered \in SUBSET Customer
  /\ crashes \in 0..MaxCrashes

(* id is the id of an address among the first n of the given records.      *)
KnownIn(records, id, n) ==
  \E j \in 1..n : records[j].key = id /\ records[j].value \in Decodable

(* Whatever is being polled is what the topic holds, and every id in the   *)
(* slice, in an address about to be produced, produced or lost, is the id  *)
(* of an address that was in the topic before: what the service takes for  *)
(* customers are addresses, its own or those it found                      *)
(* (address_service.go:45-48, 120-141, 147-160).                           *)
FetchedFromTopic ==
  \A i \in DOMAIN fetched : fetched[i] = log[Topic][Consumer!HandledUpTo + i]

AddressesFromAddresses ==
  LET known(id) == KnownIn(log[Topic], id, Len(log[Topic]))
  IN  /\ FetchedFromTopic
      /\ \A i \in DOMAIN recentCustomers : known(recentCustomers[i])
      /\ \A g \in Goroutine : task[g].at = "produce" => known(task[g].rec.value)
      /\ \A i \in DOMAIN buffered[Topic] : known(buffered[Topic][i].value)
      /\ \A rec \in lost : known(rec.value)
      /\ \A i \in (Len(Seed) + 1)..Len(log[Topic]) :
           KnownIn(log[Topic], log[Topic][i].value, i - 1)

(* Every address begets at most one: without a crash the addresses yet to  *)
(* be read, cached, being produced or buffered never outnumber the records *)
(* found at the start, so the feedback of the service's own records into   *)
(* its consumer keeps the traffic of an address topic, but cannot make it  *)
(* grow (address_service.go:129-139, 147-160, 187-199).                    *)
Unread == Len(log[Topic]) - Consumer!HandledUpTo

InFlight ==
  Unread + Len(recentCustomers) + Len(buffered[Topic])
  + Cardinality({g \in Goroutine : task[g].at = "produce"})

FeedbackDoesNotGrow == crashes = 0 => InFlight <= Len(Seed)

(* A crash makes the group read again what was not committed, so an        *)
(* address has at most one successor more than there were crashes.         *)
Successors(id) ==
  {i \in DOMAIN Pipe(Topic) : i > Len(Seed) /\ Pipe(Topic)[i].value = id}

OneSuccessorPerLifetime ==
  \A id \in AddressId :
    Cardinality(Successors(id)) + Cardinality({r \in lost : r.value = id})
      <= 1 + crashes

(* "AddressService consumes the customers topic to collect customer ID and *)
(* name and then produces fake addresses for that customer"                *)
(* (address_service.go:19-20): once a customer is registered an address is *)
(* eventually produced.                                                    *)
CustomersGetAddresses ==
  (registered # {}) ~> (Pipe(Topic) # <<>> \/ lost # {})
=============================================================================
