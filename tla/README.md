# Owl Shop in TLA+

Owl Shop fills a Kafka cluster with the traffic of an imaginary shop. It is one
Go process that plays several microservices: each has its own Kafka clients and
its own in-memory state, and page impressions, one goroutine each, call them at
random. There are no tests in the repository. This directory holds TLA+ models
of the services and of their start, TLC runs that check them on small instances,
and TLAPS proofs of the main safety properties for every instance.

Paths below are relative to the repository's root.

## The system

| Component | Code | State | Operations |
|---|---|---|---|
| Shop | `pkg/shop/shop.go` | the chooser | `New` starts the services, `Start` simulates impressions at a rate, `SimulatePageImpression` runs one service call in a goroutine |
| CustomerService | `pkg/shop/customer_service.go` | `recentCustomers` (slice of at most 500, mutex), a producer | `CreateCustomer`, `ModifyCustomer`, `DeleteCustomer` |
| OrderService | `pkg/shop/order_service.go` | `recentCustomers`, a producer, a group consumer of `customers`, two serdes | `Start` (consumer loop), `CreateOrder` (two to four topics), `Initialize` with schema registration |
| AddressService | `pkg/shop/address_service.go` | `recentCustomers`, a producer, a group consumer of `addresses` | `Start`, `CreateAddress` |
| FrontendService | `pkg/shop/frontend_service.go` | a producer | `CreateFrontendEvent` |
| MetaService | `pkg/shop/meta_service.go` | none | `Initialize` creates ACLs, errors are logged only |
| Topic reconciliation | `pkg/kafka/reconcile_topic.go` | none (the broker's) | `ReconcileTopic` |
| Client options | `pkg/kafka/config_helper.go`, `pkg/kafka/factory.go`, `pkg/sr/factory.go` | none | build clients from the configuration |
| Configuration | `pkg/config` | the configuration | defaults, YAML, environment, `Validate` (never called) |
| Command | `cmd/main.go` | none | load, `New`, `Start`; every error is fatal |
| Metrics | `pkg/shop/metrics.go` | three counters | `Inc`, `Add` |
| Fake data | `pkg/fake` | none | random structs and their encodings |

**How they interact.** The services share nothing in memory but the metrics.
CustomerService writes the `customers` topic, OrderService reads it and writes
the order topics. AddressService is documented to read `customers` too, but its
consumer is created with the name of its own topic, so it reads what it writes.
Every service produces asynchronously: `Produce` returns once the record is in
the client's buffer, errors only reach a callback that logs them. Startup talks
to the broker and to the schema registry, which other processes use as well.

**What is hard.** The mutex of a service covers the slice only: everything
between the pop and `Produce`, and between `Produce` and delivery, interleaves
with other impressions, the consumer, delivery timeouts (10s) and the end of the
process, which loses slice, buffer and counters but neither the topics nor the
group's commit. `Produce` blocks when the buffer is full. Startup is a sequence
of requests without a transaction that several processes may run at once.

**What makes each component correct.**

- CustomerService: one registration and at most one change per customer, in all
  process lifetimes; nothing that was popped is forgotten on the way to the
  client; the metric counts each call once. It does *not* keep the registration
  in front of the change.
- OrderService: every order goes, in sequence, to all its topics whose format
  can express it; it embeds a customer as the topic had it; a customer record leads to
  one order per process lifetime; the consumer never gets stuck.
- AddressService: addresses come from addresses, each has at most one successor
  per process lifetime, so the feedback does not multiply.
- Startup: whoever runs finds its topics, and serdes with the one version of the
  order schemas; nothing that exists is altered; after failures a restart works.

- Traffic: the rate loop never waits; a service whose broker answers is not held
  up by one whose broker does not; what the file and the environment write is what
  is loaded, and a client logs in with the mechanism configured, if it is one of
  four.
- The services together: a registration leads to an orderable customer and to at
  most one order per customer record and lifetime.

The list of hazards, each with its line and the properties that cover it, is in
`PROJECT.json`.

## Modules

| Module | What it is |
|---|---|
| `KafkaProducer` | external: the producer client and the partitions it writes, from how the services use it |
| `GroupConsumer` | external: the consumer group of one member on one partition |
| `CustomersTopic` | abstract: what the customers topic promises its readers |
| `CustomerService` | the customer service |
| `OrdersTopics` | abstract: what the order topics promise, given the customers topic |
| `OrderService` | the order service |
| `AddressService` | the address service |
| `Startup` | `shop.New`, the `Initialize` methods and `ReconcileTopic`, for several processes |
| `Configuration` | pure: defaults, file and environment, the clients' `Validate`, the client options |
| `Traffic` | the program from `main` to the rate loop, its goroutines and the clients that block them |
| `OwlShop` | the customer service and the order service in one process |
| `KafkaProducerProofs`, `CustomerServiceProofs`, `OrderServiceProofs`, `AddressServiceProofs`, `StartupProofs`, `TrafficProofs`, `OwlShopProofs` | theorems and proofs |
| `MC*` | values for TLC |

`CustomerService` and `AddressService` extend `KafkaProducer`; `AddressService`
instantiates `GroupConsumer` with its own topic as the source, `OrderService`
extends both and lets the environment append to the customers topic whatever
`CustomersTopic` allows, plus records somebody else wrote. `OwlShop` instantiates
`CustomerService` and `OrderService` side by side, with the customers topic of
the one as the source of the other, and shows that the order service then still
behaves as its own module says. `Traffic` extends `Configuration`; it looks at
the same process from the other side, where a service is only the number of its
`Produce` calls and a client only how many records it holds.

### From code to actions

A service method is cut where the code releases the mutex, where it calls
`Produce` and where it increments the metric, since other goroutines can run
there. Everything in between is one action.

- `CreateCustomer` (action) is `fake.NewCustomer` and the append under the lock;
  `ModifyCustomer`, `DeleteCustomer`, `CreateOrder`, `CreateAddress` are the pop
  and what is built from it. `NothingToPop` is the early return on an empty
  slice.
- `ProduceRecord`, `ProduceOrder`, `ProduceAddress` are one call of `Produce`;
  they wait while the client's buffer is full. `CountProduced` is the metric.
- `CreateOrder`'s sequence of calls is the constant operator `Script`; a
  goroutine keeps what is left of it.
- `HandleRecord` is the loop body of `Start`, `Poll` the call of `PollFetches`
  (entering it makes the previous fetch committable), `Commit` the autocommit.
- `Deliver` and `ExpireBuffered` are the client's: records of a partition arrive
  in order and without duplicates (idempotent producer), and the timeout fails
  all records buffered for a partition together, so none overtakes a failed one.
- `Crash` ends the process and starts it again.
- In `Startup` a process works through a `Script` of requests. `ListTopics` and
  `CreateTopics` are separate actions. `TopicAlreadyExists` is the lost race,
  `ReplyLost` a request that was carried out without the process learning of it.

- In `Traffic` an impression is a goroutine from `go` to its first `Produce`, then
  one action per `Produce`. `Load` is `LoadConfig`; a source is a function from
  options to what is written for them, and `LoadConfig` the two Unmarshals over a
  tree that has a section once per spelling. A file that cannot be read is
  `filesReadable = FALSE`, which also stands for certificates and keytabs.
- In `OwlShop` every action is one of a service while the other stands still,
  except `Crash`, which ends both.

**Data.** A customer is its id and revision, an order its id and the customer
state it embeds, an address its id and the id it was created for. JSON, protobuf
and Avro carry these fields unchanged, and encoding them fails in one case only:
the Avro schema's enum has no symbol for a customer without a known type, which
the topic may hold from somebody else (`Untyped`; earlier versions had no such
field). `EncodingFails` is the early return behind that encoder; the others are
unreachable and have no actions. Decoding can fail as well: `Undecodable` is a
value written by someone else. An address does decode as a
customer (it has an `id`), which is what drives the address service. Header
values (`revision` is always `"0"`) and names are left out.

## Runs

| Run | Shows | Bounds |
|---|---|---|
| `customer_core` | types, one registration and one change, the inductive invariant, the metric, refinement of `CustomersTopic`; registrations and popped customers settle | 2 customers, 3 goroutines, 1 partition, slice of 1, buffer of 2, 1 crash |
| `customer_order` | **violated**: with two impressions a change overtakes the registration, on a broker that delivers everything in time | 2 customers |
| `customer_metric` | **violated**: the counter of messages produced to a topic counts one whose delivery timed out | 1 customer, 1 goroutine |
| `order_fanout` | types, the fan-out to four topics of orders Avro can and cannot encode, the metric | 2 goroutines, 2 orders, 2 customer records, buffer and slice of 1 |
| `order_live` | orders per customer state, fan-out over a crash, refinement of `OrdersTopics`; consumed customers are kept, the group commits every record | 1 customer (up to 3 records), 3 orders, polls of 2, 1 crash |
| `order_existing` | **violated**: an order for a cached customer whose deletion was read, with nobody else writing the topic | 1 customer |
| `address_core` | types, where addresses come from, the feedback | 3 records at the start, 2 goroutines, 2 crashes |
| `address_empty` | **violated**: on an empty topic no address is ever created | 1 customer |
| `startup_core` | types, running means ready, references resolve, nothing is altered, all run in the end, on whoever's topics | 2 processes with different parameters, 1 fault |
| `traffic_core` | what file and environment amount to, what the clients log in with; the rate loop never waits, services do not block each other | 41 files and 17 environments, 2 services, buffer of 1, 3 impressions |
| `config_env` | **violated**: a variable is ignored when the file mentions its section | as above, 1 service |
| `shop_core` | the composition implements `OrderService`; orders per customer, registrations lead to orders, orders settle | 1 customer, 2 visitors, 1 buyer, 3 orders, 1 crash |

**Why the bounds are enough to be interesting.** Two goroutines and a client
buffer of one or two let a call overtake another and let `Produce` block. A slice
of one or two fills up, so newcomers are dropped. Two ids let one customer be
changed while another is registered. One crash separates two process lifetimes,
two crashes let addresses be read a third time. In
`Startup` one fault can hit any of the 17 requests, and a lost race with another
process is not a fault and happens in addition. In `order_fanout`, a
safety run, a constraint stops the customers topic at two records, as many as
there are orders. Ids only run out where the model
says so (`OrderId`, `AddressId`). In `order_live` and `shop_core` a customer has
two states that can be ordered for in each of two lifetimes, so the three orders
are one more than a single lifetime could yield, and the bound per state, two,
can be exceeded. In `traffic_core` a file and an environment each vary one option
(all types, a wrong type, empty, null, unknown) on top of what every deployment
needs, so every combination of two options in two sources occurs; three
impressions are one more than the default rate, so the loop sleeps in between.
Deliveries can stop altogether: `FairSpec` there assumes nothing of the clients.

Symmetry is used over customers and goroutines in safety runs only, and never
over ids chosen with `CHOOSE`. Deadlock is checked except in `startup_core`
and in the `Traffic` runs, where all processes may be running or have exited and
nothing is left to do.

**The metrics.** `MetricCountsProduceCalls` and `MetricCountsMessages` say what the
counter of produced messages counts: calls of `Produce`, each once, under its own
event and whatever becomes of the record. Calls are counted as records ever handed
to the client (`EverProduced`: held, delivered or lost), of which no two are equal,
because each service hands a record over once (`AtMostOneChange`, `FanOut`). The
counter's help text says something else, messages "produced to a Kafka topic"
(`pkg/shop/metrics.go:33`); that is `MetricCountsTopicMessages`, which a delivery
timeout breaks (`customer_metric`) and nothing else (`MetricOfReliableBroker`). The
order service's counter differs from its help text in the same way. Of the counter
of consumed messages both consumers add to one series, `CUSTOMER_CONSUMED`
(`pkg/shop/order_service.go:116`, `pkg/shop/address_service.go:121-123`); `consumed`
is in each module what that service has added, and no property compares the series
with anything.

**Fairness.** A goroutine that has work left is scheduled (Go's scheduler), the
client delivers or fails what it holds (the delivery timeout), the consumer loop
and the autocommit timer run (nothing stops them). Nothing is assumed of the
impressions except in `AddressService`, where the chooser gives `CreateAddress` a
positive weight. In `Traffic` the main goroutine, the rate loop and each service's
goroutines are scheduled, but no client ever has to make room: a broker may be
away for good. `ServicesAreIsolated` names the client it relies on in its own
premise. `OwlShop` has the fairness of its two services. In
`Startup` the fairness of `Restart` is an assumption about whoever runs the
process (a restart policy): the code itself just exits.

**Violated runs** state what a comment, the README or a help text says and show
how the code departs from it; `PROJECT.json` quotes each under "findings". Two more
findings need no violation, because the property of a passing run says what the code
does instead of what the text says. The README lists OAUTHBEARER among the SASL
mechanisms (`README.md:59`); by `AcceptedMechanismIsUsed` a client configured for it
connects without SASL. `ReconcileTopic` promises "a topic with the given parameters"
(`pkg/kafka/reconcile_topic.go:11`); in `startup_core` two processes give different
ones, `ClusterOnlyGrows` keeps those a topic was created with, and `EventuallyAllRun`
holds for both processes. `FanOut` claims less after a crash than before: an order the
crash has cut off keeps its sequence and may miss its last topics.

## Proofs

The theorems hold for any number of customers, goroutines, processes, partitions
and crashes and any bounds of slice, buffer and poll. Each proof module extends
the module it is about. Nearly every property in the table is also one that a run
checks, so TLC confirms the same formula on a small instance; `NothingFromNothing`,
`ParametersOfOneDeployment` and the two topics of the shop are stated by theorems
alone. Three theorems are about the formula of a *violated* run
(`MetricOfReliableBroker`, `OrderWithoutOverlap`, `EnvironmentOfOwnSections`): under
the condition in the last column, which the run does not meet, it does hold, so the
run's cause is the only one.

| Module | Theorem | Property |
|---|---|---|
| `CustomerServiceProofs` | `TypeCorrect`, `SoleClaimantInvariant`, `NoSecondChange` | `TypeOK`, `SoleClaimant`, `AtMostOneChange` |
| | `ImplementsTopic` | refinement `TopicSpec` |
| | `MetricIsExact` | `MetricCountsProduceCalls` |
| | `MetricOfReliableBroker` | `MetricCountsTopicMessages`, on a broker that acknowledges in time |
| | `OrderWithoutOverlap` | `ChangesFollowRegistration`, with one impression at a time on a broker that acknowledges in time |
| `OrderServiceProofs` | `TypeCorrect`, `FanOutInvariant`, `OrdersPerLifetime` | `TypeOK`, `FanOut`, `OneOrderPerLifetime` |
| | `ImplementsTopics` | refinement `OrdersTopicsSpec` |
| | `MetricIsExact` | `MetricCountsMessages` |
| `AddressServiceProofs` | `TypeCorrect`, `AddressOrigin` | `TypeOK`, `AddressesFromAddresses` |
| | `FeedbackIsBounded`, `SuccessorsPerLifetime` | `FeedbackDoesNotGrow`, `OneSuccessorPerLifetime` |
| | `NothingFromNothing` | nothing is ever produced on an empty topic: what `address_empty` shows of one instance |
| `StartupProofs` | `TypeCorrect`, `Readiness`, `References` | `TypeOK`, `RunningIsReady`, `ReferencesResolve` |
| | `ClusterGrows` | action property `ClusterOnlyGrows` |
| | `ParametersOfOneDeployment` | `TopicsHaveGivenParameters`, among processes with the same parameters |
| `TrafficProofs` | `TypeCorrect`, `LoadedRight` | `TypeOK`, `LoadedAsWritten` |
| | `MechanismIsUsed` | `AcceptedMechanismIsUsed` |
| | `EnvironmentOfOwnSections` | `EnvironmentConfigures`, for sections the file does not mention |
| `OwlShopProofs` | `OrderServiceInShop` | refinement `OrderServiceSpec` |
| | `OrdersPerCustomerInShop` | `OrdersPerCustomer` |
| | `CustomersTopicInShop`, `OrdersTopicsInShop` | refinements `Customers!TopicSpec`, `Orders!OrdersTopicsSpec` |

**Assumptions.** Only the named assumptions of the modules, which TLC evaluates in
the runs: positive bounds, a partitioner that maps ids to partitions, a nil that is
not a number, and what `KafkaProducer` and `GroupConsumer` say of the client
library. Three are more than bounds. `SeedAssumption`: no two addresses the topic
holds at the start share an id, since ids are UUIDs (`pkg/fake/address.go:27`) and
each is produced once. Without it an id that is read twice has two successors.
`TrafficAssumption` says that what reads as a number in file and environment is an
integer. `ShopAssumption` gives the composition the topics the code has.

**`CustomerServiceProofs`.** `AtMostOneChange` speaks of produced records only and
is not inductive: two goroutines could be about to produce the same change. The
strengthening follows the *right* to change a customer: it is in the slice, or
with one goroutine in front of `Produce`, or spent on one record (buffered, in
the log or lost). `SoleClaimant` says there is one holder at most, that the
slice holds unmodified customers once each, and that all ids in use have been
generated, so a new one is new everywhere. Of the refinement's steps only delivery
touches the log, and it publishes a record the invariant keeps apart from all
records before it.
- `MetricIsExact`: the counter is incremented under the event of the call, after
  `Produce` has returned, when another goroutine may be between the two. `MetricInv`
  adds to the property that a goroutine's event is the one its record stands for and
  that the sets compared are finite. A `ProduceRecord` adds one record, new because
  of `SoleClaimant`, to one side and one goroutine to the other; delivery and expiry
  move records within `EverProduced`; a crash can only take from both.
- `MetricOfReliableBroker` is the same argument for the records that are in a pipe
  (`Arriving`) in place of all that were ever handed over: no record leaves a pipe but
  by a crash, which takes the counter with it.
- `OrderWithoutOverlap`: `OrderInv` says of the pipes what the property says of the
  log, of a goroutine in front of `Produce` that whom it changes has been registered
  in a pipe, and of the slice that whoever is in it has been registered or is just
  being registered, which only one goroutine at a time makes enough. A crash cuts
  pipes at their end and empties the slice, so it needs no condition of its own.

**`OrderServiceProofs`.**
- Types need that what is left of a goroutine's work is a rest of `Script`
  (`Unfinished`), so each step leaves a shorter rest (`StepForward`).
- `FanOut` looks at finished orders. `FanOutInv` says of unfinished ones how far
  they are: an order has been handed to exactly the topics whose place in the script
  (`At`) its goroutine has passed (`HandedAsFarAsDone`), an order id belongs to one
  goroutine and to one content (`IdsIdentifyOrders`), and an order no goroutine
  works on is complete unless there was a crash. The proof has one lemma for a step
  that starts an order, hands it over, ends it, leaves all of this alone, or crashes.
- `OneOrderPerLifetime`: a customer record that was read is in one place of the
  slice or with one goroutine, or its order is made (`HeldOnce`), and while an
  order is still *due* in this process lifetime a topic has at most one per crash
  (`OrdersWithinLifetimes`). It needs that no two records of the source claim the
  same (`ClaimsDiffer`) and that what is fetched continues what was handled.
- The refinement adds that no topic is handed an order twice (`NoDuplicates`), and
  uses both invariants above to show that a delivery is a `Publish`.
- `MetricIsExact`: `CreateOrder` counts two messages at once and the others one by
  one, so which messages an unfinished order has yet to count depends on how far its
  goroutine is. By `FanOutInv` these are the places of the script it has passed
  whose count it has not (`Pending`, `UncountedArePending`); a step moves one
  goroutine's places only, and no two orders share a message.

**`AddressServiceProofs`.**
- `AddressOrigin`: the ids in the slice, in goroutines, in the buffer and among
  the lost come from the topic, because what is fetched is what the topic holds at
  the offsets after the last handled one (`FetchedFromTopic`, which makes the
  invariant inductive). `NothingFromNothing` is a consequence.
- `FeedbackIsBounded`: every step that puts an address into one of the four places
  takes one out of another. All that has to be added is that finitely many
  goroutines are producing, so they can be counted.
- `SuccessorsPerLifetime`: as for orders, the right to a successor is with the
  unread part of the topic, one place of the slice or one goroutine, and then spent
  (`HeldOnce`, `SuccessorsWithinLifetimes`). What is different is that the service
  reads its own records, so its ids must not repeat anywhere (`KeysDistinct`). A
  delivery moves a record within the pipe and renumbers nothing; an expiry drops
  places from the pipe and adds records to `lost`, and `DroppedSpends` shows that
  the sum does not grow.

**`StartupProofs`.** `RunningIsReady` speaks of the end of the script. The invariant
`PastRequests` speaks of every step: the requests before a process's step have been
granted, and what was granted stays granted whoever else is starting, failing or
repeating. `Histories` lists the only sequences of versions a subject can have, so
version 2 of the customer exists once it is needed, and `SerdesAgree` ties a serde
to the one version of its schema. `ScriptShape` shows that the script of `New` is one
of two lists, whatever the parameters. `ParametersOfOneDeployment` needs no more
than `PastRequests` and that every topic's parameters are some process's; it is the case
in which the comment of `ReconcileTopic` is right.

**`TrafficProofs`.** `TrafficInv` says what the process knows in each phase: the
configuration is what `LoadConfig` makes of the sources, the clients' options are
what `NewKgoConfig` makes of the configuration, and impressions are only simulated at a
positive rate, which the type of the loop variable needs. The
theorems then follow from the operators of `Configuration`, for all files and
environments and not only those of the run.

**`OwlShopProofs`.** It instantiates the two services' *proof* modules with the
shop's variables, so their theorems and lemmas become available there. They speak
of the instances `CustomersProved` and `OrdersProved`, and `OwlShop` of `Customers`
and `Orders`; the lemmas `Same...` show these to be the same, operator by operator.
- `OrderServiceInShop`: every step of the shop is one of `OrderService`. The hard
  case is the customer client's delivery, which has to be an append that
  `OrderService` allows its environment: `SoleClaimant` says that the record claims
  something no record before it does (`DeliveredIsAllowed`).
- `OrdersPerCustomer` follows: the orders for one state of a customer are bounded by
  the process lifetimes, and each state that has one has its own record in the topic.
- `CustomersTopicInShop` and `OrdersTopicsInShop` carry the refinements over step by
  step, with the customers topic that the shop writes itself in the place of an
  environment. With them all that the two abstract topics promise their readers is
  promised by the shop.

**`KafkaProducerProofs`** has the lemmas on `Pipe`, the log followed by the buffer:
`Produce` appends to it, delivery leaves it alone, expiry and a crash cut it.

**Model-checked only.**
- The liveness properties (`RegistrationSettles`, `PoppedCustomerIsChanged`,
  `CustomerIsKept`, `CommitsCatchUp`, `EventuallyAllRun`, `RateLoopNeverWaits`,
  `ServicesAreIsolated`, `RegistrationLeadsToOrders`, `OrderSettles`): the prover has
  no rules for fairness and `ENABLED`.
- The properties of the violated runs, which do not hold as they stand; the
  boundaries above are proved. `order_existing` has none that a constant could
  state: a tombstone may always be read after its customer is in the slice, and
  Start never removes anybody from it.

The client's bound is a sum over partitions (`Backlog`, a fold): what a fold computes
takes induction over the set, so the proofs leave it uninterpreted and no theorem
relies on how many records the client holds over all partitions.

## Not modelled

- Log compaction and retention of the topics. (A reader of a compacted topic may
  miss records; what the models say of the log they say of what was appended.)
- More than one partition of a consumed topic, more than one member of a group,
  rebalances. The default partition count is 1.
- The weights of the random choice, and time: `time.Sleep` is the end of a round.
- Credentials, paths, the global prefix and the logger's configuration, which are
  copied; the HTTP endpoint of the metrics, which nothing depends on.
- AddressService in the composition: it consumes its own topic and shares nothing
  with the others but a metric nobody reads.
- `Shop.Validate`, which nobody calls: what it would refuse has its effect in one
  condition, of the rate loop or of the broker.
- Random data, encodings and generated code beyond the fields named above.

## Plan

Done: the services' core, their startup, the program around them, the composition
of the customer and the order service, and the proofs of every safety property,
action property and refinement the passing runs check, with the boundaries of
three violated ones.

Considered and left out: the slice at the level of its mutex. Append and pop run
wholly between `Lock` and `Unlock` (`customer_service.go:97-101, 153-165`,
`order_service.go:129-133, 541-553`), and nothing else touches the slice, so a model of the
two would only show that a mutex excludes. What is left is the address
service in the composition, which would add states and no interaction.
