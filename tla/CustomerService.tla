-------------------------- MODULE CustomerService --------------------------
(***************************************************************************)
(* The customer service (pkg/shop/customer_service.go).  Shop.Start spawns *)
(* one goroutine per simulated page impression and each goroutine runs one *)
(* of CreateCustomer, ModifyCustomer and DeleteCustomer to its end, so any *)
(* number of them interleave.  They share the slice recentCustomers, whose *)
(* mutex is held only inside the steps that read and write the slice, and  *)
(* the producer of the customers topic, which is used after the mutex has  *)
(* been released.  That window is what this module is about.               *)
(*                                                                         *)
(* A customer is its id and its revision.  The serializer is json.Marshal  *)
(* on a struct of strings and integers, which never fails, so the error    *)
(* branches behind it are unreachable and have no action.                  *)
(***************************************************************************)
EXTENDS KafkaProducer, FiniteSets, Functions

CONSTANTS
  Customer,      \* the ids gofakeit.UUID hands out
  PartitionOf,   \* the client's partitioner: the partition of a key
  Nil,           \* the nil value of a tombstone
  Goroutine,     \* bound: page impressions running at the same time
  BufferSize,    \* bufferSize, 500 in the code
  MaxCrashes     \* bound: how often the process dies and is restarted

ASSUME ServiceAssumption ==
  /\ PartitionOf \in [Customer -> Partition]
  /\ Nil \notin Nat
  /\ BufferSize \in Nat \ {0}
  /\ MaxCrashes \in Nat

VARIABLES
  recentCustomers,  \* the slice: customers that may still be changed
  registered,       \* every id generated so far, in all process lifetimes
  task,             \* what each goroutine is doing
  counted,          \* kafkaMessagesProducedTotal, per event type
  crashes

serviceVars == <<recentCustomers, registered, task, counted, crashes>>
vars == <<producerVars, serviceVars>>

Event == {"CUSTOMER_CREATED", "CUSTOMER_MODIFIED", "CUSTOMER_DELETED"}

(* A cached customer, and a record of the customers topic: the value of a  *)
(* record is the revision in its JSON document, or nil.                    *)
CachedCustomer == [id : Customer, revision : Nat]
Record == [key : Customer, value : Nat \cup {Nil}]

Idle == [at |-> "idle"]
Busy == [at : {"produce", "count"}, event : Event, rec : Record]

ProduceNext(event, id, value) ==
  [at |-> "produce", event |-> event, rec |-> [key |-> id, value |-> value]]

Init ==
  /\ ProducerInit
  /\ recentCustomers = <<>>
  /\ registered = {}
  /\ task = [g \in Goroutine |-> Idle]
  /\ counted = [e \in Event |-> 0]
  /\ crashes = 0

(* Mutant: an off-by-one in the test for room.                             *)
RememberOneTooMany(id) ==
  recentCustomers' = IF Len(recentCustomers) <= BufferSize
                     THEN Append(recentCustomers, [id |-> id, revision |-> 0])
                     ELSE recentCustomers

(* Append under the mutex; a full slice drops the newcomer silently.       *)
Remember(id) ==
  recentCustomers' = IF Len(recentCustomers) < BufferSize
                     THEN Append(recentCustomers, [id |-> id, revision |-> 0])
                     ELSE recentCustomers

(* Mutant: the goroutine ends after the unlock.                            *)
CreateCustomerWithoutRecord(g) ==
  /\ task[g] = Idle
  /\ \E id \in Customer \ registered :
       /\ registered' = registered \cup {id}
       /\ Remember(id)
  /\ UNCHANGED <<task, counted, crashes, producerVars>>

(* CreateCustomer up to the unlock: the customer is already visible to     *)
(* Modify and Delete, its record has not been produced yet.                *)
CreateCustomer(g) ==
  /\ task[g] = Idle
  /\ \E id \in Customer \ registered :
       /\ registered' = registered \cup {id}
       /\ Remember(id)
       /\ task' = [task EXCEPT ![g] = ProduceNext("CUSTOMER_CREATED", id, 0)]
  /\ UNCHANGED <<counted, crashes, producerVars>>

(* Mutant: the slice is not cut after the read.                            *)
PopCustomerWithoutCut ==
  /\ recentCustomers # <<>>
  /\ UNCHANGED recentCustomers

(* popCustomerFromBuffer when the slice holds something.                   *)
PopCustomer ==
  /\ recentCustomers # <<>>
  /\ recentCustomers' = Tail(recentCustomers)

(* popCustomerFromBuffer on an empty slice: the goroutine logs and ends.   *)
NothingToPop(g) ==
  /\ task[g] = Idle
  /\ recentCustomers = <<>>
  /\ UNCHANGED vars

(* Mutant: the modified customer goes back into the slice.                 *)
ModifyCustomerKeepsIt(g) ==
  /\ task[g] = Idle
  /\ recentCustomers # <<>>
  /\ LET customer == Head(recentCustomers)
     IN  /\ recentCustomers' = Append(Tail(recentCustomers),
                                      [customer EXCEPT !.revision = @ + 1])
         /\ task' = [task EXCEPT ![g] = ProduceNext("CUSTOMER_MODIFIED",
                                       customer.id, customer.revision + 1)]
  /\ UNCHANGED <<registered, counted, crashes, producerVars>>

(* ModifyCustomer up to the call of produceCustomer.                       *)
ModifyCustomer(g) ==
  /\ task[g] = Idle
  /\ PopCustomer
  /\ LET customer == Head(recentCustomers)
     IN  task' = [task EXCEPT ![g] = ProduceNext("CUSTOMER_MODIFIED",
                                       customer.id, customer.revision + 1)]
  /\ UNCHANGED <<registered, counted, crashes, producerVars>>

(* Mutant: DeleteCustomer returns after the pop.                           *)
DeleteCustomerWithoutTombstone(g) ==
  /\ task[g] = Idle
  /\ PopCustomer
  /\ UNCHANGED <<registered, task, counted, crashes, producerVars>>

(* DeleteCustomer up to the call of produceTombstone.                      *)
DeleteCustomer(g) ==
  /\ task[g] = Idle
  /\ PopCustomer
  /\ LET customer == Head(recentCustomers)
     IN  task' = [task EXCEPT ![g] = ProduceNext("CUSTOMER_DELETED",
                                                 customer.id, Nil)]
  /\ UNCHANGED <<registered, counted, crashes, producerVars>>

(* produceCustomer and produceTombstone: hand the record to the client.    *)
ProduceRecord(g) ==
  /\ task[g].at = "produce"
  /\ Produce(PartitionOf[task[g].rec.key], task[g].rec)
  /\ task' = [task EXCEPT ![g].at = "count"]
  /\ UNCHANGED <<recentCustomers, registered, counted, crashes>>

(* Mutant: every service method counts under the same event type.          *)
CountAsCreated(g) ==
  /\ task[g].at = "count"
  /\ counted' = [counted EXCEPT !["CUSTOMER_CREATED"] = @ + 1]
  /\ task' = [task EXCEPT ![g] = Idle]
  /\ UNCHANGED <<recentCustomers, registered, crashes, producerVars>>

(* The metric is incremented once Produce has returned, whatever becomes   *)
(* of the record: it counts what was handed over, not what is in the topic *)
(* (see MetricCountsTopicMessages).  The goroutine ends.                   *)
CountProduced(g) ==
  /\ task[g].at = "count"
  /\ counted' = [counted EXCEPT ![task[g].event] = @ + 1]
  /\ task' = [task EXCEPT ![g] = Idle]
  /\ UNCHANGED <<recentCustomers, registered, crashes, producerVars>>

(* The process dies and is started again.  Nothing but the topic survives. *)
Crash ==
  /\ crashes < MaxCrashes
  /\ crashes' = crashes + 1
  /\ LoseBuffered
  /\ recentCustomers' = <<>>
  /\ task' = [g \in Goroutine |-> Idle]
  /\ counted' = [e \in Event |-> 0]
  /\ UNCHANGED registered

Impression(g) ==
  \/ CreateCustomer(g)
  \/ ModifyCustomer(g)
  \/ DeleteCustomer(g)
  \/ NothingToPop(g)

Continue(g) == ProduceRecord(g) \/ CountProduced(g)

Client(p) ==
  /\ Deliver(p) \/ ExpireBuffered(p)
  /\ UNCHANGED serviceVars

Next ==
  \/ \E g \in Goroutine : Impression(g) \/ Continue(g)
  \/ \E p \in Partition : Client(p)
  \/ Crash

Spec == Init /\ [][Next]_vars

(* A goroutine that has work left is scheduled, and the client either      *)
(* delivers or fails what it holds (it has a delivery timeout).  Nothing   *)
(* is assumed about which impressions are picked, nor about crashes.       *)
FairSpec ==
  /\ Spec
  /\ \A g \in Goroutine : WF_vars(Continue(g))
  /\ \A p \in Partition : WF_vars(Client(p))

(* The same service on a broker that acknowledges every record in time.    *)
ReliableNext ==
  \/ \E g \in Goroutine : Impression(g) \/ Continue(g)
  \/ \E p \in Partition : Deliver(p) /\ UNCHANGED serviceVars
  \/ Crash

ReliableSpec == Init /\ [][ReliableNext]_vars
-----------------------------------------------------------------------------
(***************************************************************************)
(* Properties.                                                             *)
(***************************************************************************)

(* Every variable has its type; the slice never exceeds bufferSize.        *)
TypeOK ==
  /\ recentCustomers \in Seq(CachedCustomer)
  /\ Len(recentCustomers) <= BufferSize
  /\ registered \in SUBSET Customer
  /\ task \in [Goroutine -> {Idle} \cup Busy]
  /\ counted \in [Event -> Nat]
  /\ crashes \in 0..MaxCrashes
  /\ buffered \in [Partition -> Seq(Record)]
  /\ log \in [Partition -> Seq(Record)]
  /\ lost \in SUBSET Record

IsChange(rec) == rec.value # 0

SameClaim(r, s) == r.key = s.key /\ (IsChange(r) <=> IsChange(s))

(* Of everything ever handed to Produce, in any process lifetime, no two   *)
(* records register the same customer and no two change it: a customer is  *)
(* modified once or deleted once, never both and never twice, however the  *)
(* goroutines interleave (customer_service.go:112-165).                    *)
AtMostOneChange ==
  /\ \A p \in Partition : \A i, j \in DOMAIN Pipe(p) :
       SameClaim(Pipe(p)[i], Pipe(p)[j]) => i = j
  /\ \A p \in Partition : \A i \in DOMAIN Pipe(p), r \in lost :
       ~ SameClaim(Pipe(p)[i], r)
  /\ \A r, s \in lost : SameClaim(r, s) => r = s

(***************************************************************************)
(* The inductive invariant behind AtMostOneChange.  The right to register  *)
(* a customer and the right to change it have one holder each at any time: *)
(* the slice (changes only), one goroutine about to produce, or one record *)
(* that has been produced.                                                 *)
(***************************************************************************)
Producing(g) == task[g].at = "produce"

(* Whatever mentions a customer mentions one that has been generated.      *)
KeysAreRegistered ==
  /\ \A i \in DOMAIN recentCustomers : recentCustomers[i].id \in registered
  /\ \A g \in Goroutine : Producing(g) => task[g].rec.key \in registered
  /\ \A p \in Partition : \A i \in DOMAIN Pipe(p) : Pipe(p)[i].key \in registered
  /\ \A r \in lost : r.key \in registered

(* Records lie in their key's partition and hold one of three values.      *)
RecordsWellFormed ==
  /\ \A g \in Goroutine : Producing(g) => task[g].rec.value \in {0, 1, Nil}
  /\ \A p \in Partition : \A i \in DOMAIN Pipe(p) :
       Pipe(p)[i].value \in {0, 1, Nil} /\ PartitionOf[Pipe(p)[i].key] = p

(* A customer in the slice is there once, unmodified, and nobody else      *)
(* holds the right to change it.                                           *)
SliceHoldsChange ==
  \A i \in DOMAIN recentCustomers :
    LET id == recentCustomers[i].id
    IN  /\ recentCustomers[i].revision = 0
        /\ \A j \in DOMAIN recentCustomers : recentCustomers[j].id = id => i = j
        /\ \A g \in Goroutine :
             Producing(g) => task[g].rec.key # id \/ ~ IsChange(task[g].rec)
        /\ \A p \in Partition : \A k \in DOMAIN Pipe(p) :
             Pipe(p)[k].key # id \/ ~ IsChange(Pipe(p)[k])
        /\ \A r \in lost : r.key # id \/ ~ IsChange(r)

(* A goroutine about to produce makes a claim nobody else makes.           *)
TaskHoldsClaim ==
  \A g \in Goroutine : Producing(g) =>
    /\ \A h \in Goroutine :
         Producing(h) /\ SameClaim(task[g].rec, task[h].rec) => g = h
    /\ \A p \in Partition : \A i \in DOMAIN Pipe(p) :
         ~ SameClaim(task[g].rec, Pipe(p)[i])
    /\ \A r \in lost : ~ SameClaim(task[g].rec, r)

SoleClaimant ==
  /\ KeysAreRegistered
  /\ RecordsWellFormed
  /\ SliceHoldsChange
  /\ TaskHoldsClaim
  /\ AtMostOneChange

(* The records of an event type that were ever handed to Produce, and the  *)
(* goroutines between Produce and the metric.  No two calls hand over the  *)
(* same record (AtMostOneChange), so there are as many records as calls.   *)
EventOf(rec) ==
  CASE rec.value = 0   -> "CUSTOMER_CREATED"
    [] rec.value = Nil -> "CUSTOMER_DELETED"
    [] OTHER           -> "CUSTOMER_MODIFIED"

Handed(e) == {r \in EverProduced : EventOf(r) = e}

AboutToCount(e) ==
  Cardinality({g \in Goroutine : task[g].at = "count" /\ task[g].event = e})

(* What the code counts in kafkaMessagesProducedTotal are the calls of     *)
(* Produce, each exactly once under its event, however the goroutines and  *)
(* their clients interleave: within one process lifetime the counter is    *)
(* the number of records handed to the client less those whose goroutine   *)
(* has yet to count them; a restart only makes it forget                   *)
(* (customer_service.go:103-108, 125-130, 145-150).                        *)
MetricCountsProduceCalls ==
  \A e \in Event :
    /\ counted[e] + AboutToCount(e) <= Cardinality(Handed(e))
    /\ crashes = 0 => counted[e] + AboutToCount(e) = Cardinality(Handed(e))

(* The records of an event type that are in the topic or on their way.     *)
Arriving(e) ==
  {r \in UNION {Range(Pipe(p)) : p \in Partition} : EventOf(r) = e}

(* What its help text says the counter is, "The number of Kafka messages   *)
(* produced to a Kafka topic" (metrics.go:33): it never counts more than   *)
(* the messages that are in the topic or can still get there.  A delivery  *)
(* timeout breaks it, as nothing takes a failed record off the counter     *)
(* (customer_service.go:108, 200-211).                                     *)
MetricCountsTopicMessages ==
  \A e \in Event : counted[e] <= Cardinality(Arriving(e))

(* Every change in the log has the customer's registration before it: what *)
(* customer_service.go:22-24 says of updates and tombstones ("of an        *)
(* existing customer", "for existing customers").  Two impressions at once *)
(* break it (lines 97-103), and so does a delivery timeout.                *)
ChangesFollowRegistration ==
  \A p \in Partition : \A i \in DOMAIN log[p] :
    IsChange(log[p][i]) =>
      \E j \in 1..(i - 1) : log[p][j] = [key |-> log[p][i].key, value |-> 0]

(* A registered customer reaches the topic or its delivery has failed,     *)
(* unless the process died: no goroutine is stuck in front of Produce      *)
(* forever, and none ends without having produced.                         *)
Settled(id) ==
  LET rec == [key |-> id, value |-> 0]
  IN  rec \in lost \/ rec \in Range(log[PartitionOf[id]])

RegistrationSettles ==
  \A id \in Customer : id \in registered ~> (Settled(id) \/ crashes > 0)

(* A customer in the slice stays there for good, or its modification or    *)
(* tombstone ends up in the topic or has failed, unless the process died:  *)
(* the pop is the only way out of the slice and what it takes is never     *)
(* dropped on the way to the client (customer_service.go:114-151).         *)
InSlice(id) == \E i \in DOMAIN recentCustomers : recentCustomers[i].id = id

ChangeSettled(id) ==
  \E rec \in lost \cup Range(log[PartitionOf[id]]) :
    rec.key = id /\ IsChange(rec)

PoppedCustomerIsChanged ==
  \A id \in Customer :
    InSlice(id) ~> ([]InSlice(id) \/ ChangeSettled(id) \/ crashes > 0)

(* The service implements the abstract topic.                              *)
Topic == INSTANCE CustomersTopic
TopicSpec == Topic!Spec
=============================================================================
