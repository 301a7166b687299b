----------------------- MODULE CustomerServiceProofs -----------------------
(***************************************************************************)
(* Proofs about CustomerService for any number of customers, goroutines,   *)
(* partitions and crashes and any size of the slice and the client buffer. *)
(***************************************************************************)
EXTENDS CustomerService, KafkaProducerProofs, FiniteSetTheorems

USE ServiceAssumption

-----------------------------------------------------------------------------
(* Type correctness. *)

LEMMA InitTypeOK == Init => TypeOK
  BY DEF Init, ProducerInit, TypeOK, Event

(* A goroutine that is not idle works on a record. *)
LEMMA BusyTask ==
  ASSUME TypeOK, NEW g \in Goroutine, task[g].at \in {"produce", "count"}
  PROVE  /\ task[g] \in Busy
         /\ task[g].event \in Event
         /\ task[g].rec \in Record
         /\ task[g].rec.key \in Customer
         /\ task[g].rec.value \in Nat \cup {Nil}
         /\ PartitionOf[task[g].rec.key] \in Partition
<1>1. task[g] \in {Idle} \cup Busy
  BY DEF TypeOK
<1>2. task[g] # Idle
  BY DEF Idle
<1>3. task[g] \in Busy
  BY <1>1, <1>2
<1> QED BY <1>3 DEF Busy, Record

(* The task a goroutine gets when it has read or written the slice. *)
LEMMA ProduceNextType ==
  ASSUME NEW event \in Event, NEW id \in Customer, NEW value \in Nat \cup {Nil}
  PROVE  /\ ProduceNext(event, id, value) \in Busy
         /\ ProduceNext(event, id, value).at = "produce"
         /\ ProduceNext(event, id, value).rec = [key |-> id, value |-> value]
  BY DEF ProduceNext, Busy, Record

LEMMA RememberType ==
  ASSUME TypeOK, NEW id \in Customer, Remember(id)
  PROVE  /\ recentCustomers' \in Seq(CachedCustomer)
         /\ Len(recentCustomers') <= BufferSize
<1>1. [id |-> id, revision |-> 0] \in CachedCustomer
  BY DEF CachedCustomer
<1> QED BY <1>1, AppendProperties, LenProperties DEF Remember, TypeOK

LEMMA PopType ==
  ASSUME TypeOK, PopCustomer
  PROVE  /\ recentCustomers' \in Seq(CachedCustomer)
         /\ Len(recentCustomers') <= BufferSize
         /\ Head(recentCustomers).id \in Customer
         /\ Head(recentCustomers).revision + 1 \in Nat
<1>1. /\ recentCustomers \in Seq(CachedCustomer)
      /\ Len(recentCustomers) \in Nat
      /\ Len(recentCustomers) <= BufferSize
      /\ recentCustomers # <<>>
  BY LenProperties DEF TypeOK, PopCustomer
<1>2. /\ Head(recentCustomers) \in CachedCustomer
      /\ Tail(recentCustomers) \in Seq(CachedCustomer)
      /\ Len(Tail(recentCustomers)) = Len(recentCustomers) - 1
  BY <1>1, HeadTailProperties
<1> QED BY <1>1, <1>2 DEF PopCustomer, CachedCustomer

LEMMA NextTypeOK == TypeOK /\ [Next]_vars => TypeOK'
<1> SUFFICES ASSUME TypeOK, [Next]_vars PROVE TypeOK'
  OBVIOUS
<1>1. ASSUME NEW g \in Goroutine, CreateCustomer(g) PROVE TypeOK'
  <2>1. PICK id \in Customer \ registered :
          /\ registered' = registered \cup {id}
          /\ Remember(id)
          /\ task' = [task EXCEPT ![g] = ProduceNext("CUSTOMER_CREATED", id, 0)]
    BY <1>1 DEF CreateCustomer
  <2>2. ProduceNext("CUSTOMER_CREATED", id, 0) \in Busy
    BY ProduceNextType DEF Event
  <2> QED BY <1>1, <2>1, <2>2, RememberType
          DEF TypeOK, CreateCustomer, producerVars
<1>2. ASSUME NEW g \in Goroutine, ModifyCustomer(g) PROVE TypeOK'
  <2> DEFINE t == ProduceNext("CUSTOMER_MODIFIED", Head(recentCustomers).id,
                              Head(recentCustomers).revision + 1)
  <2>1. PopCustomer /\ task' = [task EXCEPT ![g] = t]
    BY <1>2 DEF ModifyCustomer
  <2>2. t \in Busy
    BY <2>1, PopType, ProduceNextType DEF Event
  <2> HIDE DEF t
  <2> QED BY <1>2, <2>1, <2>2, PopType DEF TypeOK, ModifyCustomer, producerVars
<1>3. ASSUME NEW g \in Goroutine, DeleteCustomer(g) PROVE TypeOK'
  <2> DEFINE t == ProduceNext("CUSTOMER_DELETED", Head(recentCustomers).id, Nil)
  <2>1. PopCustomer /\ task' = [task EXCEPT ![g] = t]
    BY <1>3 DEF DeleteCustomer
  <2>2. t \in Busy
    BY <2>1, PopType, ProduceNextType DEF Event
  <2> HIDE DEF t
  <2> QED BY <1>3, <2>1, <2>2, PopType DEF TypeOK, DeleteCustomer, producerVars
<1>4. ASSUME NEW g \in Goroutine, NothingToPop(g) PROVE TypeOK'
  BY <1>4 DEF NothingToPop, TypeOK, vars, producerVars, serviceVars
<1>5. ASSUME NEW g \in Goroutine, ProduceRecord(g) PROVE TypeOK'
  <2>1. task[g] \in Busy /\ task[g].rec \in Record
        /\ PartitionOf[task[g].rec.key] \in Partition
    BY <1>5, BusyTask DEF ProduceRecord
  <2>2. task' \in [Goroutine -> {Idle} \cup Busy]
    <3>1. [task[g] EXCEPT !.at = "count"] \in Busy
      BY <2>1 DEF Busy
    <3> QED BY <1>5, <3>1 DEF ProduceRecord, TypeOK
  <2> QED BY <1>5, <2>1, <2>2 DEF TypeOK, ProduceRecord, Produce
<1>6. ASSUME NEW g \in Goroutine, CountProduced(g) PROVE TypeOK'
  <2>1. task[g].event \in Event
    BY <1>6, BusyTask DEF CountProduced
  <2> QED BY <1>6, <2>1 DEF TypeOK, CountProduced, producerVars
<1>7. ASSUME NEW p \in Partition, Client(p) PROVE TypeOK'
  <2>1. RecordsIn(Record) /\ lost \in SUBSET Record
    BY DEF TypeOK, RecordsIn
  <2>2. CASE Deliver(p)
    <3>1. RecordsIn(Record)'
      BY <2>1, <2>2, PipeDeliver
    <3> QED BY <1>7, <2>2, <3>1
            DEF TypeOK, RecordsIn, Client, Deliver, serviceVars
  <2>3. CASE ExpireBuffered(p)
    <3>1. RecordsIn(Record)' /\ lost' \in SUBSET Record
      BY <2>1, <2>3, PipeCut
    <3> QED BY <1>7, <3>1 DEF TypeOK, RecordsIn, Client, serviceVars
  <2> QED BY <1>7, <2>2, <2>3 DEF Client
<1>8. CASE Crash
  <2>1. RecordsIn(Record) /\ lost \in SUBSET Record
    BY DEF TypeOK, RecordsIn
  <2>2. RecordsIn(Record)' /\ lost' \in SUBSET Record
    BY <1>8, <2>1, PipeCut DEF Crash
  <2> QED BY <1>8, <2>2 DEF TypeOK, RecordsIn, Crash
<1>9. CASE UNCHANGED vars
  BY <1>9 DEF TypeOK, vars, producerVars, serviceVars
<1> QED BY <1>1, <1>2, <1>3, <1>4, <1>5, <1>6, <1>7, <1>8, <1>9
        DEF Next, Impression, Continue

(* Whatever the goroutines, the client and crashes do, every variable of   *)
(* the customer service keeps its type and the slice its bound.            *)
THEOREM TypeCorrect == Spec => []TypeOK
  BY InitTypeOK, NextTypeOK, PTL DEF Spec

-----------------------------------------------------------------------------
(* The right to register and the right to change a customer.               *)

LEMMA InitSoleClaimant == Init => SoleClaimant
<1> SUFFICES ASSUME Init PROVE SoleClaimant
  OBVIOUS
<1>1. /\ recentCustomers = <<>> /\ lost = {}
      /\ \A g \in Goroutine : ~ Producing(g)
  BY DEF Init, ProducerInit, Producing, Idle
<1>2. \A p \in Partition : DOMAIN Pipe(p) = {}
  BY DEF Init, ProducerInit, Pipe
<1> QED BY <1>1, <1>2
        DEF SoleClaimant, KeysAreRegistered, RecordsWellFormed,
            SliceHoldsChange, TaskHoldsClaim, AtMostOneChange

(* As long as the producer is left alone its pipes are.                    *)
LEMMA PipesUnchanged ==
  ASSUME UNCHANGED producerVars
  PROVE  lost' = lost /\ \A p \in Partition : Pipe(p)' = Pipe(p)
  BY DEF producerVars, Pipe

(* A new customer: nothing mentions its id, so both its claims are free.   *)
LEMMA CreateKeepsClaims ==
  ASSUME TypeOK, SoleClaimant, NEW g \in Goroutine, CreateCustomer(g)
  PROVE  SoleClaimant'
<1>1. PICK id \in Customer \ registered :
        /\ registered' = registered \cup {id}
        /\ Remember(id)
        /\ task' = [task EXCEPT ![g] = ProduceNext("CUSTOMER_CREATED", id, 0)]
  BY DEF CreateCustomer
<1>2. lost' = lost /\ \A p \in Partition : Pipe(p)' = Pipe(p)
  BY PipesUnchanged DEF CreateCustomer
<1>3. /\ \A h \in Goroutine \ {g} : task'[h] = task[h]
      /\ task'[g].at = "produce"
      /\ task'[g].rec = [key |-> id, value |-> 0]
  BY <1>1, ProduceNextType DEF TypeOK, ProduceNext
<1>4. \A i \in DOMAIN recentCustomers' :
        \/ i \in DOMAIN recentCustomers /\ recentCustomers'[i] = recentCustomers[i]
        \/ /\ recentCustomers'[i] = [id |-> id, revision |-> 0]
           /\ i = Len(recentCustomers) + 1
  BY <1>1, AppendProperties, LenProperties DEF Remember, TypeOK
<1>5. KeysAreRegistered'
  BY <1>1, <1>2, <1>3, <1>4 DEF SoleClaimant, KeysAreRegistered, Producing
<1>6. RecordsWellFormed'
  BY <1>2, <1>3 DEF SoleClaimant, RecordsWellFormed, Producing
<1>7. SliceHoldsChange'
  BY <1>1, <1>2, <1>3, <1>4
     DEF SoleClaimant, KeysAreRegistered, SliceHoldsChange, Producing, IsChange
<1>8. TaskHoldsClaim'
  BY <1>1, <1>2, <1>3
     DEF SoleClaimant, KeysAreRegistered, TaskHoldsClaim, Producing, SameClaim
<1>9. AtMostOneChange'
  BY <1>2 DEF SoleClaimant, AtMostOneChange
<1> QED BY <1>5, <1>6, <1>7, <1>8, <1>9 DEF SoleClaimant

(* The right to change a customer moves from the slice to the goroutine.   *)
LEMMA PopKeepsClaims ==
  ASSUME TypeOK, SoleClaimant, NEW g \in Goroutine,
         PopCustomer, NEW event \in Event, NEW value \in {1, Nil},
         task' = [task EXCEPT
                    ![g] = ProduceNext(event, Head(recentCustomers).id, value)],
         UNCHANGED <<registered, producerVars>>
  PROVE  SoleClaimant'
<1> DEFINE id == Head(recentCustomers).id
<1>1. /\ recentCustomers \in Seq(CachedCustomer)
      /\ recentCustomers # <<>>
      /\ Len(recentCustomers) \in Nat
      /\ DOMAIN recentCustomers = 1..Len(recentCustomers)
  BY LenProperties DEF TypeOK, PopCustomer
<1>2. /\ 1 \in DOMAIN recentCustomers
      /\ recentCustomers[1].id = id
      /\ DOMAIN recentCustomers' = 1..(Len(recentCustomers) - 1)
      /\ \A i \in DOMAIN recentCustomers' :
           /\ i + 1 \in DOMAIN recentCustomers
           /\ i + 1 # 1
           /\ recentCustomers'[i] = recentCustomers[i + 1]
  BY <1>1, HeadTailProperties, LenProperties, EmptySeq DEF PopCustomer
<1>3. lost' = lost /\ \A p \in Partition : Pipe(p)' = Pipe(p)
  BY PipesUnchanged
<1>4. id \in Customer /\ value \in Nat \cup {Nil} /\ value # 0
  BY PopType
<1> HIDE DEF id
<1>5. /\ \A h \in Goroutine \ {g} : task'[h] = task[h]
      /\ task'[g].at = "produce"
      /\ task'[g].rec = [key |-> id, value |-> value]
  BY <1>4, ProduceNextType DEF TypeOK, id
<1>6. id \in registered
  BY <1>2 DEF SoleClaimant, KeysAreRegistered
<1>7. KeysAreRegistered'
  BY <1>2, <1>3, <1>5, <1>6 DEF SoleClaimant, KeysAreRegistered, Producing
<1>8. RecordsWellFormed'
  BY <1>3, <1>5 DEF SoleClaimant, RecordsWellFormed, Producing
<1>9. /\ \A h \in Goroutine : Producing(h) =>
           task[h].rec.key # id \/ ~ IsChange(task[h].rec)
      /\ \A p \in Partition : \A k \in DOMAIN Pipe(p) :
           Pipe(p)[k].key # id \/ ~ IsChange(Pipe(p)[k])
      /\ \A r \in lost : r.key # id \/ ~ IsChange(r)
  BY <1>2 DEF SoleClaimant, SliceHoldsChange
<1>10. \A i \in DOMAIN recentCustomers' : recentCustomers'[i].id # id
  BY <1>1, <1>2 DEF SoleClaimant, SliceHoldsChange
<1>11. SliceHoldsChange'
  <2> SUFFICES ASSUME NEW i \in DOMAIN recentCustomers'
               PROVE
      /\ recentCustomers'[i].revision = 0
      /\ \A j \in DOMAIN recentCustomers' :
           recentCustomers'[j].id = recentCustomers'[i].id => i = j
      /\ \A h \in Goroutine : Producing(h)' =>
           task'[h].rec.key # recentCustomers'[i].id \/ ~ IsChange(task'[h].rec)
      /\ \A p \in Partition : \A k \in DOMAIN Pipe(p)' :
           Pipe(p)'[k].key # recentCustomers'[i].id \/ ~ IsChange(Pipe(p)'[k])
      /\ \A r \in lost' : r.key # recentCustomers'[i].id \/ ~ IsChange(r)
    BY DEF SliceHoldsChange, IsChange
  <2>1. /\ i + 1 \in DOMAIN recentCustomers
        /\ recentCustomers'[i] = recentCustomers[i + 1]
    BY <1>2
  <2>2. \A j \in DOMAIN recentCustomers' :
          recentCustomers'[j].id = recentCustomers'[i].id => i = j
    BY <1>1, <1>2, <2>1 DEF SoleClaimant, SliceHoldsChange
  <2> QED BY <1>3, <1>5, <1>10, <2>1, <2>2
          DEF SoleClaimant, SliceHoldsChange, Producing
<1>12. TaskHoldsClaim'
  BY <1>3, <1>4, <1>5, <1>9
     DEF SoleClaimant, TaskHoldsClaim, Producing, SameClaim, IsChange
<1>13. AtMostOneChange'
  BY <1>3 DEF SoleClaimant, AtMostOneChange
<1> QED BY <1>7, <1>8, <1>11, <1>12, <1>13 DEF SoleClaimant

(* A claim moves from the goroutine to the record it has produced.         *)
LEMMA ProduceKeepsClaims ==
  ASSUME TypeOK, SoleClaimant, NEW g \in Goroutine, ProduceRecord(g)
  PROVE  SoleClaimant'
<1> DEFINE rec == task[g].rec
           home == PartitionOf[rec.key]
<1>1. rec \in Record /\ home \in Partition /\ Producing(g)
  BY BusyTask DEF ProduceRecord, Producing
<1>2. RecordsIn(Record) /\ Produce(home, rec)
  BY DEF RecordsIn, TypeOK, ProduceRecord
<1> HIDE DEF rec, home
<1>3. \A q \in Partition :
        /\ Pipe(q) \in Seq(Record)
        /\ Pipe(q)' = IF q = home THEN Append(Pipe(q), rec) ELSE Pipe(q)
  BY <1>1, <1>2, PipeProduce, PipeShape
<1>4. lost' = lost
  BY <1>2 DEF Produce
<1>5. \A q \in Partition : \A i \in DOMAIN Pipe(q)' :
        \/ i \in DOMAIN Pipe(q) /\ Pipe(q)'[i] = Pipe(q)[i]
        \/ /\ q = home
           /\ i = Len(Pipe(q)) + 1
           /\ i \notin DOMAIN Pipe(q)
           /\ Pipe(q)'[i] = rec
  BY <1>1, <1>3, AppendProperties, LenProperties
<1>6. \A h \in Goroutine :
        Producing(h)' => h # g /\ Producing(h) /\ task'[h] = task[h]
  BY DEF ProduceRecord, TypeOK, Producing
<1>7. recentCustomers' = recentCustomers /\ registered' = registered
  BY DEF ProduceRecord
<1>8. KeysAreRegistered'
  BY <1>1, <1>4, <1>5, <1>6, <1>7 DEF SoleClaimant, KeysAreRegistered, rec
<1>9. RecordsWellFormed'
  BY <1>1, <1>5, <1>6 DEF SoleClaimant, RecordsWellFormed, rec, home
<1>10. SliceHoldsChange'
  BY <1>1, <1>4, <1>5, <1>6, <1>7
     DEF SoleClaimant, SliceHoldsChange, IsChange, rec
<1>11. TaskHoldsClaim'
  BY <1>1, <1>4, <1>5, <1>6
     DEF SoleClaimant, TaskHoldsClaim, SameClaim, IsChange, rec
<1>12. AtMostOneChange'
  <2>1. \A p \in Partition : \A i \in DOMAIN Pipe(p) : ~ SameClaim(rec, Pipe(p)[i])
    BY <1>1 DEF SoleClaimant, TaskHoldsClaim, rec
  <2>2. \A r \in lost : ~ SameClaim(rec, r)
    BY <1>1 DEF SoleClaimant, TaskHoldsClaim, rec
  <2> QED BY <1>4, <1>5, <2>1, <2>2
          DEF SoleClaimant, AtMostOneChange, SameClaim, IsChange
<1> QED BY <1>8, <1>9, <1>10, <1>11, <1>12 DEF SoleClaimant

(* Delivery moves a record within its pipe.                                *)
LEMMA DeliverKeepsClaims ==
  ASSUME TypeOK, SoleClaimant, NEW p \in Partition, Deliver(p),
         UNCHANGED serviceVars
  PROVE  SoleClaimant'
<1>1. /\ \A q \in Partition : Pipe(q)' = Pipe(q)
      /\ lost' = lost /\ task' = task
      /\ recentCustomers' = recentCustomers /\ registered' = registered
  BY PipeDeliver DEF TypeOK, RecordsIn, Deliver, serviceVars
<1> QED BY <1>1
        DEF SoleClaimant, KeysAreRegistered, RecordsWellFormed,
            SliceHoldsChange, TaskHoldsClaim, AtMostOneChange, Producing

(* A failed delivery or a crash moves claims from the end of a pipe to the *)
(* lost records; a crash frees the claims of the slice and the goroutines, *)
(* and nobody makes them again because ids are never reused.               *)
LEMMA CutKeepsClaims ==
  ASSUME TypeOK, SoleClaimant,
         LoseBuffered \/ \E p \in Partition : ExpireBuffered(p),
         registered' = registered,
         recentCustomers' \in {recentCustomers, <<>>},
         \A g \in Goroutine : Producing(g)' => Producing(g) /\ task'[g] = task[g]
  PROVE  SoleClaimant'
<1>1. RecordsIn(Record) /\ lost \in SUBSET Record
  BY DEF TypeOK, RecordsIn
<1>2. \A q \in Partition :
        /\ DOMAIN Pipe(q)' \subseteq DOMAIN Pipe(q)
        /\ \A i \in DOMAIN Pipe(q)' : Pipe(q)'[i] = Pipe(q)[i]
  BY <1>1, PipeCut
<1>3. \A r \in lost' \ lost :
        \E q \in Partition : \E i \in DOMAIN Pipe(q) \ DOMAIN Pipe(q)' :
          r = Pipe(q)[i]
  BY <1>1, PipeCut
<1>4. DOMAIN recentCustomers' \subseteq DOMAIN recentCustomers
      /\ \A i \in DOMAIN recentCustomers' : recentCustomers'[i] = recentCustomers[i]
  OBVIOUS
<1>5. KeysAreRegistered'
  BY <1>2, <1>3, <1>4 DEF SoleClaimant, KeysAreRegistered
<1>6. RecordsWellFormed'
  BY <1>2 DEF SoleClaimant, RecordsWellFormed
<1>7. SliceHoldsChange'
  BY <1>2, <1>3, <1>4 DEF SoleClaimant, SliceHoldsChange, IsChange
<1>8. TaskHoldsClaim'
  BY <1>2, <1>3 DEF SoleClaimant, TaskHoldsClaim, SameClaim, IsChange
<1>9. AtMostOneChange'
  <2>1. \A p, q \in Partition :
          \A i \in DOMAIN Pipe(p), j \in DOMAIN Pipe(q) :
            SameClaim(Pipe(p)[i], Pipe(q)[j]) => p = q /\ i = j
    BY DEF SoleClaimant, RecordsWellFormed, AtMostOneChange, SameClaim
  <2>2. \A p \in Partition : \A i, j \in DOMAIN Pipe(p)' :
          SameClaim(Pipe(p)'[i], Pipe(p)'[j]) => i = j
    BY <1>2, <2>1
  <2>3. \A p \in Partition : \A i \in DOMAIN Pipe(p)', r \in lost' :
          ~ SameClaim(Pipe(p)'[i], r)
    BY <1>2, <1>3, <2>1 DEF SoleClaimant, AtMostOneChange
  <2>4. \A r, s \in lost' : SameClaim(r, s) => r = s
    <3> SUFFICES ASSUME NEW r \in lost', NEW s \in lost', SameClaim(r, s)
                 PROVE  r = s
      OBVIOUS
    <3>1. CASE r \in lost /\ s \in lost
      BY <3>1 DEF SoleClaimant, AtMostOneChange
    <3>2. CASE r \notin lost /\ s \in lost
      BY <3>2, <1>3 DEF SoleClaimant, AtMostOneChange
    <3>3. CASE r \in lost /\ s \notin lost
      BY <3>3, <1>3 DEF SoleClaimant, AtMostOneChange, SameClaim
    <3>4. CASE r \notin lost /\ s \notin lost
      BY <3>4, <1>3, <2>1
    <3> QED BY <3>1, <3>2, <3>3, <3>4
  <2> QED BY <2>2, <2>3, <2>4 DEF AtMostOneChange, SameClaim, IsChange
<1> QED BY <1>5, <1>6, <1>7, <1>8, <1>9 DEF SoleClaimant

(* What is modified or deleted has not been modified before.               *)
LEMMA PoppedIsUnmodified ==
  ASSUME TypeOK, SoleClaimant, PopCustomer
  PROVE  Head(recentCustomers).revision + 1 = 1
<1>1. recentCustomers \in Seq(CachedCustomer) /\ recentCustomers # <<>>
  BY DEF TypeOK, PopCustomer
<1>2. 1 \in DOMAIN recentCustomers /\ Head(recentCustomers) = recentCustomers[1]
  BY <1>1, LenProperties, EmptySeq, HeadTailProperties
<1> QED BY <1>2 DEF SoleClaimant, SliceHoldsChange

LEMMA NextSoleClaimant == TypeOK /\ SoleClaimant /\ [Next]_vars => SoleClaimant'
<1> SUFFICES ASSUME TypeOK, SoleClaimant, [Next]_vars PROVE SoleClaimant'
  OBVIOUS
<1>1. ASSUME UNCHANGED vars PROVE SoleClaimant'
  BY <1>1, PipesUnchanged
     DEF vars, serviceVars, SoleClaimant, KeysAreRegistered, RecordsWellFormed,
         SliceHoldsChange, TaskHoldsClaim, AtMostOneChange, Producing
<1>2. ASSUME NEW g \in Goroutine, ModifyCustomer(g) PROVE SoleClaimant'
  <2>1. PopCustomer
    BY <1>2 DEF ModifyCustomer
  <2>2. Head(recentCustomers).revision + 1 = 1
    BY <2>1, PoppedIsUnmodified
  <2> QED BY <1>2, <2>1, <2>2, PopKeepsClaims DEF ModifyCustomer, Event
<1>3. ASSUME NEW g \in Goroutine, DeleteCustomer(g) PROVE SoleClaimant'
  BY <1>3, PopKeepsClaims DEF DeleteCustomer, Event
<1>4. ASSUME NEW g \in Goroutine, CountProduced(g) PROVE SoleClaimant'
  <2>1. /\ lost' = lost /\ \A p \in Partition : Pipe(p)' = Pipe(p)
        /\ recentCustomers' = recentCustomers /\ registered' = registered
    BY <1>4, PipesUnchanged DEF CountProduced
  <2>2. \A h \in Goroutine : Producing(h)' => Producing(h) /\ task'[h] = task[h]
    BY <1>4 DEF CountProduced, TypeOK, Producing, Idle
  <2> QED BY <2>1, <2>2
          DEF SoleClaimant, KeysAreRegistered, RecordsWellFormed,
              SliceHoldsChange, TaskHoldsClaim, AtMostOneChange, SameClaim,
              IsChange
<1>5. ASSUME NEW p \in Partition, Client(p) PROVE SoleClaimant'
  <2>1. UNCHANGED serviceVars
    BY <1>5 DEF Client
  <2>2. CASE Deliver(p)
    BY <2>1, <2>2, DeliverKeepsClaims
  <2>3. CASE ExpireBuffered(p)
    BY <2>1, <2>3, CutKeepsClaims DEF serviceVars, Producing
  <2> QED BY <1>5, <2>2, <2>3 DEF Client
<1>6. CASE Crash
  BY <1>6, CutKeepsClaims DEF Crash, Producing, Idle
<1> QED BY <1>1, <1>2, <1>3, <1>4, <1>5, <1>6,
           CreateKeepsClaims, ProduceKeepsClaims
        DEF Next, Impression, Continue, NothingToPop

(* The right to register and the right to change a customer have at most   *)
(* one holder each (customer_service.go:95-165).                           *)
THEOREM SoleClaimantInvariant == Spec => []SoleClaimant
  BY InitTypeOK, NextTypeOK, InitSoleClaimant, NextSoleClaimant, PTL DEF Spec

(* No customer is changed twice, by any interleaving of any number of      *)
(* ModifyCustomer and DeleteCustomer (customer_service.go:112-165).        *)
THEOREM NoSecondChange == Spec => []AtMostOneChange
<1>1. SoleClaimant => AtMostOneChange
  BY DEF SoleClaimant
<1> QED BY <1>1, SoleClaimantInvariant, PTL

-----------------------------------------------------------------------------
(* The metric.                                                             *)

(* The goroutines that have handed over a record and not counted it yet.   *)
Counting(e) == {g \in Goroutine : task[g].at = "count" /\ task[g].event = e}

(* A goroutine counts under the event its record stands for.               *)
EventsFit ==
  \A g \in Goroutine : Producing(g) => EventOf(task[g].rec) = task[g].event

(* The metric moves by one for every record that joins those ever handed   *)
(* over, once its goroutine has passed both; the sets are finite, or their *)
(* cardinalities would say nothing.                                        *)
MetricInv ==
  /\ EventsFit
  /\ IsFiniteSet(EverProduced)
  /\ \A e \in Event : IsFiniteSet(Counting(e))
  /\ MetricCountsProduceCalls

LEMMA MetricSums ==
  ASSUME TypeOK, MetricInv, NEW e \in Event
  PROVE  /\ AboutToCount(e) = Cardinality(Counting(e))
         /\ IsFiniteSet(Counting(e)) /\ IsFiniteSet(Handed(e))
         /\ counted[e] \in Nat /\ AboutToCount(e) \in Nat
         /\ Cardinality(Handed(e)) \in Nat
<1>1. AboutToCount(e) = Cardinality(Counting(e))
  BY DEF AboutToCount, Counting
<1>2. IsFiniteSet(Counting(e)) /\ Cardinality(Counting(e)) \in Nat
  BY FS_CardinalityType DEF MetricInv
<1>3. IsFiniteSet(Handed(e)) /\ Cardinality(Handed(e)) \in Nat
  <2>1. Handed(e) \subseteq EverProduced /\ IsFiniteSet(EverProduced)
    BY DEF Handed, MetricInv
  <2> QED BY <2>1, FS_Subset, FS_CardinalityType
<1> QED BY <1>1, <1>2, <1>3 DEF TypeOK

LEMMA InitMetric == Init => MetricInv
<1> SUFFICES ASSUME Init PROVE MetricInv
  OBVIOUS
<1>1. \A g \in Goroutine : task[g].at = "idle"
  BY DEF Init, Idle
<1>2. EverProduced = {}
  BY DEF Init, ProducerInit, EverProduced, Pipe, Range
<1>3. \A e \in Event : Counting(e) = {} /\ Handed(e) = {} /\ counted[e] = 0
  BY <1>1, <1>2 DEF Init, Counting, Handed
<1>4. IsFiniteSet({}) /\ Cardinality({}) = 0
  BY FS_EmptySet
<1>5. \A e \in Event : AboutToCount(e) = 0 /\ Cardinality(Handed(e)) = 0
  BY <1>3, <1>4 DEF AboutToCount, Counting
<1>6. MetricCountsProduceCalls
  BY <1>3, <1>5 DEF MetricCountsProduceCalls
<1> QED BY <1>1, <1>2, <1>3, <1>4, <1>6 DEF MetricInv, EventsFit, Producing

(* A step that hands over nothing, counts nothing and starts at most to    *)
(* produce under the right event.                                          *)
LEMMA MetricUnmoved ==
  ASSUME MetricInv, EventsFit', EverProduced' = EverProduced,
         \A e \in Event : Counting(e)' = Counting(e),
         UNCHANGED <<counted, crashes>>
  PROVE  MetricInv'
<1>1. \A e \in Event : Handed(e)' = Handed(e)
  BY DEF Handed, EventOf
<1>2. \A e \in Event : AboutToCount(e)' = AboutToCount(e)
  BY DEF AboutToCount, Counting
<1> QED BY <1>1, <1>2 DEF MetricInv, MetricCountsProduceCalls

(* An impression takes up a record under the event it stands for.          *)
LEMMA ImpressionKeepsMetric ==
  ASSUME TypeOK, MetricInv, NEW g \in Goroutine, task[g] = Idle,
         NEW event \in Event, NEW id \in Customer, NEW value \in {0, 1, Nil},
         event = EventOf([key |-> id, value |-> value]),
         task' = [task EXCEPT ![g] = ProduceNext(event, id, value)],
         UNCHANGED <<counted, crashes, producerVars>>
  PROVE  MetricInv'
<1>1. /\ task[g].at = "idle" /\ task'[g] = ProduceNext(event, id, value)
      /\ \A h \in Goroutine : h # g => task'[h] = task[h]
  BY DEF TypeOK, Idle
<1>2. /\ task'[g].at = "produce" /\ task'[g].event = event
      /\ task'[g].rec = [key |-> id, value |-> value]
  BY <1>1 DEF ProduceNext
<1>3. EventsFit'
  BY <1>1, <1>2 DEF MetricInv, EventsFit, Producing, EventOf
<1>4. \A e \in Event : Counting(e)' = Counting(e)
  BY <1>1, <1>2 DEF Counting
<1>5. EverProduced' = EverProduced
  BY EverProducedKept DEF TypeOK, RecordsIn
<1> QED BY <1>3, <1>4, <1>5, MetricUnmoved

(* A record is handed over that never was before, and its goroutine is     *)
(* about to count it under its event.                                      *)
LEMMA ProduceHandsOver ==
  ASSUME TypeOK, SoleClaimant, MetricInv, NEW g \in Goroutine, ProduceRecord(g)
  PROVE  \E rec \in Record : \E event \in Event :
           /\ EventOf(rec) = event /\ PartitionOf[rec.key] \in Partition
           /\ Produce(PartitionOf[rec.key], rec) /\ rec \notin EverProduced
           /\ Counting(event)' = Counting(event) \cup {g} /\ g \notin Counting(event)
           /\ \A e \in Event : e # event => Counting(e)' = Counting(e)
           /\ EventsFit' /\ UNCHANGED <<counted, crashes>>
<1>0. PICK rec \in Record, event \in Event :
        task[g].rec = rec /\ task[g].event = event
  BY BusyTask DEF ProduceRecord
<1>1. /\ Producing(g) /\ EventOf(rec) = event
      /\ PartitionOf[rec.key] \in Partition
  BY <1>0, BusyTask DEF ProduceRecord, Producing, MetricInv, EventsFit
<1>2. /\ Produce(PartitionOf[rec.key], rec)
      /\ UNCHANGED <<counted, crashes>>
  BY <1>0 DEF ProduceRecord
<1>3. /\ task'[g].at = "count" /\ task'[g].event = event /\ task[g].at = "produce"
      /\ \A h \in Goroutine : h # g => task'[h] = task[h]
  <2>1. task[g] \in Busy /\ task[g].at = "produce"
    BY BusyTask DEF ProduceRecord
  <2> QED BY <1>0, <2>1 DEF ProduceRecord, TypeOK, Busy
<1>4. rec \notin EverProduced
  <2>1. /\ \A p \in Partition : \A i \in DOMAIN Pipe(p) : ~ SameClaim(rec, Pipe(p)[i])
        /\ \A r \in lost : ~ SameClaim(rec, r)
    BY <1>0, <1>1 DEF SoleClaimant, TaskHoldsClaim
  <2>2. SameClaim(rec, rec)
    BY DEF SameClaim
  <2> QED BY <2>1, <2>2 DEF EverProduced, Range
<1>5. /\ Counting(event)' = Counting(event) \cup {g} /\ g \notin Counting(event)
      /\ \A e \in Event : e # event => Counting(e)' = Counting(e)
  BY <1>3 DEF Counting
<1>6. EventsFit'
  BY <1>3 DEF MetricInv, EventsFit, Producing, EventOf
<1> QED BY <1>1, <1>2, <1>4, <1>5, <1>6

(* One more goroutine about to count, as a number.                         *)
LEMMA OneMoreCounts ==
  ASSUME TypeOK, MetricInv, NEW g, NEW event \in Event,
         Counting(event)' = Counting(event) \cup {g}, g \notin Counting(event),
         \A e \in Event : e # event => Counting(e)' = Counting(e)
  PROVE  /\ \A e \in Event : IsFiniteSet(Counting(e)')
         /\ \A e \in Event : AboutToCount(e)' =
              IF e = event THEN AboutToCount(e) + 1 ELSE AboutToCount(e)
<1>1. /\ IsFiniteSet(Counting(event) \cup {g})
      /\ Cardinality(Counting(event) \cup {g}) = Cardinality(Counting(event)) + 1
  <2>1. IsFiniteSet(Counting(event))
    BY MetricSums
  <2> QED BY <2>1, FS_AddElement
<1>2. \A e \in Event : AboutToCount(e) = Cardinality(Counting(e))
  BY DEF AboutToCount, Counting
<1>3. \A e \in Event : AboutToCount(e)' = Cardinality(Counting(e)')
  BY DEF AboutToCount, Counting
<1>4. \A e \in Event : IsFiniteSet(Counting(e)')
  BY <1>1, MetricSums
<1> QED BY <1>1, <1>2, <1>3, <1>4

(* One more of its event has been handed over, and one more goroutine is   *)
(* about to count it.                                                      *)
LEMMA ProduceKeepsMetric ==
  ASSUME TypeOK, SoleClaimant, MetricInv, NEW g \in Goroutine, ProduceRecord(g)
  PROVE  MetricInv'
<1>1. PICK rec \in Record, event \in Event :
        /\ EventOf(rec) = event /\ PartitionOf[rec.key] \in Partition
        /\ Produce(PartitionOf[rec.key], rec) /\ rec \notin EverProduced
        /\ Counting(event)' = Counting(event) \cup {g} /\ g \notin Counting(event)
        /\ \A e \in Event : e # event => Counting(e)' = Counting(e)
        /\ EventsFit' /\ UNCHANGED <<counted, crashes>>
  BY ProduceHandsOver
<1>2. EverProduced' = EverProduced \cup {rec}
  BY <1>1, EverProducedProduce DEF TypeOK, RecordsIn
<1>3. /\ Handed(event)' = Handed(event) \cup {rec} /\ rec \notin Handed(event)
      /\ \A e \in Event : e # event => Handed(e)' = Handed(e)
  BY <1>1, <1>2 DEF Handed, EventOf
<1>4. Cardinality(Handed(event)') = Cardinality(Handed(event)) + 1
  <2>1. IsFiniteSet(Handed(event))
    BY MetricSums
  <2>2. Cardinality(Handed(event) \cup {rec}) = Cardinality(Handed(event)) + 1
    BY ONLY <1>3, <2>1, FS_AddElement
  <2> QED BY <1>3, <2>2
<1>5. /\ \A e \in Event : IsFiniteSet(Counting(e)')
      /\ \A e \in Event : AboutToCount(e)' =
           IF e = event THEN AboutToCount(e) + 1 ELSE AboutToCount(e)
  BY <1>1, OneMoreCounts
<1>6. MetricCountsProduceCalls'
  <2> SUFFICES ASSUME NEW e \in Event
               PROVE  /\ counted'[e] + AboutToCount(e)' <= Cardinality(Handed(e)')
                      /\ crashes' = 0 => counted'[e] + AboutToCount(e)'
                                           = Cardinality(Handed(e)')
    BY DEF MetricCountsProduceCalls, AboutToCount, Handed, EventOf
  <2>1. /\ counted'[e] = counted[e] /\ crashes' = crashes
        /\ counted[e] + AboutToCount(e) <= Cardinality(Handed(e))
        /\ crashes = 0 => counted[e] + AboutToCount(e) = Cardinality(Handed(e))
    BY <1>1 DEF MetricInv, MetricCountsProduceCalls
  <2>2. /\ counted[e] \in Nat /\ AboutToCount(e) \in Nat
        /\ Cardinality(Handed(e)) \in Nat
    BY MetricSums
  <2>3. CASE e # event
    BY <1>3, <1>5, <2>1, <2>2, <2>3
  <2>4. CASE e = event
    BY <1>4, <1>5, <2>1, <2>2, <2>4
  <2> QED BY <2>3, <2>4
<1>7. IsFiniteSet(EverProduced')
  BY <1>1, <1>2, FS_AddElement DEF MetricInv
<1> QED BY <1>1, <1>5, <1>6, <1>7 DEF MetricInv

(* The metric moves when its goroutine stops being about to count.         *)
LEMMA CountMovesOne ==
  ASSUME TypeOK, MetricInv, NEW g \in Goroutine, CountProduced(g)
  PROVE  /\ \A e \in Event : counted'[e] + AboutToCount(e)' = counted[e] + AboutToCount(e)
         /\ \A e \in Event : IsFiniteSet(Counting(e)')
         /\ EventsFit' /\ UNCHANGED <<crashes, producerVars>>
<1>0. PICK event \in Event : task[g].event = event
  BY BusyTask DEF CountProduced
<1>1. /\ task[g].at = "count" /\ task[g].event = event /\ task'[g].at = "idle"
      /\ \A h \in Goroutine : h # g => task'[h] = task[h]
  BY <1>0 DEF CountProduced, TypeOK, Idle
<1>2. /\ counted' = [counted EXCEPT ![event] = @ + 1]
      /\ counted \in [Event -> Nat]
      /\ UNCHANGED <<crashes, producerVars>>
  BY <1>0 DEF CountProduced, TypeOK
<1>3. /\ Counting(event)' = Counting(event) \ {g} /\ g \in Counting(event)
      /\ \A e \in Event : e # event => Counting(e)' = Counting(e)
  BY <1>1 DEF Counting
<1>4. /\ IsFiniteSet(Counting(event)')
      /\ Cardinality(Counting(event)') = Cardinality(Counting(event)) - 1
  BY <1>1, <1>3, MetricSums, FS_RemoveElement
<1>5. \A e : AboutToCount(e)' = Cardinality(Counting(e)')
  BY DEF AboutToCount, Counting
<1>6. ASSUME NEW e \in Event
      PROVE  counted'[e] + AboutToCount(e)' = counted[e] + AboutToCount(e)
  <2>1. /\ AboutToCount(e) = Cardinality(Counting(e))
        /\ counted[e] \in Nat /\ AboutToCount(e) \in Nat
    BY MetricSums
  <2>2. CASE e # event
    BY <1>2, <1>3, <1>5, <2>1, <2>2
  <2>3. CASE e = event
    BY <1>2, <1>4, <1>5, <2>1, <2>3
  <2> QED BY <2>2, <2>3
<1>7. EventsFit'
  BY <1>1 DEF MetricInv, EventsFit, Producing, EventOf
<1>8. \A e \in Event : IsFiniteSet(Counting(e)')
  BY <1>3, <1>4, MetricSums
<1> QED BY <1>2, <1>6, <1>7, <1>8

LEMMA CountKeepsMetric ==
  ASSUME TypeOK, MetricInv, NEW g \in Goroutine, CountProduced(g)
  PROVE  MetricInv'
<1>1. /\ \A e \in Event : counted'[e] + AboutToCount(e)' = counted[e] + AboutToCount(e)
      /\ \A e \in Event : IsFiniteSet(Counting(e)')
      /\ EventsFit' /\ UNCHANGED <<crashes, producerVars>>
  BY CountMovesOne
<1>2. EverProduced' = EverProduced /\ \A e : Handed(e)' = Handed(e)
  <2>1. EverProduced' = EverProduced
    BY <1>1, EverProducedKept DEF TypeOK, RecordsIn
  <2> QED BY <2>1 DEF Handed, EventOf
<1>3. MetricCountsProduceCalls'
  <2> SUFFICES ASSUME NEW e \in Event
               PROVE  /\ counted'[e] + AboutToCount(e)' <= Cardinality(Handed(e)')
                      /\ crashes' = 0 => counted'[e] + AboutToCount(e)'
                                           = Cardinality(Handed(e)')
    BY DEF MetricCountsProduceCalls, AboutToCount, Handed, EventOf
  <2> QED BY <1>1, <1>2 DEF MetricInv, MetricCountsProduceCalls
<1> QED BY <1>1, <1>2, <1>3 DEF MetricInv

(* A crash forgets the metric and whoever was about to move it, not what   *)
(* has been handed over.                                                   *)
LEMMA CrashKeepsMetric ==
  ASSUME TypeOK, MetricInv, Crash
  PROVE  MetricInv'
<1>1. EverProduced' = EverProduced /\ \A e : Handed(e)' = Handed(e)
  <2>1. EverProduced' = EverProduced
    BY EverProducedKept DEF TypeOK, RecordsIn, Crash
  <2> QED BY <2>1 DEF Handed, EventOf
<1>2. /\ \A g \in Goroutine : task'[g].at = "idle"
      /\ \A e \in Event : counted'[e] = 0
      /\ crashes' # 0
  BY DEF Crash, Idle, TypeOK
<1>3. \A e : Counting(e)' = {}
  BY <1>2 DEF Counting
<1>4. IsFiniteSet({}) /\ Cardinality({}) = 0
  BY FS_EmptySet
<1>5. MetricCountsProduceCalls'
  <2>1. \A e \in Event : AboutToCount(e)' = 0
    BY <1>3, <1>4 DEF AboutToCount, Counting
  <2>2. \A e \in Event : Cardinality(Handed(e)') \in Nat
    BY <1>1, MetricSums
  <2> QED BY <1>2, <2>1, <2>2 DEF MetricCountsProduceCalls
<1>6. EventsFit'
  BY <1>2 DEF EventsFit, Producing
<1> QED BY <1>1, <1>3, <1>4, <1>5, <1>6 DEF MetricInv

LEMMA NextMetric == TypeOK /\ SoleClaimant /\ MetricInv /\ [Next]_vars => MetricInv'
<1> SUFFICES ASSUME TypeOK, SoleClaimant, MetricInv, [Next]_vars PROVE MetricInv'
  OBVIOUS
<1>1. ASSUME NEW g \in Goroutine, CreateCustomer(g) PROVE MetricInv'
  <2>1. PICK id \in Customer :
          task' = [task EXCEPT ![g] = ProduceNext("CUSTOMER_CREATED", id, 0)]
    BY <1>1 DEF CreateCustomer
  <2>2. EventOf([key |-> id, value |-> 0]) = "CUSTOMER_CREATED"
    BY DEF EventOf
  <2> QED BY <1>1, <2>1, <2>2, ImpressionKeepsMetric DEF CreateCustomer, Event
<1>2. ASSUME NEW g \in Goroutine, ModifyCustomer(g) PROVE MetricInv'
  <2> DEFINE id == Head(recentCustomers).id
  <2>1. PopCustomer /\ task[g] = Idle /\ UNCHANGED <<counted, crashes, producerVars>>
        /\ task' = [task EXCEPT ![g] = ProduceNext("CUSTOMER_MODIFIED", id,
                                          Head(recentCustomers).revision + 1)]
    BY <1>2 DEF ModifyCustomer
  <2>2. id \in Customer /\ Head(recentCustomers).revision + 1 = 1
    BY <2>1, PopType, PoppedIsUnmodified
  <2>3. EventOf([key |-> id, value |-> 1]) = "CUSTOMER_MODIFIED"
    BY DEF EventOf
  <2> QED BY <2>1, <2>2, <2>3, ImpressionKeepsMetric DEF Event
<1>3. ASSUME NEW g \in Goroutine, DeleteCustomer(g) PROVE MetricInv'
  <2> DEFINE id == Head(recentCustomers).id
  <2>1. PopCustomer /\ task[g] = Idle /\ UNCHANGED <<counted, crashes, producerVars>>
        /\ task' = [task EXCEPT ![g] = ProduceNext("CUSTOMER_DELETED", id, Nil)]
    BY <1>3 DEF DeleteCustomer
  <2>2. id \in Customer
    BY <2>1, PopType
  <2>3. EventOf([key |-> id, value |-> Nil]) = "CUSTOMER_DELETED"
    BY DEF EventOf
  <2> QED BY <2>1, <2>2, <2>3, ImpressionKeepsMetric DEF Event
<1>4. ASSUME EverProduced' = EverProduced, UNCHANGED <<task, counted, crashes>>
      PROVE  MetricInv'
  <2>1. EventsFit' /\ \A e \in Event : Counting(e)' = Counting(e)
    BY <1>4 DEF MetricInv, EventsFit, Counting, Producing, EventOf
  <2> QED BY <1>4, <2>1, MetricUnmoved
<1>5. ASSUME NEW p \in Partition, Client(p) PROVE MetricInv'
  <2>1. EverProduced' = EverProduced
    BY <1>5, EverProducedKept DEF Client, TypeOK, RecordsIn
  <2> QED BY <1>4, <1>5, <2>1 DEF Client, serviceVars
<1>6. CASE UNCHANGED vars
  <2>1. EverProduced' = EverProduced
    BY <1>6, EverProducedKept DEF vars, TypeOK, RecordsIn
  <2> QED BY <1>4, <1>6, <2>1 DEF vars, serviceVars
<1> QED BY <1>1, <1>2, <1>3, <1>5, <1>6,
           ProduceKeepsMetric, CountKeepsMetric, CrashKeepsMetric
        DEF Next, Impression, Continue, NothingToPop

(* Every call of Produce is counted exactly once, under its own event, by  *)
(* whichever goroutine made it and whatever becomes of the record; only a  *)
(* restart makes the metric forget (customer_service.go:108, 130, 150).    *)
THEOREM MetricIsExact == Spec => []MetricCountsProduceCalls
<1>1. MetricInv => MetricCountsProduceCalls
  BY DEF MetricInv
<1> QED BY <1>1, InitTypeOK, NextTypeOK, InitSoleClaimant, NextSoleClaimant,
           InitMetric, NextMetric, PTL DEF Spec

-----------------------------------------------------------------------------
(* Refinement of the abstract topic.                                       *)

(* The record at the head of a lane lies behind the log in its pipe, so it *)
(* makes a claim no record of the log makes: its delivery is a Publish.    *)
LEMMA DeliverPublishes ==
  ASSUME TypeOK, SoleClaimant, NEW p \in Partition, Deliver(p)
  PROVE  Topic!Next
<1> DEFINE rec == Head(buffered[p])
<1>1. /\ buffered[p] \in Seq(Record) /\ buffered[p] # <<>>
      /\ log' = [log EXCEPT ![p] = Append(@, rec)]
  BY DEF TypeOK, Deliver
<1>2. rec \in Range(buffered[p]) /\ rec \in Record
  <2>1. rec = buffered[p][1] /\ 1 \in DOMAIN buffered[p] /\ rec \in Record
    BY <1>1, HeadTailProperties, LenProperties, EmptySeq
  <2> QED BY <2>1 DEF Range
<1> HIDE DEF rec
<1>3. /\ DOMAIN log[p] \subseteq DOMAIN Pipe(p)
      /\ \A i \in DOMAIN log[p] : Pipe(p)[i] = log[p][i]
      /\ \E i \in DOMAIN Pipe(p) \ DOMAIN log[p] : Pipe(p)[i] = rec
  BY <1>2, PipeShape DEF TypeOK, RecordsIn
<1>4. PICK n \in DOMAIN Pipe(p) \ DOMAIN log[p] : Pipe(p)[n] = rec
  BY <1>3
<1>5. PartitionOf[rec.key] = p /\ rec.value \in {0, 1, Nil}
  BY <1>4 DEF SoleClaimant, RecordsWellFormed
<1>6. rec \in Topic!Record
  BY <1>2, <1>5 DEF Record, Topic!Record
<1>7. \A i \in DOMAIN log[p] : ~ SameClaim(log[p][i], rec)
  BY <1>3, <1>4 DEF SoleClaimant, AtMostOneChange
<1>8. \A i \in DOMAIN log[p] : ~ Topic!SameClaim(log[p][i], rec)
  BY <1>7 DEF SameClaim, IsChange, Topic!SameClaim, Topic!IsChange
<1>9. Topic!Publish(rec)
  BY <1>1, <1>5, <1>8 DEF Topic!Publish
<1> QED BY <1>6, <1>9 DEF Topic!Next

LEMMA NextRefinesTopic ==
  TypeOK /\ SoleClaimant /\ [Next]_vars => [Topic!Next]_log
<1> SUFFICES ASSUME TypeOK, SoleClaimant, [Next]_vars
             PROVE  Topic!Next \/ UNCHANGED log
  OBVIOUS
<1>1. ASSUME NEW p \in Partition, Client(p)
      PROVE  Topic!Next \/ UNCHANGED log
  BY <1>1, DeliverPublishes DEF Client, ExpireBuffered
<1>2. ASSUME NEW g \in Goroutine, Impression(g) \/ Continue(g)
      PROVE  UNCHANGED log
  BY <1>2 DEF Impression, Continue, CreateCustomer, ModifyCustomer,
              DeleteCustomer, NothingToPop, ProduceRecord, CountProduced,
              Produce, vars, producerVars
<1>3. CASE Crash
  BY <1>3 DEF Crash, LoseBuffered
<1>4. CASE UNCHANGED vars
  BY <1>4 DEF vars, producerVars
<1> QED BY <1>1, <1>2, <1>3, <1>4 DEF Next

(* The customer service, with its cache, its goroutines, its lossy client  *)
(* and its crashes, writes nothing but what the abstract topic allows.     *)
THEOREM ImplementsTopic == Spec => TopicSpec
<1>1. Init => Topic!Init
  BY DEF Init, ProducerInit, Topic!Init
<1> QED BY <1>1, NextRefinesTopic, InitTypeOK, NextTypeOK, InitSoleClaimant,
           NextSoleClaimant, PTL
        DEF Spec, TopicSpec, Topic!Spec

-----------------------------------------------------------------------------
(* The order of a registration and a change of the same customer.  The     *)
(* code keeps it neither against a second impression nor against a failed  *)
(* delivery, as the run customer_order shows.  There is no third cause.    *)

OneAtATime == \A g, h \in Goroutine : g = h

Registration(id) == [key |-> id, value |-> 0]

(* Who has been registered, and whose registration is about to be produced. *)
Published ==
  {id \in Customer :
     \E i \in DOMAIN Pipe(PartitionOf[id]) : Pipe(PartitionOf[id])[i] = Registration(id)}

BeingRegistered ==
  {id \in Customer :
     \E g \in Goroutine : Producing(g) /\ task[g].rec = Registration(id)}

(* In every pipe, not only in the log, a change comes after its            *)
(* registration; who may be changed has been registered or is just about   *)
(* to be; and a change is only taken up behind the registration.           *)
PipesInOrder ==
  \A p \in Partition : \A i \in DOMAIN Pipe(p) :
    IsChange(Pipe(p)[i]) =>
      \E j \in 1..(i - 1) : Pipe(p)[j] = Registration(Pipe(p)[i].key)

SliceInOrder ==
  \A i \in DOMAIN recentCustomers :
    recentCustomers[i].id \in Published \cup BeingRegistered

TasksInOrder ==
  \A g \in Goroutine :
    Producing(g) /\ IsChange(task[g].rec) => task[g].rec.key \in Published

OrderInv == PipesInOrder /\ SliceInOrder /\ TasksInOrder

LEMMA InitOrder == Init => OrderInv
  BY DEF Init, ProducerInit, OrderInv, PipesInOrder, SliceInOrder, TasksInOrder,
         Pipe, Producing, Idle

LEMMA OrderFollows == TypeOK /\ OrderInv => ChangesFollowRegistration
<1> SUFFICES ASSUME TypeOK, OrderInv, NEW p \in Partition, NEW i \in DOMAIN log[p],
                    IsChange(log[p][i])
             PROVE  \E j \in 1..(i - 1) :
                      log[p][j] = [key |-> log[p][i].key, value |-> 0]
  BY DEF ChangesFollowRegistration
<1>1. /\ log[p] \in Seq(Record) /\ Len(log[p]) \in Nat
      /\ DOMAIN log[p] = 1..Len(log[p])
      /\ DOMAIN log[p] \subseteq DOMAIN Pipe(p)
      /\ \A k \in DOMAIN log[p] : Pipe(p)[k] = log[p][k]
  BY PipeShape, LenProperties DEF TypeOK, RecordsIn
<1>2. PICK j \in 1..(i - 1) : Pipe(p)[j] = Registration(Pipe(p)[i].key)
  BY <1>1 DEF OrderInv, PipesInOrder, IsChange
<1>3. j \in DOMAIN log[p]
  BY <1>1
<1> QED BY <1>1, <1>2, <1>3 DEF Registration

(* As long as nothing is handed over and nothing is cut off.               *)
LEMMA PublishedKept ==
  ASSUME \A p \in Partition : Pipe(p)' = Pipe(p)
  PROVE  Published' = Published /\ (PipesInOrder => PipesInOrder')
<1>1. \A id \in Customer : PartitionOf[id] \in Partition
  OBVIOUS
<1> QED BY <1>1 DEF Published, Registration, PipesInOrder, IsChange

(* A new customer in the slice is one whose registration is about to be    *)
(* produced.                                                               *)
LEMMA CreateKeepsOrder ==
  ASSUME TypeOK, OrderInv, NEW g \in Goroutine, CreateCustomer(g)
  PROVE  OrderInv'
<1>1. PICK id \in Customer :
        /\ Remember(id)
        /\ task' = [task EXCEPT ![g] = ProduceNext("CUSTOMER_CREATED", id, 0)]
  BY DEF CreateCustomer
<1>2. Published' = Published /\ PipesInOrder'
  BY PublishedKept, PipesUnchanged DEF CreateCustomer, OrderInv
<1>3. /\ task[g].at # "produce" /\ task'[g].at = "produce"
      /\ task'[g].rec = Registration(id)
      /\ \A h \in Goroutine : h # g => task'[h] = task[h]
  BY <1>1 DEF CreateCustomer, ProduceNext, Idle, TypeOK, Registration
<1>4. BeingRegistered' = BeingRegistered \cup {id}
  BY <1>3 DEF BeingRegistered, Producing, Registration
<1>5. \A i \in DOMAIN recentCustomers' :
        \/ i \in DOMAIN recentCustomers /\ recentCustomers'[i] = recentCustomers[i]
        \/ recentCustomers'[i].id = id
  BY <1>1, AppendProperties, LenProperties DEF Remember, TypeOK
<1>6. SliceInOrder'
  BY <1>2, <1>4, <1>5 DEF OrderInv, SliceInOrder
<1>7. TasksInOrder'
  BY <1>2, <1>3 DEF OrderInv, TasksInOrder, Producing, IsChange, Registration
<1> QED BY <1>2, <1>6, <1>7 DEF OrderInv

(* With nobody else under way, whoever is popped has been registered.      *)
LEMMA PopKeepsOrder ==
  ASSUME OneAtATime, TypeOK, OrderInv, NEW g \in Goroutine, task[g] = Idle,
         PopCustomer, NEW event, NEW value,
         task' = [task EXCEPT
                    ![g] = ProduceNext(event, Head(recentCustomers).id, value)],
         UNCHANGED producerVars
  PROVE  OrderInv'
<1>1. Published' = Published /\ PipesInOrder'
  BY PublishedKept, PipesUnchanged DEF OrderInv
<1>2. BeingRegistered = {}
  BY DEF BeingRegistered, Producing, Idle, OneAtATime
<1>3. /\ recentCustomers \in Seq(CachedCustomer) /\ recentCustomers # <<>>
      /\ recentCustomers' = Tail(recentCustomers)
  BY DEF TypeOK, PopCustomer
<1>4. /\ Head(recentCustomers).id \in Published
      /\ \A i \in DOMAIN recentCustomers' : recentCustomers'[i].id \in Published
  BY <1>2, <1>3, TailShape DEF OrderInv, SliceInOrder
<1>5. task'[g].rec.key = Head(recentCustomers).id
  BY DEF TypeOK, ProduceNext
<1>6. TasksInOrder'
  BY <1>1, <1>4, <1>5 DEF OneAtATime, TasksInOrder
<1> QED BY <1>1, <1>4, <1>6 DEF OrderInv, SliceInOrder

(* A record is appended to its pipe: a registration opens the way for the  *)
(* changes behind it, a change has its registration in the same pipe.      *)
LEMMA ProduceKeepsOrder ==
  ASSUME OneAtATime, TypeOK, OrderInv, NEW g \in Goroutine, ProduceRecord(g)
  PROVE  OrderInv'
<1>1. PICK rec \in Record : task[g].rec = rec
  BY BusyTask DEF ProduceRecord
<1>2. PICK home \in Partition : home = PartitionOf[rec.key]
  BY <1>1, BusyTask DEF ProduceRecord
<1>3. RecordsIn(Record) /\ Produce(home, rec) /\ Producing(g)
  BY <1>1, <1>2 DEF RecordsIn, TypeOK, ProduceRecord, Producing
<1>4. \A q \in Partition :
        /\ Pipe(q) \in Seq(Record)
        /\ Pipe(q)' = IF q = home THEN Append(Pipe(q), rec) ELSE Pipe(q)
  BY <1>3, PipeProduce, PipeShape
<1>5. \A q \in Partition :
        /\ Len(Pipe(q)) \in Nat /\ DOMAIN Pipe(q) = 1..Len(Pipe(q))
        /\ DOMAIN Pipe(q) \subseteq DOMAIN Pipe(q)'
        /\ \A i \in DOMAIN Pipe(q) : Pipe(q)'[i] = Pipe(q)[i]
        /\ \A i \in DOMAIN Pipe(q)' \ DOMAIN Pipe(q) :
             q = home /\ i = Len(Pipe(q)) + 1 /\ Pipe(q)'[i] = rec
        /\ q = home => \E i \in DOMAIN Pipe(q)' : Pipe(q)'[i] = rec
  <2> SUFFICES ASSUME NEW q \in Partition
               PROVE
        /\ Len(Pipe(q)) \in Nat /\ DOMAIN Pipe(q) = 1..Len(Pipe(q))
        /\ DOMAIN Pipe(q) \subseteq DOMAIN Pipe(q)'
        /\ \A i \in DOMAIN Pipe(q) : Pipe(q)'[i] = Pipe(q)[i]
        /\ \A i \in DOMAIN Pipe(q)' \ DOMAIN Pipe(q) :
             q = home /\ i = Len(Pipe(q)) + 1 /\ Pipe(q)'[i] = rec
        /\ q = home => \E i \in DOMAIN Pipe(q)' : Pipe(q)'[i] = rec
    OBVIOUS
  <2> DEFINE s == Pipe(q)
  <2>1. /\ s \in Seq(Record)
        /\ Pipe(q)' = IF q = home THEN Append(s, rec) ELSE s
    BY <1>4
  <2> HIDE DEF s
  <2>2. /\ Len(s) \in Nat /\ DOMAIN s = 1..Len(s)
        /\ DOMAIN Append(s, rec) = 1..(Len(s) + 1)
        /\ \A i \in 1..Len(s) : Append(s, rec)[i] = s[i]
        /\ Append(s, rec)[Len(s) + 1] = rec
    BY <2>1, AppendShape
  <2> QED BY <2>1, <2>2 DEF s
<1>6. /\ Published \subseteq Published'
      /\ \A id \in Customer : rec = Registration(id) => id \in Published'
  <2>1. \A id \in Customer : PartitionOf[id] \in Partition
    OBVIOUS
  <2>2. Published \subseteq Published'
    BY <1>5, <2>1 DEF Published, Registration
  <2>3. ASSUME NEW id \in Customer, rec = Registration(id)
        PROVE  id \in Published'
    <3>1. home = PartitionOf[id]
      BY <1>2, <2>3 DEF Registration
    <3> QED BY <1>5, <2>3, <3>1 DEF Published, Registration
  <2> QED BY <2>2, <2>3
<1>7. PipesInOrder'
  <2> SUFFICES ASSUME NEW p \in Partition, NEW i \in DOMAIN Pipe(p)',
                      IsChange(Pipe(p)'[i])
               PROVE  \E j \in 1..(i - 1) :
                        Pipe(p)'[j] = Registration(Pipe(p)'[i].key)
    BY DEF PipesInOrder, IsChange, Registration
  <2>1. CASE i \in DOMAIN Pipe(p)
    <3>1. PICK j \in 1..(i - 1) : Pipe(p)[j] = Registration(Pipe(p)[i].key)
      BY <1>5, <2>1 DEF OrderInv, PipesInOrder, IsChange
    <3>2. j \in DOMAIN Pipe(p)
      BY <1>5, <2>1, <3>1
    <3> QED BY <1>5, <2>1, <3>1, <3>2
  <2>2. CASE i \notin DOMAIN Pipe(p)
    <3>1. p = home /\ i = Len(Pipe(p)) + 1 /\ Pipe(p)'[i] = rec
      BY <1>5, <2>2
    <3>2. rec.key \in Published
      BY <1>1, <1>3, <3>1 DEF OrderInv, TasksInOrder, IsChange
    <3>3. PICK j \in DOMAIN Pipe(p) : Pipe(p)[j] = Registration(rec.key)
      BY <1>2, <3>1, <3>2 DEF Published
    <3>4. j \in 1..(i - 1)
      BY <1>5, <3>1, <3>3
    <3> QED BY <1>5, <3>1, <3>3, <3>4
  <2> QED BY <2>1, <2>2
<1>8. SliceInOrder'
  <2>1. \A id \in BeingRegistered : id \in Published'
    BY <1>1, <1>6 DEF BeingRegistered, OneAtATime
  <2> QED BY <1>6, <2>1 DEF ProduceRecord, OrderInv, SliceInOrder
<1>9. TasksInOrder'
  BY <1>6 DEF ProduceRecord, TypeOK, OrderInv, TasksInOrder, Producing, IsChange
<1> QED BY <1>7, <1>8, <1>9 DEF OrderInv

(* A crash cuts pipes at their end, which parts no change from the         *)
(* registration before it, and empties the slice.                          *)
LEMMA CrashKeepsOrder ==
  ASSUME TypeOK, OrderInv, Crash
  PROVE  OrderInv'
<1>1. RecordsIn(Record) /\ LoseBuffered /\ lost \in SUBSET Record
  BY DEF TypeOK, RecordsIn, Crash
<1>2. \A q \in Partition :
        /\ DOMAIN Pipe(q)' \subseteq DOMAIN Pipe(q)
        /\ \A i \in DOMAIN Pipe(q)' : Pipe(q)'[i] = Pipe(q)[i]
  BY <1>1, PipeCut
<1>3. \A q \in Partition : Len(Pipe(q)') \in Nat /\ DOMAIN Pipe(q)' = 1..Len(Pipe(q)')
  <2> SUFFICES ASSUME NEW q \in Partition
               PROVE  Len(Pipe(q)') \in Nat /\ DOMAIN Pipe(q)' = 1..Len(Pipe(q)')
    OBVIOUS
  <2>1. log'[q] \in Seq(Record) /\ buffered'[q] \in Seq(Record)
    <3>1. RecordsIn(Record)'
      BY <1>1, PipeCut
    <3> QED BY <3>1 DEF RecordsIn
  <2>2. log'[q] \o buffered'[q] \in Seq(Record)
    BY <2>1, ConcatProperties
  <2> QED BY <2>2, LenProperties DEF Pipe
<1>4. PipesInOrder'
  <2> SUFFICES ASSUME NEW p \in Partition, NEW i \in DOMAIN Pipe(p)',
                      IsChange(Pipe(p)'[i])
               PROVE  \E j \in 1..(i - 1) :
                        Pipe(p)'[j] = Registration(Pipe(p)'[i].key)
    BY DEF PipesInOrder, IsChange, Registration
  <2>1. PICK j \in 1..(i - 1) : Pipe(p)[j] = Registration(Pipe(p)[i].key)
    BY <1>2 DEF OrderInv, PipesInOrder, IsChange
  <2>2. j \in DOMAIN Pipe(p)'
    BY <1>3
  <2> QED BY <1>2, <2>1, <2>2
<1>5. SliceInOrder' /\ TasksInOrder'
  BY DEF Crash, SliceInOrder, TasksInOrder, Producing, Idle
<1> QED BY <1>4, <1>5 DEF OrderInv

LEMMA ReliableNextIsNext == [ReliableNext]_vars => [Next]_vars
  BY DEF ReliableNext, Next, Client

LEMMA NextOrder ==
  ASSUME OneAtATime
  PROVE  TypeOK /\ OrderInv /\ [ReliableNext]_vars => OrderInv'
<1> SUFFICES ASSUME TypeOK, OrderInv, [ReliableNext]_vars PROVE OrderInv'
  OBVIOUS
<1>1. ASSUME \A p \in Partition : Pipe(p)' = Pipe(p),
             recentCustomers' = recentCustomers,
             \A g \in Goroutine :
               /\ Producing(g)' <=> Producing(g)
               /\ Producing(g) => task'[g] = task[g]
      PROVE  OrderInv'
  <2>1. BeingRegistered' = BeingRegistered
    BY <1>1 DEF BeingRegistered, Registration
  <2> QED BY <1>1, <2>1, PublishedKept
          DEF OrderInv, SliceInOrder, TasksInOrder, IsChange
<1>2. ASSUME NEW g \in Goroutine, CountProduced(g) PROVE OrderInv'
  <2>1. \A h \in Goroutine :
          /\ Producing(h)' <=> Producing(h)
          /\ Producing(h) => task'[h] = task[h]
    BY <1>2 DEF CountProduced, TypeOK, Producing, Idle
  <2> QED BY <1>1, <1>2, <2>1, PipesUnchanged DEF CountProduced
<1>3. ASSUME NEW p \in Partition, Deliver(p), UNCHANGED serviceVars PROVE OrderInv'
  <2>1. \A q \in Partition : Pipe(q)' = Pipe(q)
    BY <1>3, PipeDeliver DEF TypeOK, RecordsIn
  <2> QED BY <1>1, <1>3, <2>1 DEF serviceVars, Producing
<1>4. CASE UNCHANGED vars
  BY <1>1, <1>4, PipesUnchanged DEF vars, serviceVars, Producing
<1>5. ASSUME NEW g \in Goroutine, ModifyCustomer(g) \/ DeleteCustomer(g)
      PROVE  OrderInv'
  BY <1>5, PopKeepsOrder DEF ModifyCustomer, DeleteCustomer
<1> QED BY <1>2, <1>3, <1>4, <1>5, CreateKeepsOrder, ProduceKeepsOrder, CrashKeepsOrder
        DEF ReliableNext, Impression, Continue, NothingToPop

(* Where impressions do not overlap and the broker acknowledges in time,   *)
(* the comment of customer_service.go:22-24 is right, over any number of   *)
(* crashes, which lose a registration only together with what comes after  *)
(* it: a change in the topic has its customer's registration before it.    *)
THEOREM OrderWithoutOverlap ==
  ASSUME OneAtATime
  PROVE  ReliableSpec => []ChangesFollowRegistration
<1>1. TypeOK /\ OrderInv /\ [ReliableNext]_vars => TypeOK' /\ OrderInv'
  BY ReliableNextIsNext, NextTypeOK, NextOrder
<1>2. Init => TypeOK /\ OrderInv
  BY InitTypeOK, InitOrder
<1> QED BY <1>1, <1>2, OrderFollows, PTL DEF ReliableSpec

-----------------------------------------------------------------------------
(* The metric on a broker that acknowledges every record in time.  Nothing *)
(* else takes a counted record away: a crash loses records together with   *)
(* the counter.                                                            *)

CountsArriving ==
  \A e \in Event : counted[e] + AboutToCount(e) <= Cardinality(Arriving(e))

LEMMA ArrivingShape ==
  ASSUME TypeOK, MetricInv, NEW e \in Event
  PROVE  /\ Arriving(e) = {r \in Piped : EventOf(r) = e}
         /\ Arriving(e)' = {r \in Piped' : EventOf(r) = e}
         /\ Piped \subseteq EverProduced
         /\ IsFiniteSet(Arriving(e)) /\ Cardinality(Arriving(e)) \in Nat
<1>1. Arriving(e) = {r \in Piped : EventOf(r) = e}
  BY DEF Arriving, Piped
<1>2. Arriving(e)' = {r \in Piped' : EventOf(r) = e}
  BY DEF Arriving, Piped, EventOf
<1>3. Piped \subseteq EverProduced
  BY DEF Piped, EverProduced
<1>4. IsFiniteSet(Arriving(e))
  BY <1>1, <1>3, FS_Subset DEF MetricInv
<1> QED BY <1>1, <1>2, <1>3, <1>4, FS_CardinalityType

LEMMA NextCountsArriving ==
  TypeOK /\ SoleClaimant /\ MetricInv /\ CountsArriving /\ [ReliableNext]_vars
    => CountsArriving'
<1> SUFFICES ASSUME TypeOK, SoleClaimant, MetricInv, CountsArriving, [ReliableNext]_vars
             PROVE  CountsArriving'
  OBVIOUS
<1>1. ASSUME Piped' = Piped,
             \A e \in Event : counted'[e] + AboutToCount(e)' = counted[e] + AboutToCount(e)
      PROVE  CountsArriving'
  <2> SUFFICES ASSUME NEW e \in Event
               PROVE  counted'[e] + AboutToCount(e)' <= Cardinality(Arriving(e)')
    BY DEF CountsArriving, AboutToCount, Arriving, EventOf
  <2>1. Arriving(e)' = Arriving(e)
    BY <1>1, ArrivingShape
  <2> QED BY <1>1, <2>1 DEF CountsArriving
<1>2. ASSUME Piped' = Piped, counted' = counted,
             \A e \in Event : Counting(e)' = Counting(e)
      PROVE  CountsArriving'
  <2>1. \A e \in Event : AboutToCount(e)' = AboutToCount(e)
    BY <1>2 DEF AboutToCount, Counting
  <2> QED BY <1>1, <1>2, <2>1
<1>3. ASSUME UNCHANGED producerVars PROVE Piped' = Piped
  BY <1>3, PipesUnchanged DEF Piped
<1>4. ASSUME NEW g \in Goroutine, Impression(g) PROVE CountsArriving'
  <2>1. UNCHANGED <<task, counted, producerVars>>
        \/ /\ task[g] = Idle /\ UNCHANGED <<counted, producerVars>>
           /\ \E event, id, value :
                task' = [task EXCEPT ![g] = ProduceNext(event, id, value)]
    <3>1. CASE CreateCustomer(g)
      BY <3>1 DEF CreateCustomer
    <3>2. CASE ModifyCustomer(g)
      BY <3>2 DEF ModifyCustomer
    <3>3. CASE DeleteCustomer(g)
      BY <3>3 DEF DeleteCustomer
    <3>4. CASE NothingToPop(g)
      BY <3>4 DEF NothingToPop, vars, serviceVars
    <3> QED BY <1>4, <3>1, <3>2, <3>3, <3>4 DEF Impression
  <2>2. \A e \in Event : Counting(e)' = Counting(e)
    <3>1. CASE UNCHANGED task
      BY <3>1 DEF Counting
    <3>2. ASSUME task[g] = Idle, NEW event, NEW id, NEW value,
                 task' = [task EXCEPT ![g] = ProduceNext(event, id, value)]
          PROVE  \A e \in Event : Counting(e)' = Counting(e)
      <4>1. task[g].at # "count" /\ task'[g].at # "count"
        BY <3>2 DEF Idle, ProduceNext, TypeOK
      <4>2. \A h \in Goroutine : h # g => task'[h] = task[h]
        BY <3>2 DEF TypeOK
      <4> QED BY <4>1, <4>2 DEF Counting
    <3> QED BY <2>1, <3>1, <3>2
  <2> QED BY <1>2, <1>3, <2>1, <2>2
<1>5. ASSUME NEW g \in Goroutine, ProduceRecord(g) PROVE CountsArriving'
  <2>1. PICK rec \in Record, event \in Event :
          /\ EventOf(rec) = event /\ PartitionOf[rec.key] \in Partition
          /\ Produce(PartitionOf[rec.key], rec) /\ rec \notin EverProduced
          /\ Counting(event)' = Counting(event) \cup {g} /\ g \notin Counting(event)
          /\ \A e \in Event : e # event => Counting(e)' = Counting(e)
          /\ EventsFit' /\ UNCHANGED <<counted, crashes>>
    BY <1>5, ProduceHandsOver
  <2>2. Piped' = Piped \cup {rec}
    BY <2>1, PipedProduce DEF TypeOK, RecordsIn
  <2>3. \A e \in Event : AboutToCount(e)' =
          IF e = event THEN AboutToCount(e) + 1 ELSE AboutToCount(e)
    BY <2>1, OneMoreCounts
  <2> SUFFICES ASSUME NEW e \in Event
               PROVE  counted'[e] + AboutToCount(e)' <= Cardinality(Arriving(e)')
    BY DEF CountsArriving, AboutToCount, Arriving, EventOf
  <2>4. /\ counted[e] + AboutToCount(e) <= Cardinality(Arriving(e))
        /\ counted[e] \in Nat /\ AboutToCount(e) \in Nat
        /\ counted'[e] = counted[e]
        /\ IsFiniteSet(Arriving(e)) /\ Cardinality(Arriving(e)) \in Nat
    BY <2>1, MetricSums, ArrivingShape DEF CountsArriving
  <2>5. CASE e # event
    <3>1. Arriving(e)' = Arriving(e)
      <4>1. EventOf(rec) # e
        BY <2>1, <2>5
      <4>2. /\ Arriving(e) = {r \in Piped : EventOf(r) = e}
            /\ Arriving(e)' = {r \in Piped' : EventOf(r) = e}
        BY ArrivingShape
      <4> QED BY ONLY <2>2, <4>1, <4>2
    <3> QED BY <2>3, <2>4, <2>5, <3>1
  <2>6. CASE e = event
    <3>1. Arriving(e)' = Arriving(e) \cup {rec} /\ rec \notin Arriving(e)
      BY <2>1, <2>2, <2>6, ArrivingShape
    <3>2. Cardinality(Arriving(e) \cup {rec}) = Cardinality(Arriving(e)) + 1
      BY ONLY <2>4, <3>1, FS_AddElement
    <3> QED BY <2>3, <2>4, <2>6, <3>1, <3>2
  <2> QED BY <2>5, <2>6
<1>6. ASSUME NEW g \in Goroutine, CountProduced(g) PROVE CountsArriving'
  BY <1>1, <1>3, <1>6, CountMovesOne
<1>7. ASSUME NEW p \in Partition, Deliver(p), UNCHANGED serviceVars PROVE CountsArriving'
  <2>1. \A q \in Partition : Pipe(q)' = Pipe(q)
    BY <1>7, PipeDeliver DEF TypeOK, RecordsIn
  <2>2. Piped' = Piped
    BY <2>1 DEF Piped
  <2>3. counted' = counted /\ \A e \in Event : Counting(e)' = Counting(e)
    BY <1>7 DEF serviceVars, Counting
  <2> QED BY <1>2, <2>2, <2>3
<1>8. CASE Crash
  <2>1. MetricInv' /\ TypeOK'
    BY <1>8, CrashKeepsMetric, NextTypeOK DEF Next
  <2> SUFFICES ASSUME NEW e \in Event
               PROVE  counted'[e] + AboutToCount(e)' <= Cardinality(Arriving(e)')
    BY DEF CountsArriving, AboutToCount, Arriving, EventOf
  <2>2. counted'[e] = 0 /\ \A g \in Goroutine : task'[g].at = "idle"
    BY <1>8 DEF Crash, Idle
  <2>3. AboutToCount(e)' = 0
    <3>1. Counting(e)' = {}
      BY <2>2 DEF Counting
    <3> QED BY <3>1, FS_EmptySet DEF AboutToCount, Counting
  <2>4. Cardinality(Arriving(e)') \in Nat
    <3>1. Arriving(e)' \subseteq EverProduced'
      BY DEF Arriving, EverProduced, EventOf
    <3>2. IsFiniteSet(EverProduced')
      BY <2>1 DEF MetricInv
    <3> QED BY <3>1, <3>2, FS_Subset, FS_CardinalityType
  <2> QED BY <2>2, <2>3, <2>4
<1>9. CASE UNCHANGED vars
  <2>1. counted' = counted /\ \A e \in Event : Counting(e)' = Counting(e)
    BY <1>9 DEF vars, serviceVars, Counting
  <2> QED BY <1>2, <1>3, <1>9, <2>1 DEF vars
<1> QED BY <1>4, <1>5, <1>6, <1>7, <1>8, <1>9 DEF ReliableNext, Continue

(* Where the broker acknowledges in time the help text of metrics.go:33 is *)
(* right, over any number of impressions and crashes: what is counted is   *)
(* in the topic or still arrives there.                                    *)
THEOREM MetricOfReliableBroker == ReliableSpec => []MetricCountsTopicMessages
<1> DEFINE Inv == TypeOK /\ SoleClaimant /\ MetricInv /\ CountsArriving
<1>1. Init => Inv
  <2> SUFFICES ASSUME Init PROVE CountsArriving
    BY InitTypeOK, InitSoleClaimant, InitMetric
  <2>1. TypeOK /\ MetricInv
    BY InitTypeOK, InitMetric
  <2> SUFFICES ASSUME NEW e \in Event
               PROVE  counted[e] + AboutToCount(e) <= Cardinality(Arriving(e))
    BY DEF CountsArriving
  <2>2. counted[e] = 0 /\ Counting(e) = {}
    BY DEF Init, Counting, Idle
  <2>3. AboutToCount(e) = 0
    BY <2>2, FS_EmptySet DEF AboutToCount, Counting
  <2> QED BY <2>1, <2>2, <2>3, ArrivingShape
<1>2. Inv /\ [ReliableNext]_vars => Inv'
  BY ReliableNextIsNext, NextTypeOK, NextSoleClaimant, NextMetric, NextCountsArriving
<1>3. Inv => MetricCountsTopicMessages
  <2> SUFFICES ASSUME Inv, NEW e \in Event PROVE counted[e] <= Cardinality(Arriving(e))
    BY DEF MetricCountsTopicMessages
  <2> QED BY MetricSums, ArrivingShape DEF CountsArriving
<1> QED BY <1>1, <1>2, <1>3, PTL DEF ReliableSpec
=============================================================================
