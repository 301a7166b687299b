------------------------ MODULE AddressServiceProofs ------------------------
(***************************************************************************)
(* Proofs about AddressService for any content the topic may start with,   *)
(* any number of goroutines, ids and crashes and any bounds of the slice,  *)
(* the client buffer and a poll.                                           *)
(***************************************************************************)
EXTENDS AddressService, KafkaProducerProofs, FiniteSetTheorems

LEMMA RecordFields ==
  ASSUME NEW rec \in Record
  PROVE  rec.key \in AddressId /\ rec.value \in Decodable \cup {Nil, Undecodable}
  BY DEF Record

USE AddressServiceAssumption

(* A fresh id is an id.                                                    *)
LEMMA FreshIdType ==
  ASSUME addressIds \in SUBSET AddressId, addressIds # AddressId
  PROVE  FreshId \in AddressId
<1>1. \E id \in AddressId : id \notin addressIds
  OBVIOUS
<1> QED BY <1>1 DEF FreshId

(* The partition's log and lane, and the elements of an appended log.      *)
LEMMA TopicShape ==
  ASSUME TypeOK
  PROVE  /\ Topic \in Partition
         /\ log[Topic] \in Seq(Record) /\ buffered[Topic] \in Seq(Record)
         /\ Len(log[Topic]) \in Nat /\ DOMAIN log[Topic] = 1..Len(log[Topic])
         /\ fetched \in Seq(Record)
         /\ Len(fetched) \in Nat /\ DOMAIN fetched = 1..Len(fetched)
         /\ position \in Nat /\ committable \in Nat /\ committed \in Nat
         /\ recentCustomers \in Seq(AddressId)
         /\ Len(recentCustomers) \in Nat
         /\ DOMAIN recentCustomers = 1..Len(recentCustomers)
  BY LenProperties DEF TypeOK

(* What delivery does to the log and the lane.                             *)
LEMMA DeliverShape ==
  ASSUME TypeOK, Deliver(Topic)
  PROVE  /\ log'[Topic] = Append(log[Topic], Head(buffered[Topic]))
         /\ log' \in [Partition -> Seq(Record)]
         /\ buffered' \in [Partition -> Seq(Record)]
         /\ Len(log'[Topic]) = Len(log[Topic]) + 1
         /\ \A i \in 1..Len(log[Topic]) : log'[Topic][i] = log[Topic][i]
         /\ log'[Topic][Len(log[Topic]) + 1] = buffered[Topic][1]
         /\ 1 \in DOMAIN buffered[Topic]
         /\ \A i \in DOMAIN buffered'[Topic] :
              /\ i + 1 \in DOMAIN buffered[Topic]
              /\ buffered'[Topic][i] = buffered[Topic][i + 1]
<1>1. buffered[Topic] # <<>> /\ buffered[Topic] \in Seq(Record)
  BY TopicShape DEF Deliver
<1>2. /\ Head(buffered[Topic]) \in Record
      /\ Head(buffered[Topic]) = buffered[Topic][1]
      /\ 1 \in DOMAIN buffered[Topic]
      /\ Tail(buffered[Topic]) \in Seq(Record)
      /\ \A i \in DOMAIN Tail(buffered[Topic]) :
           /\ i + 1 \in DOMAIN buffered[Topic]
           /\ Tail(buffered[Topic])[i] = buffered[Topic][i + 1]
  BY <1>1, HeadTailProperties, LenProperties, EmptySeq
<1>3. /\ log'[Topic] = Append(log[Topic], Head(buffered[Topic]))
      /\ buffered'[Topic] = Tail(buffered[Topic])
      /\ log' = [log EXCEPT ![Topic] = Append(@, Head(buffered[Topic]))]
      /\ buffered' = [buffered EXCEPT ![Topic] = Tail(@)]
  BY DEF TypeOK, Deliver
<1>4. /\ Append(log[Topic], Head(buffered[Topic])) \in Seq(Record)
      /\ Len(log'[Topic]) = Len(log[Topic]) + 1
      /\ \A i \in 1..Len(log[Topic]) : log'[Topic][i] = log[Topic][i]
      /\ log'[Topic][Len(log[Topic]) + 1] = Head(buffered[Topic])
  BY <1>2, <1>3, TopicShape, AppendProperties
<1>5. /\ log' \in [Partition -> Seq(Record)]
      /\ buffered' \in [Partition -> Seq(Record)]
  BY <1>2, <1>3, <1>4 DEF TypeOK
<1> QED BY <1>2, <1>3, <1>4, <1>5

(* What a poll fetches.                                                    *)
LEMMA PollShape ==
  ASSUME TypeOK, Consumer!PollReturns
  PROVE  /\ position' \in (position + 1)..Len(log[Topic])
         /\ fetched' \in Seq(Record)
         /\ Len(fetched') = position' - position
         /\ \A i \in DOMAIN fetched' : fetched'[i] = log[Topic][position + i]
<1>1. PICK n \in (position + 1)..Len(log[Topic]) :
        fetched' = SubSeq(log[Topic], position + 1, n) /\ position' = n
  BY DEF Consumer!PollReturns
<1>2. /\ SubSeq(log[Topic], position + 1, n) \in Seq(Record)
      /\ Len(SubSeq(log[Topic], position + 1, n)) = n - position
      /\ \A i \in 1..(n - position) :
           SubSeq(log[Topic], position + 1, n)[i] = log[Topic][position + i]
  <2> DEFINE l == log[Topic]
  <2>1. l \in Seq(Record) /\ position \in Nat /\ n \in (position + 1)..Len(l)
    BY TopicShape
  <2> HIDE DEF l
  <2>2. /\ SubSeq(l, position + 1, n) \in Seq(Record)
        /\ Len(SubSeq(l, position + 1, n)) = n - position
        /\ \A i \in 1..(n - position) : SubSeq(l, position + 1, n)[i] = l[position + i]
    BY ONLY <2>1, PolledPart
  <2> QED BY <2>2 DEF l
<1> QED BY <1>1, <1>2, LenProperties, TopicShape

-----------------------------------------------------------------------------
(* Type correctness. *)

LEMMA InitTypeOK == Init => TypeOK
<1> SUFFICES ASSUME Init PROVE TypeOK
  OBVIOUS
<1>1. addressIds \in SUBSET AddressId
  <2>1. \A i \in DOMAIN Seed : Seed[i] \in Record
    BY ElementOfSeq, LenProperties
  <2> QED BY <2>1, RecordFields DEF Init, KeysOf
<1>2. /\ log \in [Partition -> Seq(Record)] /\ buffered \in [Partition -> Seq(Record)]
      /\ log[Topic] = Seed /\ Len(Seed) \in Nat
  BY LenProperties DEF Init
<1> QED BY <1>1, <1>2 DEF Init, Consumer!ConsumerInit, TypeOK

LEMMA NextTypeOK == TypeOK /\ [Next]_vars => TypeOK'
<1> SUFFICES ASSUME TypeOK, [Next]_vars PROVE TypeOK'
  OBVIOUS
<1>1. CASE CustomerRegistered
  BY <1>1 DEF CustomerRegistered, TypeOK, producerVars, consumerVars
<1>2. CASE HandleRecord
  <2>1. fetched # <<>> /\ fetched' = Tail(fetched)
        /\ UNCHANGED <<position, committable, committed>>
    BY <1>2 DEF HandleRecord, Consumer!NextRecord
  <2>2. fetched' \in Seq(Record) /\ Len(fetched') <= position
    BY <2>1, TopicShape, HeadTailProperties DEF TypeOK
  <2>3. Head(fetched).key \in AddressId
    BY <2>1, TopicShape, HeadTailProperties, RecordFields
  <2>4. recentCustomers' = recentCustomers \/ Remember(Head(fetched).key)
    BY <1>2 DEF HandleRecord
  <2>5. recentCustomers' \in Seq(AddressId) /\ Len(recentCustomers') <= BufferSize
    <3> DEFINE id == Head(fetched).key
    <3> HIDE DEF id
    <3>1. id \in AddressId /\ (recentCustomers' = recentCustomers \/ Remember(id))
      BY <2>3, <2>4 DEF id
    <3>2. /\ Append(recentCustomers, id) \in Seq(AddressId)
          /\ Len(Append(recentCustomers, id)) = Len(recentCustomers) + 1
      BY <3>1, TopicShape, AppendProperties
    <3>3. /\ recentCustomers \in Seq(AddressId)
          /\ Len(recentCustomers) <= BufferSize
          /\ Len(recentCustomers) \in Nat /\ BufferSize \in Nat
      BY TopicShape DEF TypeOK
    <3> QED BY ONLY <3>1, <3>2, <3>3 DEF Remember
  <2> QED BY <1>2, <2>1, <2>2, <2>5 DEF HandleRecord, TypeOK, producerVars
<1>3. CASE Poll
  <2>1. CASE Consumer!EnterPoll
    BY <1>3, <2>1, TopicShape
       DEF Poll, Consumer!EnterPoll, TypeOK, producerVars, serviceVars
  <2>2. CASE Consumer!PollReturns
    BY <1>3, <2>2, PollShape, TopicShape
       DEF Poll, Consumer!PollReturns, TypeOK, producerVars, serviceVars
  <2> QED BY <1>3, <2>1, <2>2 DEF Poll
<1>4. CASE Commit
  BY <1>4, TopicShape
     DEF Commit, Consumer!AutoCommit, TypeOK, producerVars, serviceVars
<1>5. ASSUME NEW g \in Goroutine, CreateAddress(g) PROVE TypeOK'
  <2>1. /\ FreshId \in AddressId
        /\ Head(recentCustomers) \in AddressId
        /\ Tail(recentCustomers) \in Seq(AddressId)
        /\ Len(Tail(recentCustomers)) <= BufferSize
    BY <1>5, FreshIdType, TopicShape, HeadTailProperties DEF CreateAddress, TypeOK
  <2> DEFINE next == [at |-> "produce",
                      rec |-> [key |-> FreshId, value |-> Head(recentCustomers)]]
  <2>2. next \in Busy
    BY <2>1 DEF Busy, Record, Decodable
  <2>3. task' = [task EXCEPT ![g] = next]
    BY <1>5 DEF CreateAddress
  <2> HIDE DEF next
  <2> QED BY <1>5, <2>1, <2>2, <2>3
          DEF CreateAddress, TypeOK, producerVars, consumerVars
<1>6. ASSUME NEW g \in Goroutine, NothingToPop(g) PROVE TypeOK'
  BY <1>6 DEF NothingToPop, TypeOK, vars, producerVars, consumerVars, serviceVars
<1>7. ASSUME NEW g \in Goroutine, ProduceAddress(g) PROVE TypeOK'
  <2>1. task[g] \in Busy /\ task[g].rec \in Record
    BY <1>7 DEF ProduceAddress, TypeOK, Idle, Busy
  <2>2. task' \in [Goroutine -> {Idle} \cup Busy]
    BY <1>7, <2>1 DEF ProduceAddress, TypeOK, Busy
  <2> QED BY <1>7, <2>1, <2>2, TopicShape
          DEF ProduceAddress, Produce, TypeOK, consumerVars
<1>8. ASSUME NEW g \in Goroutine, CountProduced(g) PROVE TypeOK'
  BY <1>8 DEF CountProduced, TypeOK, producerVars, consumerVars
<1>9. CASE ProducerClient
  <2>1. CASE Deliver(Topic)
    BY <1>9, <2>1, DeliverShape, TopicShape
       DEF ProducerClient, Deliver, TypeOK, consumerVars, serviceVars
  <2>2. CASE ExpireBuffered(Topic)
    BY <1>9, <2>2, TopicShape
       DEF ProducerClient, ExpireBuffered, Range, TypeOK, consumerVars, serviceVars
  <2> QED BY <1>9, <2>1, <2>2 DEF ProducerClient
<1>10. CASE Crash
  BY <1>10, TopicShape DEF Crash, LoseBuffered, Consumer!Resume, Range, TypeOK
<1>11. CASE UNCHANGED vars
  BY <1>11 DEF TypeOK, vars, producerVars, consumerVars, serviceVars
<1> QED BY <1>1, <1>2, <1>3, <1>4, <1>5, <1>6, <1>7, <1>8, <1>9, <1>10, <1>11
        DEF Next, Start, Impression, Continue

(* Every variable of the address service keeps its type, and the consumer's *)
(* offsets never run ahead of one another or of the topic.                  *)
THEOREM TypeCorrect == Spec => []TypeOK
  BY InitTypeOK, NextTypeOK, PTL DEF Spec

-----------------------------------------------------------------------------
(* Where addresses come from.                                              *)

Known(id) == KnownIn(log[Topic], id, Len(log[Topic]))
KnownNext(id) == KnownIn(log'[Topic], id, Len(log'[Topic]))

(* The conjuncts of AddressesFromAddresses, before and after a step.       *)
LEMMA Unfold ==
  /\ AddressesFromAddresses <=>
       /\ FetchedFromTopic
       /\ \A i \in DOMAIN recentCustomers : Known(recentCustomers[i])
       /\ \A g \in Goroutine : task[g].at = "produce" => Known(task[g].rec.value)
       /\ \A i \in DOMAIN buffered[Topic] : Known(buffered[Topic][i].value)
       /\ \A rec \in lost : Known(rec.value)
       /\ \A i \in (Len(Seed) + 1)..Len(log[Topic]) :
            KnownIn(log[Topic], log[Topic][i].value, i - 1)
  /\ AddressesFromAddresses' <=>
       /\ FetchedFromTopic'
       /\ \A i \in DOMAIN recentCustomers' : KnownNext(recentCustomers'[i])
       /\ \A g \in Goroutine : task'[g].at = "produce" => KnownNext(task'[g].rec.value)
       /\ \A i \in DOMAIN buffered'[Topic] : KnownNext(buffered'[Topic][i].value)
       /\ \A rec \in lost' : KnownNext(rec.value)
       /\ \A i \in (Len(Seed) + 1)..Len(log'[Topic]) :
            KnownIn(log'[Topic], log'[Topic][i].value, i - 1)
  BY DEF AddressesFromAddresses, Known, KnownNext, KnownIn

(* A step that only moves or drops what is known keeps the invariant.      *)
LEMMA KeepOrigin ==
  ASSUME AddressesFromAddresses, FetchedFromTopic', log' = log,
         \A i \in DOMAIN recentCustomers' : Known(recentCustomers'[i]),
         \A g \in Goroutine : task'[g].at = "produce" => Known(task'[g].rec.value),
         \A i \in DOMAIN buffered'[Topic] : Known(buffered'[Topic][i].value),
         \A rec \in lost' : Known(rec.value)
  PROVE  AddressesFromAddresses'
<1>1. \A id : KnownNext(id) <=> Known(id)
  BY DEF Known, KnownNext
<1> QED BY <1>1, Unfold

(* A fetched record is a record of the topic.                              *)
LEMMA HandleKeepsOrigin ==
  ASSUME TypeOK, AddressesFromAddresses, HandleRecord
  PROVE  AddressesFromAddresses'
<1>1. /\ fetched # <<>> /\ fetched' = Tail(fetched)
      /\ position' = position
      /\ log' = log /\ buffered' = buffered /\ lost' = lost /\ task' = task
  BY DEF HandleRecord, Consumer!NextRecord, producerVars
<1>2. /\ Len(fetched') = Len(fetched) - 1
      /\ fetched' \in Seq(Record)
      /\ DOMAIN fetched' = 1..(Len(fetched) - 1)
      /\ \A i \in DOMAIN fetched' : fetched'[i] = fetched[i + 1]
      /\ Head(fetched) = fetched[1]
      /\ 1 \in DOMAIN fetched
  BY <1>1, TopicShape, HeadTailProperties, LenProperties, EmptySeq
<1>3. /\ Consumer!HandledUpTo' = Consumer!HandledUpTo + 1
      /\ Consumer!HandledUpTo \in Nat
      /\ Consumer!HandledUpTo + 1 \in 1..Len(log[Topic])
  BY <1>1, <1>2, TopicShape DEF Consumer!HandledUpTo, TypeOK
<1>4. FetchedFromTopic
  BY Unfold
<1>5. FetchedFromTopic'
  <2> SUFFICES ASSUME NEW i \in DOMAIN fetched'
               PROVE  fetched'[i] = log[Topic][(Consumer!HandledUpTo + 1) + i]
    BY <1>1, <1>3 DEF FetchedFromTopic
  <2>1. i + 1 \in DOMAIN fetched /\ i \in Nat
    BY <1>2, TopicShape
  <2>2. fetched[i + 1] = log[Topic][Consumer!HandledUpTo + (i + 1)]
    BY <1>4, <2>1 DEF FetchedFromTopic
  <2>3. Consumer!HandledUpTo + (i + 1) = (Consumer!HandledUpTo + 1) + i
    BY <1>3, <2>1
  <2> QED BY <1>2, <2>2, <2>3
<1>6. Head(fetched).value \in Decodable => Known(Head(fetched).key)
  <2>1. Head(fetched) = log[Topic][Consumer!HandledUpTo + 1]
    BY <1>2, <1>4 DEF FetchedFromTopic
  <2> QED BY <1>3, <2>1 DEF Known, KnownIn
<1>7. \A i \in DOMAIN recentCustomers' : Known(recentCustomers'[i])
  <2>1. CASE recentCustomers' = recentCustomers
    BY <2>1, Unfold
  <2>2. CASE Head(fetched).value \in Decodable
             /\ recentCustomers' = Append(recentCustomers, Head(fetched).key)
    <3>1. Head(fetched).key \in AddressId
      BY <1>1, TopicShape, HeadTailProperties, RecordFields
    <3>2. \A i \in DOMAIN recentCustomers' :
            \/ i \in DOMAIN recentCustomers /\ recentCustomers'[i] = recentCustomers[i]
            \/ recentCustomers'[i] = Head(fetched).key
      BY <2>2, <3>1, TopicShape, AppendProperties, LenProperties
    <3> QED BY <1>6, <2>2, <3>2, Unfold
  <2> QED BY <2>1, <2>2 DEF HandleRecord, Remember
<1> QED BY <1>1, <1>5, <1>7, KeepOrigin, Unfold

LEMMA PollKeepsOrigin ==
  ASSUME TypeOK, AddressesFromAddresses, Poll
  PROVE  AddressesFromAddresses'
<1>1. /\ log' = log /\ buffered' = buffered /\ lost' = lost /\ task' = task
      /\ recentCustomers' = recentCustomers
  BY DEF Poll, producerVars, serviceVars
<1>2. FetchedFromTopic'
  <2>1. CASE Consumer!EnterPoll
    BY <1>1, <2>1, Unfold
       DEF Consumer!EnterPoll, FetchedFromTopic, Consumer!HandledUpTo
  <2>2. CASE Consumer!PollReturns
    <3>1. Consumer!HandledUpTo' = position
      BY <2>2, PollShape, TopicShape DEF Consumer!HandledUpTo
    <3> QED BY <1>1, <2>2, <3>1, PollShape DEF FetchedFromTopic
  <2> QED BY <2>1, <2>2 DEF Poll
<1> QED BY <1>1, <1>2, KeepOrigin, Unfold

(* The id of a cached address becomes the customer id of the next address. *)
LEMMA CreateKeepsOrigin ==
  ASSUME TypeOK, AddressesFromAddresses, NEW g \in Goroutine, CreateAddress(g)
  PROVE  AddressesFromAddresses'
<1>1. /\ log' = log /\ buffered' = buffered /\ lost' = lost
      /\ UNCHANGED <<position, fetched>>
      /\ recentCustomers # <<>> /\ recentCustomers' = Tail(recentCustomers)
  BY DEF CreateAddress, producerVars, consumerVars
<1>2. /\ Head(recentCustomers) = recentCustomers[1]
      /\ 1 \in DOMAIN recentCustomers
      /\ \A i \in DOMAIN recentCustomers' :
           /\ i + 1 \in DOMAIN recentCustomers
           /\ recentCustomers'[i] = recentCustomers[i + 1]
  BY <1>1, TopicShape, HeadTailProperties, LenProperties, EmptySeq
<1>3. \A h \in Goroutine : task'[h].at = "produce" =>
        \/ task'[h] = task[h]
        \/ task'[h].rec.value = Head(recentCustomers)
  BY DEF CreateAddress, TypeOK
<1>4. \A h \in Goroutine : task'[h].at = "produce" => Known(task'[h].rec.value)
  BY <1>2, <1>3, Unfold
<1>5. FetchedFromTopic'
  BY <1>1, Unfold DEF FetchedFromTopic, Consumer!HandledUpTo
<1>6. \A i \in DOMAIN recentCustomers' : Known(recentCustomers'[i])
  BY <1>2, Unfold
<1> QED BY <1>1, <1>4, <1>5, <1>6, KeepOrigin, Unfold

LEMMA ProduceKeepsOrigin ==
  ASSUME TypeOK, AddressesFromAddresses, NEW g \in Goroutine, ProduceAddress(g)
  PROVE  AddressesFromAddresses'
<1>1. /\ log' = log /\ lost' = lost /\ UNCHANGED <<position, fetched>>
      /\ recentCustomers' = recentCustomers
      /\ buffered'[Topic] = Append(buffered[Topic], task[g].rec)
  BY TopicShape DEF ProduceAddress, Produce, consumerVars, TypeOK
<1>2. task[g].rec \in Record /\ Known(task[g].rec.value)
  <2>1. task[g].at = "produce" /\ task[g] \in {Idle} \cup Busy
    BY DEF ProduceAddress, TypeOK
  <2>2. task[g].rec \in Record
    BY <2>1 DEF Idle, Busy
  <2> QED BY <2>1, <2>2, Unfold
<1>3. \A i \in DOMAIN buffered'[Topic] :
        \/ i \in DOMAIN buffered[Topic] /\ buffered'[Topic][i] = buffered[Topic][i]
        \/ buffered'[Topic][i] = task[g].rec
  BY <1>1, <1>2, TopicShape, AppendProperties, LenProperties
<1>4. \A h \in Goroutine : task'[h].at = "produce" => task'[h] = task[h]
  BY DEF ProduceAddress, TypeOK
<1>5. FetchedFromTopic'
  BY <1>1, Unfold DEF FetchedFromTopic, Consumer!HandledUpTo
<1>6. \A i \in DOMAIN buffered'[Topic] : Known(buffered'[Topic][i].value)
  BY <1>2, <1>3, Unfold
<1> QED BY <1>1, <1>4, <1>5, <1>6, KeepOrigin, Unfold

(* The topic grows by a record whose origin was in the topic already.      *)
LEMMA DeliverKeepsOrigin ==
  ASSUME TypeOK, AddressesFromAddresses, Deliver(Topic),
         UNCHANGED <<consumerVars, serviceVars>>
  PROVE  AddressesFromAddresses'
<1> DEFINE n == Len(log[Topic])
<1>1. /\ Len(log'[Topic]) = n + 1 /\ n \in Nat
      /\ \A i \in 1..n : log'[Topic][i] = log[Topic][i]
      /\ log'[Topic][n + 1] = buffered[Topic][1]
      /\ 1 \in DOMAIN buffered[Topic]
      /\ \A i \in DOMAIN buffered'[Topic] :
           /\ i + 1 \in DOMAIN buffered[Topic]
           /\ buffered'[Topic][i] = buffered[Topic][i + 1]
      /\ lost' = lost
  BY DeliverShape, TopicShape DEF Deliver
<1> HIDE DEF n
<1>2. /\ \A id : \A k \in 0..n :
           KnownIn(log[Topic], id, k) => KnownIn(log'[Topic], id, k)
      /\ \A id : KnownIn(log[Topic], id, n) => KnownIn(log'[Topic], id, n + 1)
  <2> SUFFICES ASSUME NEW id, NEW k \in 0..n, NEW j \in 1..k,
                      log[Topic][j].key = id, log[Topic][j].value \in Decodable
               PROVE  /\ j \in 1..(n + 1)
                      /\ log'[Topic][j].key = id /\ log'[Topic][j].value \in Decodable
    BY <1>1 DEF KnownIn
  <2>1. j \in 1..n /\ j \in 1..(n + 1)
    BY <1>1
  <2> QED BY <1>1, <2>1
<1>3. \A id : Known(id) => KnownNext(id)
  BY <1>1, <1>2 DEF Known, KnownNext, n
<1>4. FetchedFromTopic'
  <2>1. FetchedFromTopic
    BY Unfold
  <2>2. \A i \in DOMAIN fetched : Consumer!HandledUpTo + i \in 1..n
    BY TopicShape DEF Consumer!HandledUpTo, TypeOK, n
  <2> QED BY <1>1, <2>1, <2>2 DEF FetchedFromTopic, Consumer!HandledUpTo, consumerVars
<1>5. ASSUME NEW i \in (Len(Seed) + 1)..(n + 1)
      PROVE  KnownIn(log'[Topic], log'[Topic][i].value, i - 1)
  <2>0. Len(Seed) \in Nat
    BY LenProperties
  <2>1. CASE i <= n
    <3>1. KnownIn(log[Topic], log[Topic][i].value, i - 1) /\ i - 1 \in 0..n
      BY <1>1, <2>0, <2>1, Unfold DEF n
    <3>2. log'[Topic][i] = log[Topic][i]
      BY <1>1, <2>0, <2>1
    <3> QED BY <1>2, <3>1, <3>2
  <2>2. CASE i = n + 1
    <3>1. KnownIn(log[Topic], buffered[Topic][1].value, n)
      BY <1>1, Unfold DEF Known, n
    <3>2. log'[Topic][i] = buffered[Topic][1] /\ i - 1 = n /\ n \in 0..n
      BY <1>1, <2>2
    <3> QED BY <1>2, <3>1, <3>2
  <2> QED BY <1>1, <2>0, <2>1, <2>2
<1>6. /\ \A i \in DOMAIN recentCustomers' : KnownNext(recentCustomers'[i])
      /\ \A g \in Goroutine : task'[g].at = "produce" => KnownNext(task'[g].rec.value)
      /\ \A rec \in lost' : KnownNext(rec.value)
  BY <1>1, <1>3, Unfold DEF serviceVars
<1>7. \A i \in DOMAIN buffered'[Topic] : KnownNext(buffered'[Topic][i].value)
  BY <1>1, <1>3, Unfold
<1> QED BY <1>1, <1>4, <1>5, <1>6, <1>7, Unfold

LEMMA InitOrigin == Init => AddressesFromAddresses
<1> SUFFICES ASSUME Init PROVE AddressesFromAddresses
  OBVIOUS
<1>1. log[Topic] = Seed /\ buffered[Topic] = <<>> /\ Len(Seed) \in Nat
  BY LenProperties DEF Init
<1> QED BY <1>1 DEF Init, Consumer!ConsumerInit, AddressesFromAddresses,
                    FetchedFromTopic, Idle

LEMMA NextOrigin ==
  TypeOK /\ AddressesFromAddresses /\ [Next]_vars => AddressesFromAddresses'
<1> SUFFICES ASSUME TypeOK, AddressesFromAddresses, [Next]_vars
             PROVE  AddressesFromAddresses'
  OBVIOUS
<1> USE DEF FetchedFromTopic, Consumer!HandledUpTo
<1>1. ASSUME UNCHANGED <<producerVars, position, fetched, recentCustomers>>,
             \A g \in Goroutine : task'[g].at = "produce" => task'[g] = task[g]
      PROVE  AddressesFromAddresses'
  BY <1>1, KeepOrigin, Unfold DEF producerVars
<1>2. CASE CustomerRegistered
  BY <1>1, <1>2 DEF CustomerRegistered, consumerVars
<1>3. CASE Commit
  BY <1>1, <1>3 DEF Commit, Consumer!AutoCommit, serviceVars
<1>4. ASSUME NEW g \in Goroutine, NothingToPop(g) PROVE AddressesFromAddresses'
  BY <1>1, <1>4 DEF NothingToPop, vars, consumerVars, serviceVars
<1>5. ASSUME NEW g \in Goroutine, CountProduced(g) PROVE AddressesFromAddresses'
  BY <1>1, <1>5 DEF CountProduced, consumerVars, TypeOK, Idle
<1>6. CASE ProducerClient
  <2>1. CASE ExpireBuffered(Topic)
    <3>1. /\ log' = log /\ buffered'[Topic] = <<>>
          /\ UNCHANGED <<position, fetched, recentCustomers, task>>
          /\ \A rec \in lost' :
               rec \in lost \/ \E i \in DOMAIN buffered[Topic] : rec = buffered[Topic][i]
      BY <1>6, <2>1, TopicShape
         DEF ProducerClient, ExpireBuffered, Range, TypeOK, consumerVars, serviceVars
    <3> QED BY <3>1, KeepOrigin, Unfold
  <2> QED BY <1>6, <2>1, DeliverKeepsOrigin DEF ProducerClient
<1>7. CASE Crash
  <2>1. /\ log' = log /\ buffered'[Topic] = <<>>
        /\ fetched' = <<>> /\ recentCustomers' = <<>>
        /\ \A g \in Goroutine : task'[g].at # "produce"
        /\ \A rec \in lost' :
             rec \in lost \/ \E i \in DOMAIN buffered[Topic] : rec = buffered[Topic][i]
    BY <1>7 DEF Crash, LoseBuffered, Consumer!Resume, Range, Idle
  <2> QED BY <2>1, KeepOrigin, Unfold
<1>8. CASE UNCHANGED vars
  BY <1>1, <1>8 DEF vars, consumerVars, serviceVars
<1> QED BY <1>2, <1>3, <1>4, <1>5, <1>6, <1>7, <1>8, HandleKeepsOrigin,
           PollKeepsOrigin, CreateKeepsOrigin, ProduceKeepsOrigin
        DEF Next, Start, Impression, Continue

(* Every address the service ever produces names as its customer the id of *)
(* an address that was in the addresses topic before, never an id of the   *)
(* customers topic (address_service.go:45-48).                             *)
THEOREM AddressOrigin == Spec => []AddressesFromAddresses
  BY InitTypeOK, NextTypeOK, InitOrigin, NextOrigin, PTL DEF Spec

NothingProduced == log[Topic] = <<>> /\ buffered[Topic] = <<>> /\ lost = {}

(* On the empty topic that Initialize creates no address is ever produced  *)
(* and none is lost, whatever customers register: the service reads the    *)
(* topic it writes (address_service.go:45-48).                             *)
THEOREM NothingFromNothing ==
  ASSUME Seed = <<>>
  PROVE  Spec => []NothingProduced
<1>1. TypeOK /\ AddressesFromAddresses => NothingProduced
  <2> SUFFICES ASSUME TypeOK, AddressesFromAddresses PROVE NothingProduced
    OBVIOUS
  <2>1. log[Topic] = <<>>
    <3>1. SUFFICES ASSUME log[Topic] # <<>> PROVE FALSE
      OBVIOUS
    <3>2. 1 \in (Len(Seed) + 1)..Len(log[Topic])
      BY <3>1, TopicShape, EmptySeq
    <3>3. KnownIn(log[Topic], log[Topic][1].value, 1 - 1)
      BY <3>2, Unfold
    <3> QED BY <3>3 DEF KnownIn
  <2>2. \A id : ~ Known(id)
    BY <2>1 DEF Known, KnownIn
  <2>3. lost = {}
    BY <2>2, Unfold
  <2>4. buffered[Topic] = <<>>
    BY <2>2, Unfold, TopicShape, LenProperties, EmptySeq
  <2> QED BY <2>1, <2>3, <2>4 DEF NothingProduced
<1> QED BY <1>1, TypeCorrect, AddressOrigin, PTL

-----------------------------------------------------------------------------
(* The feedback of the service's own records into its consumer.            *)

ProducingNow == {g \in Goroutine : task[g].at = "produce"}

FeedbackInv == IsFiniteSet(ProducingNow) /\ FeedbackDoesNotGrow

(* The terms of InFlight, and their types.                                 *)
Cached == Len(recentCustomers)
Held == Len(buffered[Topic])
Working == Cardinality(ProducingNow)

LEMMA InFlightTerms ==
  /\ InFlight = Unread + Cached + Held + Working
  /\ InFlight' = Unread' + Cached' + Held' + Working'
BY DEF InFlight, Cached, Held, Working, ProducingNow

LEMMA InFlightTypes ==
  ASSUME TypeOK, IsFiniteSet(ProducingNow)
  PROVE  Unread \in Nat /\ Cached \in Nat /\ Held \in Nat /\ Working \in Nat
<1>1. Working \in Nat
  BY FS_CardinalityType DEF Working
<1>2. Held \in Nat /\ Cached \in Nat
  BY TopicShape, LenProperties DEF Held, Cached
<1>3. Unread \in Nat
  <2> DEFINE l == Len(log[Topic])
             f == Len(fetched)
  <2>1. l \in Nat /\ f \in Nat /\ position \in 0..l /\ f <= position
    BY TopicShape DEF TypeOK
  <2> HIDE DEF l, f
  <2>2. l - (position - f) \in Nat
    BY ONLY <2>1
  <2> QED BY <2>2 DEF Unread, Consumer!HandledUpTo, l, f
<1> QED BY <1>1, <1>2, <1>3

LEMMA SeedLength == Len(Seed) \in Nat
BY LenProperties

(* A step that moves an address on, or drops it.                           *)
LEMMA FeedbackShrinks ==
  ASSUME TypeOK, FeedbackInv, crashes' = crashes, IsFiniteSet(ProducingNow'),
         Unread' \in Int, Cached' \in Int, Held' \in Int, Working' \in Int,
         Unread' + Cached' + Held' + Working' <= Unread + Cached + Held + Working
  PROVE  FeedbackInv'
<1>1. Unread \in Nat /\ Cached \in Nat /\ Held \in Nat /\ Working \in Nat
  BY InFlightTypes DEF FeedbackInv
<1>2. /\ Unread' \in Int /\ Cached' \in Int /\ Held' \in Int /\ Working' \in Int
      /\ Unread' + Cached' + Held' + Working' <= Unread + Cached + Held + Working
  OBVIOUS
<1>3. InFlight' \in Int /\ InFlight \in Int
  BY ONLY <1>1, <1>2, InFlightTerms
<1>4. InFlight' <= InFlight
  BY ONLY <1>1, <1>2, InFlightTerms
<1> QED BY <1>3, <1>4, SeedLength DEF FeedbackInv, FeedbackDoesNotGrow

LEMMA FeedbackUnmoved ==
  ASSUME TypeOK, FeedbackInv, crashes' = crashes, ProducingNow' = ProducingNow,
         Unread' = Unread, Cached' = Cached, Held' = Held, Working' = Working
  PROVE  FeedbackInv'
<1>1. Unread \in Nat /\ Cached \in Nat /\ Held \in Nat /\ Working \in Nat
  BY InFlightTypes DEF FeedbackInv
<1> QED BY <1>1, FeedbackShrinks DEF FeedbackInv

LEMMA HandleKeepsFeedback ==
  ASSUME TypeOK, FeedbackInv, HandleRecord
  PROVE  FeedbackInv'
<1>1. /\ fetched # <<>> /\ fetched' = Tail(fetched)
      /\ position' = position /\ log' = log /\ buffered' = buffered
      /\ task' = task /\ crashes' = crashes
      /\ recentCustomers' = recentCustomers \/ Remember(Head(fetched).key)
  BY DEF HandleRecord, Consumer!NextRecord, producerVars
<1>2. ProducingNow' = ProducingNow
  BY <1>1 DEF ProducingNow
<1>3. Unread' = Unread - 1
  <2> DEFINE l == Len(log[Topic])
             f == Len(fetched)
  <2>1. l \in Nat /\ f \in Nat /\ position \in Nat
    BY TopicShape
  <2>2. Len(fetched') = f - 1 /\ Len(log'[Topic]) = l
    BY <1>1, TopicShape, HeadTailProperties
  <2>3. Unread = l - (position - f) /\ Unread' = l - (position - (f - 1))
    BY <1>1, <2>2 DEF Unread, Consumer!HandledUpTo
  <2> HIDE DEF l, f
  <2> QED BY ONLY <2>1, <2>3
<1>4. Cached' \in {Cached, Cached + 1}
  <2>1. CASE recentCustomers' = recentCustomers
    BY <2>1 DEF Cached
  <2>2. CASE recentCustomers' = Append(recentCustomers, Head(fetched).key)
    <3>1. Head(fetched).key \in AddressId
      BY <1>1, TopicShape, HeadTailProperties, RecordFields
    <3> QED BY <2>2, <3>1, TopicShape, AppendProperties DEF Cached
  <2> QED BY <1>1, <2>1, <2>2 DEF Remember
<1>5. Held' = Held /\ Working' = Working
  BY <1>1, <1>2 DEF Held, Working
<1>6. Unread \in Nat /\ Cached \in Nat /\ Held \in Nat /\ Working \in Nat
  BY InFlightTypes DEF FeedbackInv
<1>7. IsFiniteSet(ProducingNow')
  BY <1>2 DEF FeedbackInv
<1>8. Unread' + Cached' + Held' + Working' <= Unread + Cached + Held + Working
  <2>1. ASSUME Cached' = Cached
        PROVE  Unread' + Cached' + Held' + Working' <= Unread + Cached + Held + Working
    BY ONLY <1>3, <1>5, <1>6, <2>1
  <2>2. ASSUME Cached' = Cached + 1
        PROVE  Unread' + Cached' + Held' + Working' <= Unread + Cached + Held + Working
    BY ONLY <1>3, <1>5, <1>6, <2>2
  <2> QED BY <1>4, <2>1, <2>2
<1>9. Unread' \in Int /\ Held' \in Int /\ Working' \in Int
  BY ONLY <1>3, <1>5, <1>6
<1>10. Cached' \in Int
  BY ONLY <1>4, <1>6
<1> QED BY <1>1, <1>7, <1>8, <1>9, <1>10, FeedbackShrinks

LEMMA PollKeepsFeedback ==
  ASSUME TypeOK, FeedbackInv, Poll
  PROVE  FeedbackInv'
<1>1. /\ log' = log /\ buffered' = buffered /\ task' = task
      /\ recentCustomers' = recentCustomers /\ crashes' = crashes
      /\ Len(fetched) = 0
  BY DEF Poll, producerVars, serviceVars, Consumer!EnterPoll, Consumer!PollReturns
<1>2. position' - Len(fetched') = position - Len(fetched)
  <2>1. CASE Consumer!EnterPoll
    BY <2>1 DEF Consumer!EnterPoll
  <2>2. CASE Consumer!PollReturns
    BY <1>1, <2>2, PollShape, TopicShape
  <2> QED BY <2>1, <2>2 DEF Poll
<1>3. ProducingNow' = ProducingNow
  BY <1>1 DEF ProducingNow
<1>4. Unread' = Unread /\ Cached' = Cached /\ Held' = Held /\ Working' = Working
  BY <1>1, <1>2, <1>3 DEF Unread, Consumer!HandledUpTo, Cached, Held, Working
<1> QED BY <1>1, <1>3, <1>4, FeedbackUnmoved

LEMMA CreateKeepsFeedback ==
  ASSUME TypeOK, FeedbackInv, NEW g \in Goroutine, CreateAddress(g)
  PROVE  FeedbackInv'
<1>1. /\ log' = log /\ buffered' = buffered /\ UNCHANGED <<position, fetched, crashes>>
      /\ recentCustomers # <<>> /\ recentCustomers' = Tail(recentCustomers)
  BY DEF CreateAddress, producerVars, consumerVars
<1>2. Cached' = Cached - 1
  BY <1>1, TopicShape, HeadTailProperties DEF Cached
<1>3. ProducingNow' = ProducingNow \cup {g} /\ g \notin ProducingNow
  BY DEF CreateAddress, TypeOK, ProducingNow, Idle
<1>4. /\ IsFiniteSet(ProducingNow \cup {g})
      /\ Cardinality(ProducingNow \cup {g}) = Cardinality(ProducingNow) + 1
  <2>1. IsFiniteSet(ProducingNow)
    BY DEF FeedbackInv
  <2> QED BY ONLY <1>3, <2>1, FS_AddElement
<1>5. Unread' = Unread /\ Held' = Held /\ Working' = Working + 1
  BY <1>1, <1>3, <1>4 DEF Unread, Consumer!HandledUpTo, Held, Working
<1>6. Unread \in Nat /\ Cached \in Nat /\ Held \in Nat /\ Working \in Nat
  BY InFlightTypes DEF FeedbackInv
<1>7. IsFiniteSet(ProducingNow')
  BY <1>3, <1>4
<1> QED BY <1>1, <1>2, <1>5, <1>6, <1>7, FeedbackShrinks

LEMMA ProduceKeepsFeedback ==
  ASSUME TypeOK, FeedbackInv, NEW g \in Goroutine, ProduceAddress(g)
  PROVE  FeedbackInv'
<1>1. /\ log' = log /\ UNCHANGED <<position, fetched, recentCustomers, crashes>>
      /\ buffered'[Topic] = Append(buffered[Topic], task[g].rec)
  BY TopicShape DEF ProduceAddress, Produce, consumerVars, TypeOK
<1>2. Held' = Held + 1
  <2>1. task[g].rec \in Record
    BY DEF ProduceAddress, TypeOK, Idle, Busy
  <2> QED BY <1>1, <2>1, TopicShape, AppendProperties DEF Held
<1>3. ProducingNow' = ProducingNow \ {g} /\ g \in ProducingNow
  BY DEF ProduceAddress, TypeOK, ProducingNow
<1>4. /\ IsFiniteSet(ProducingNow \ {g})
      /\ Cardinality(ProducingNow \ {g}) = Cardinality(ProducingNow) - 1
  <2>1. IsFiniteSet(ProducingNow)
    BY DEF FeedbackInv
  <2> QED BY ONLY <1>3, <2>1, FS_RemoveElement
<1>5. Unread' = Unread /\ Cached' = Cached /\ Working' = Working - 1
  BY <1>1, <1>3, <1>4 DEF Unread, Consumer!HandledUpTo, Cached, Working
<1>6. Unread \in Nat /\ Cached \in Nat /\ Held \in Nat /\ Working \in Nat
  BY InFlightTypes DEF FeedbackInv
<1>7. IsFiniteSet(ProducingNow')
  BY <1>3, <1>4
<1> QED BY <1>1, <1>2, <1>5, <1>6, <1>7, FeedbackShrinks

LEMMA ClientKeepsFeedback ==
  ASSUME TypeOK, FeedbackInv, ProducerClient
  PROVE  FeedbackInv'
<1>1. UNCHANGED <<position, fetched, recentCustomers, crashes, task>>
  BY DEF ProducerClient, consumerVars, serviceVars
<1>2. ProducingNow' = ProducingNow
  BY <1>1 DEF ProducingNow
<1>3. Cached' = Cached /\ Working' = Working /\ IsFiniteSet(ProducingNow')
  BY <1>1, <1>2 DEF Cached, Working, FeedbackInv
<1>4. Unread \in Nat /\ Cached \in Nat /\ Held \in Nat /\ Working \in Nat
  BY InFlightTypes DEF FeedbackInv
<1>5. CASE Deliver(Topic)
  <2>1. Held' = Held - 1
    <3>1. buffered[Topic] \in Seq(Record) /\ buffered[Topic] # <<>>
      BY <1>5, TopicShape DEF Deliver
    <3>2. buffered'[Topic] = Tail(buffered[Topic])
      BY <1>5, TopicShape DEF Deliver, TypeOK
    <3> QED BY <3>1, <3>2 DEF Held
  <2>2. Unread' = Unread + 1
    <3> DEFINE l == Len(log[Topic])
               f == Len(fetched)
    <3>1. l \in Nat /\ f \in Nat /\ position \in Nat
      BY TopicShape
    <3>2. Unread = l - (position - f) /\ Unread' = (l + 1) - (position - f)
      BY <1>1, <1>5, DeliverShape DEF Unread, Consumer!HandledUpTo
    <3> HIDE DEF l, f
    <3> QED BY ONLY <3>1, <3>2
  <2> QED BY <1>1, <1>3, <1>4, <2>1, <2>2, FeedbackShrinks
<1>6. CASE ExpireBuffered(Topic)
  <2>1. log' = log /\ buffered'[Topic] = <<>>
    BY <1>6, TopicShape DEF ExpireBuffered, TypeOK
  <2>2. Held' = 0 /\ Unread' = Unread
    BY <1>1, <2>1 DEF Held, Unread, Consumer!HandledUpTo
  <2> QED BY <1>1, <1>3, <1>4, <2>2, FeedbackShrinks
<1> QED BY <1>5, <1>6 DEF ProducerClient

LEMMA InitFeedback == Init => FeedbackInv
<1> SUFFICES ASSUME Init PROVE FeedbackInv
  OBVIOUS
<1>1. ProducingNow = {}
  BY DEF Init, ProducingNow, Idle
<1>2. IsFiniteSet({}) /\ Cardinality({}) = 0
  BY FS_EmptySet
<1>3. /\ log[Topic] = Seed /\ position = 0 /\ fetched = <<>>
      /\ recentCustomers = <<>> /\ buffered[Topic] = <<>>
  BY TopicShape, InitTypeOK DEF Init, Consumer!ConsumerInit
<1>4. Len(Seed) \in Nat
  BY LenProperties
<1>5. InFlight = Len(Seed)
  <2>1. Cardinality(ProducingNow) = 0
    BY <1>1, <1>2
  <2>2. Unread = Len(Seed) /\ Cached = 0 /\ Held = 0 /\ Working = 0
    BY <1>3, <1>4, <2>1 DEF Unread, Consumer!HandledUpTo, Cached, Held, Working
  <2> QED BY <1>4, <2>2, InFlightTerms
<1> QED BY <1>1, <1>2, <1>4, <1>5 DEF FeedbackInv, FeedbackDoesNotGrow

LEMMA NextFeedback == TypeOK /\ FeedbackInv /\ [Next]_vars => FeedbackInv'
<1> SUFFICES ASSUME TypeOK, FeedbackInv, [Next]_vars PROVE FeedbackInv'
  OBVIOUS
<1>1. ASSUME UNCHANGED <<producerVars, position, fetched, recentCustomers, crashes>>,
             \A g \in Goroutine : task'[g].at = "produce" <=> task[g].at = "produce"
      PROVE  FeedbackInv'
  <2>1. ProducingNow' = ProducingNow
    BY <1>1 DEF ProducingNow
  <2>2. Unread' = Unread /\ Cached' = Cached /\ Held' = Held /\ Working' = Working
    BY <1>1, <2>1 DEF producerVars, Unread, Consumer!HandledUpTo, Cached, Held, Working
  <2> QED BY <1>1, <2>1, <2>2, FeedbackUnmoved
<1>2. CASE CustomerRegistered
  BY <1>1, <1>2 DEF CustomerRegistered, consumerVars
<1>3. CASE Commit
  BY <1>1, <1>3 DEF Commit, Consumer!AutoCommit, serviceVars
<1>4. ASSUME NEW g \in Goroutine, NothingToPop(g) PROVE FeedbackInv'
  BY <1>1, <1>4 DEF NothingToPop, vars, consumerVars, serviceVars
<1>5. ASSUME NEW g \in Goroutine, CountProduced(g) PROVE FeedbackInv'
  BY <1>1, <1>5 DEF CountProduced, consumerVars, TypeOK, Idle
<1>6. CASE Crash
  <2>1. crashes' # 0 /\ ProducingNow' = {}
    BY <1>6 DEF Crash, ProducingNow, Idle, TypeOK
  <2> QED BY <2>1, FS_EmptySet DEF FeedbackInv, FeedbackDoesNotGrow
<1>7. CASE UNCHANGED vars
  BY <1>1, <1>7 DEF vars, consumerVars, serviceVars
<1> QED BY <1>2, <1>3, <1>4, <1>5, <1>6, <1>7, HandleKeepsFeedback, PollKeepsFeedback,
           CreateKeepsFeedback, ProduceKeepsFeedback, ClientKeepsFeedback
        DEF Next, Start, Impression, Continue

(* FeedbackDoesNotGrow: until the first crash the addresses unread, cached, *)
(* being produced or buffered never outnumber the records found at the      *)
(* start, whatever impressions, polls and lost deliveries do                *)
(* (address_service.go:129-139, 147-160, 187-199).                          *)
THEOREM FeedbackIsBounded == Spec => []FeedbackDoesNotGrow
<1>1. FeedbackInv => FeedbackDoesNotGrow
  BY DEF FeedbackInv
<1> QED BY <1>1, InitTypeOK, NextTypeOK, InitFeedback, NextFeedback, PTL DEF Spec

-----------------------------------------------------------------------------
(* One successor per address and process lifetime.                         *)

USE SeedAssumption

Producing(g) == task[g].at = "produce"
InSlice(id) == \E i \in DOMAIN recentCustomers : recentCustomers[i] = id
Named(id) == \E g \in Goroutine : Producing(g) /\ task[g].rec.value = id

(* Start has not come to the address in this lifetime.                     *)
Due(id) == ~ KnownIn(log[Topic], id, Consumer!HandledUpTo)

IsAddress(rec) == rec.value \in Decodable

(* No two addresses share an id, wherever they are.                        *)
KeysDistinct ==
  /\ \A i, j \in DOMAIN Pipe(Topic) :
       (/\ IsAddress(Pipe(Topic)[i]) /\ IsAddress(Pipe(Topic)[j])
        /\ Pipe(Topic)[i].key = Pipe(Topic)[j].key) => i = j
  /\ \A i \in DOMAIN Pipe(Topic) : Pipe(Topic)[i].key \in addressIds
  /\ \A g \in Goroutine : Producing(g) =>
       /\ task[g].rec.key \in addressIds
       /\ \A i \in DOMAIN Pipe(Topic) : Pipe(Topic)[i].key # task[g].rec.key
  /\ \A g, h \in Goroutine :
       Producing(g) /\ Producing(h) /\ task[g].rec.key = task[h].rec.key => g = h

(* In this lifetime the right to a successor is with the topic, or with    *)
(* one place of the slice, or with one goroutine, or is spent.             *)
HeldOnce ==
  /\ \A i, j \in DOMAIN recentCustomers :
       recentCustomers[i] = recentCustomers[j] => i = j
  /\ \A g, h \in Goroutine :
       Producing(g) /\ Producing(h) /\ task[g].rec.value = task[h].rec.value => g = h
  /\ \A id \in AddressId : InSlice(id) => ~ Due(id) /\ ~ Named(id)
  /\ \A id \in AddressId : Named(id) => ~ Due(id)

LostFor(id) == {r \in lost : r.value = id}
Spent(id) == Cardinality(Successors(id)) + Cardinality(LostFor(id))
Pending(id) == Due(id) \/ InSlice(id) \/ Named(id)

SuccessorsWithinLifetimes ==
  \A id \in AddressId :
    /\ IsFiniteSet(Successors(id)) /\ IsFiniteSet(LostFor(id))
    /\ Spent(id) <= 1 + crashes
    /\ Pending(id) => Spent(id) <= crashes

SuccessorInv ==
  /\ KeysDistinct /\ HeldOnce /\ SuccessorsWithinLifetimes
  /\ Len(Seed) <= Len(log[Topic])

LEMMA SuccessorsFollow == SuccessorInv => OneSuccessorPerLifetime
BY DEF SuccessorInv, SuccessorsWithinLifetimes, OneSuccessorPerLifetime, Spent, LostFor

(* The pipe of the one partition.                                          *)
LEMMA Records == TypeOK => RecordsIn(Record) /\ Topic \in Partition
BY DEF TypeOK, RecordsIn

LEMMA TopicPipe ==
  ASSUME TypeOK
  PROVE  /\ Pipe(Topic) \in Seq(Record)
         /\ Len(Pipe(Topic)) \in Nat /\ DOMAIN Pipe(Topic) = 1..Len(Pipe(Topic))
         /\ Len(log[Topic]) <= Len(Pipe(Topic))
         /\ \A i \in 1..Len(log[Topic]) :
              i \in DOMAIN Pipe(Topic) /\ Pipe(Topic)[i] = log[Topic][i]
<1> DEFINE l == log[Topic]
           b == buffered[Topic]
<1>1. l \in Seq(Record) /\ b \in Seq(Record)
  BY TopicShape
<1> HIDE DEF l, b
<1>2. /\ l \o b \in Seq(Record)
      /\ Len(l \o b) = Len(l) + Len(b)
      /\ \A i \in 1..Len(l) + Len(b) :
           (l \o b)[i] = IF i <= Len(l) THEN l[i] ELSE b[i - Len(l)]
  BY <1>1, ConcatProperties
<1>3. /\ Len(l) \in Nat /\ Len(b) \in Nat
      /\ Len(l \o b) \in Nat /\ DOMAIN (l \o b) = 1..Len(l \o b)
  BY <1>1, <1>2, LenProperties
<1>4. Len(l) <= Len(l \o b)
  BY <1>2, <1>3
<1>5. \A i \in 1..Len(l) : i \in DOMAIN (l \o b) /\ (l \o b)[i] = l[i]
  BY <1>2, <1>3
<1> QED BY <1>2, <1>3, <1>4, <1>5 DEF Pipe, l, b

(* What becomes of the records that fall out of a pipe: a lost record      *)
(* stands for at least one successor that is gone.                         *)
LEMMA MovedNotMore ==
  ASSUME NEW A, NEW B \in SUBSET A, IsFiniteSet(A), NEW f,
         NEW L, IsFiniteSet(L), NEW M \in SUBSET (L \cup {f[i] : i \in A \ B})
  PROVE  /\ IsFiniteSet(B) /\ IsFiniteSet(M)
         /\ Cardinality(B) + Cardinality(M) <= Cardinality(A) + Cardinality(L)
<1> DEFINE D == A \ B
           image == {f[i] : i \in D}
<1>1. IsFiniteSet(B) /\ IsFiniteSet(D)
  BY FS_Subset
<1>2. Cardinality(A) = Cardinality(B) + Cardinality(D)
  <2>1. A = B \cup D /\ B \cap D = {}
    OBVIOUS
  <2> HIDE DEF D
  <2>2. Cardinality(B \cup D) = Cardinality(B) + Cardinality(D) - Cardinality(B \cap D)
    BY ONLY <1>1, FS_Union
  <2>3. Cardinality(B \cap D) = 0 /\ Cardinality(B) \in Nat /\ Cardinality(D) \in Nat
    BY <1>1, <2>1, FS_EmptySet, FS_CardinalityType
  <2> QED BY ONLY <2>1, <2>2, <2>3
<1> HIDE DEF D
<1>3. IsFiniteSet(image) /\ Cardinality(image) <= Cardinality(D)
  <2>1. [i \in D |-> f[i]] \in Surjection(D, image)
    BY DEF Surjection
  <2> HIDE DEF image
  <2> QED BY ONLY <1>1, <2>1, FS_Surjection
<1>4. M \in SUBSET (L \cup image)
  BY DEF D
<1> HIDE DEF image
<1>5. /\ IsFiniteSet(L \cup image)
      /\ Cardinality(L \cup image)
           = Cardinality(L) + Cardinality(image) - Cardinality(L \cap image)
  BY ONLY <1>3, IsFiniteSet(L), FS_Union
<1>6. IsFiniteSet(M) /\ Cardinality(M) <= Cardinality(L \cup image)
  BY ONLY <1>4, <1>5, FS_Subset
<1>7. IsFiniteSet(L \cap image)
  BY ONLY IsFiniteSet(L), FS_Intersection
<1>8. /\ Cardinality(A) \in Nat /\ Cardinality(B) \in Nat /\ Cardinality(D) \in Nat
      /\ Cardinality(L) \in Nat /\ Cardinality(M) \in Nat
      /\ Cardinality(image) \in Nat /\ Cardinality(L \cap image) \in Nat
      /\ Cardinality(L \cup image) \in Nat
  BY <1>1, <1>3, <1>5, <1>6, <1>7, FS_CardinalityType
<1>9. Cardinality(M) <= Cardinality(L) + Cardinality(D)
  BY ONLY <1>3, <1>5, <1>6, <1>8
<1> QED BY ONLY <1>1, <1>2, <1>6, <1>8, <1>9

(* A step that produces nothing and loses nothing.                         *)
LEMMA KeepSuccessors ==
  ASSUME SuccessorInv, Pipe(Topic)' = Pipe(Topic), lost' = lost, crashes' = crashes,
         TypeOK, Len(log'[Topic]) \in Nat, Len(log[Topic]) <= Len(log'[Topic]),
         KeysDistinct', HeldOnce',
         \A id \in AddressId : Pending(id)' => Pending(id)
  PROVE  SuccessorInv'
<1>1. \A id : /\ Successors(id)' = Successors(id) /\ LostFor(id)' = LostFor(id)
              /\ Spent(id)' = Spent(id)
  BY DEF Successors, LostFor, Spent
<1>2. SuccessorsWithinLifetimes'
  BY <1>1 DEF SuccessorInv, SuccessorsWithinLifetimes
<1>3. Len(Seed) <= Len(log'[Topic])
  <2>1. Len(Seed) <= Len(log[Topic]) /\ Len(log[Topic]) \in Nat
    BY TopicShape DEF SuccessorInv
  <2> QED BY <2>1, SeedLength
<1> QED BY <1>2, <1>3 DEF SuccessorInv

LEMMA KeysKept ==
  ASSUME KeysDistinct, Pipe(Topic)' = Pipe(Topic), addressIds' = addressIds,
         \A g \in Goroutine : task'[g].at = "produce" => task'[g] = task[g]
  PROVE  KeysDistinct'
BY DEF KeysDistinct, Producing

LEMMA HoldersKept ==
  ASSUME HeldOnce, recentCustomers' = recentCustomers,
         \A g \in Goroutine : task'[g].at = "produce" => task'[g] = task[g],
         \A id \in AddressId : Due(id)' => Due(id)
  PROVE  /\ HeldOnce'
         /\ \A id \in AddressId : Pending(id)' => Pending(id)
<1>1. \A id : (InSlice(id)' => InSlice(id)) /\ (Named(id)' => Named(id))
  BY DEF InSlice, Named, Producing
<1> QED BY <1>1 DEF HeldOnce, Pending, Producing

(* A step that neither starts to produce nor moves the slice or the topic. *)
LEMMA QuietSuccessors ==
  ASSUME TypeOK, SuccessorInv, UNCHANGED <<producerVars, recentCustomers, addressIds, crashes>>,
         \A g \in Goroutine : task'[g].at = "produce" => task'[g] = task[g],
         Consumer!HandledUpTo' = Consumer!HandledUpTo
  PROVE  SuccessorInv'
<1>1. /\ log' = log /\ lost' = lost /\ Pipe(Topic)' = Pipe(Topic)
      /\ Len(log[Topic]) \in Nat
  BY TopicShape DEF producerVars, Pipe
<1>2. \A id \in AddressId : Due(id)' => Due(id)
  BY <1>1 DEF Due, KnownIn
<1>3. KeysDistinct'
  BY <1>1, KeysKept DEF SuccessorInv
<1>4. HeldOnce' /\ \A id \in AddressId : Pending(id)' => Pending(id)
  BY <1>2, HoldersKept DEF SuccessorInv
<1> QED BY <1>1, <1>3, <1>4, KeepSuccessors

(* How far the loop has come lies within the topic.                        *)
LEMMA HandledShape ==
  ASSUME TypeOK
  PROVE  /\ Consumer!HandledUpTo \in Nat
         /\ Consumer!HandledUpTo + Len(fetched) = position
         /\ Consumer!HandledUpTo <= Len(log[Topic])
<1> DEFINE f == Len(fetched)
           l == Len(log[Topic])
<1>1. f \in Nat /\ l \in Nat /\ position \in 0..l /\ f <= position
  BY TopicShape DEF TypeOK
<1> HIDE DEF f, l
<1>2. position - f \in Nat /\ (position - f) + f = position
  BY ONLY <1>1
<1>3. position - f <= l
  BY ONLY <1>1
<1> QED BY <1>2, <1>3 DEF Consumer!HandledUpTo, f, l

LEMMA DeliverKeepsSuccessors ==
  ASSUME TypeOK, SuccessorInv, Deliver(Topic), UNCHANGED <<consumerVars, serviceVars>>
  PROVE  SuccessorInv'
<1>1. /\ Pipe(Topic)' = Pipe(Topic) /\ lost' = lost
  BY Records, PipeDeliver DEF Deliver
<1>2. /\ Len(log[Topic]) \in Nat /\ Len(log'[Topic]) = Len(log[Topic]) + 1
      /\ \A i \in 1..Len(log[Topic]) : log'[Topic][i] = log[Topic][i]
  BY DeliverShape, TopicShape
<1>3. Consumer!HandledUpTo' = Consumer!HandledUpTo
  BY DEF consumerVars, Consumer!HandledUpTo
<1>4. \A id \in AddressId : Due(id)' => Due(id)
  <2> DEFINE h == Consumer!HandledUpTo
             l == Len(log[Topic])
  <2>1. h \in Nat /\ h <= l /\ l \in Nat
    BY HandledShape, TopicShape
  <2> HIDE DEF h, l
  <2>2. \A i \in 1..h : i \in 1..l
    BY ONLY <2>1
  <2>3. \A i \in 1..h : log'[Topic][i] = log[Topic][i]
    BY <1>2, <2>2 DEF l
  <2> QED BY <1>3, <2>3 DEF Due, KnownIn, h
<1>5. KeysDistinct'
  BY <1>1, KeysKept DEF SuccessorInv, serviceVars
<1>6. HeldOnce' /\ \A id \in AddressId : Pending(id)' => Pending(id)
  BY <1>4, HoldersKept DEF SuccessorInv, serviceVars
<1>7. Len(log'[Topic]) \in Nat /\ Len(log[Topic]) <= Len(log'[Topic])
  BY <1>2
<1>8. crashes' = crashes
  BY DEF serviceVars
<1> QED BY <1>1, <1>5, <1>6, <1>7, <1>8, KeepSuccessors

(* Start comes to the address: the right moves into the slice, or is lost  *)
(* where the slice is full.                                                *)
LEMMA HandleKeepsSuccessors ==
  ASSUME TypeOK, AddressesFromAddresses, SuccessorInv, HandleRecord
  PROVE  SuccessorInv'
<1> DEFINE h == Consumer!HandledUpTo
           rec == log[Topic][h + 1]
<1>1. /\ fetched # <<>> /\ fetched' = Tail(fetched) /\ position' = position
      /\ log' = log /\ buffered' = buffered /\ lost' = lost /\ task' = task
      /\ addressIds' = addressIds /\ crashes' = crashes
  BY DEF HandleRecord, Consumer!NextRecord, producerVars
<1>2. /\ Len(fetched) \in Nat \ {0} /\ Len(fetched') = Len(fetched) - 1
      /\ Head(fetched) = fetched[1] /\ 1 \in DOMAIN fetched /\ Head(fetched) \in Record
  BY <1>1, TopicShape, HeadTailProperties, LenProperties, EmptySeq
<1>3. Consumer!HandledUpTo' = h + 1 /\ h \in Nat /\ h + 1 \in 1..Len(log[Topic])
  <2> DEFINE f == Len(fetched)
  <2>1. f \in Nat \ {0} /\ position \in Nat /\ Len(log[Topic]) \in Nat
        /\ position \in 0..Len(log[Topic])
    BY <1>2, TopicShape DEF TypeOK
  <2>2. h + f = position /\ h \in Nat
    BY HandledShape
  <2>3. Consumer!HandledUpTo' = position - (f - 1)
    BY <1>1, <1>2 DEF Consumer!HandledUpTo
  <2> HIDE DEF f, h
  <2>4. position - (f - 1) = h + 1 /\ h + 1 <= position
    BY ONLY <2>1, <2>2
  <2> QED BY <2>1, <2>2, <2>3, <2>4
<1>4. Head(fetched) = rec
  BY <1>2, Unfold DEF FetchedFromTopic
<1>5. Pipe(Topic)' = Pipe(Topic) /\ Len(log[Topic]) \in Nat /\ Len(log'[Topic]) = Len(log[Topic])
  BY <1>1, TopicShape DEF Pipe
<1> HIDE DEF h, rec
<1>6. \A id : KnownIn(log[Topic], id, h + 1) <=>
              KnownIn(log[Topic], id, h) \/ (rec.key = id /\ IsAddress(rec))
  <2>1. \A j : j \in 1..(h + 1) <=> j \in 1..h \/ j = h + 1
    BY <1>3
  <2> QED BY <2>1 DEF KnownIn, rec, IsAddress
<1>7. \A id \in AddressId :
        Due(id)' <=> Due(id) /\ ~ (rec.key = id /\ IsAddress(rec))
  BY <1>1, <1>3, <1>6 DEF Due, h
<1>8. ASSUME IsAddress(rec)
      PROVE  Due(rec.key)
  <2> SUFFICES ASSUME NEW j \in 1..h, log[Topic][j].key = rec.key,
                      log[Topic][j].value \in Decodable
               PROVE  FALSE
    BY DEF Due, KnownIn, h
  <2>1. j \in 1..Len(log[Topic]) /\ h + 1 \in 1..Len(log[Topic]) /\ j # h + 1
    BY <1>3, <1>5
  <2>2. /\ j \in DOMAIN Pipe(Topic) /\ Pipe(Topic)[j] = log[Topic][j]
        /\ h + 1 \in DOMAIN Pipe(Topic) /\ Pipe(Topic)[h + 1] = rec
    BY <2>1, TopicPipe DEF rec
  <2> QED BY <1>8, <2>1, <2>2 DEF SuccessorInv, KeysDistinct, IsAddress
<1>9. KeysDistinct'
  BY <1>1, <1>5, KeysKept DEF SuccessorInv
<1>10. \A id : Named(id)' <=> Named(id)
  BY <1>1 DEF Named, Producing
<1>11. CASE recentCustomers' = recentCustomers
  <2>1. HeldOnce' /\ \A id \in AddressId : Pending(id)' => Pending(id)
    BY <1>1, <1>7, <1>11, HoldersKept DEF SuccessorInv
  <2> QED BY <1>1, <1>5, <1>9, <2>1, KeepSuccessors
<1>12. CASE IsAddress(rec) /\ recentCustomers' = Append(recentCustomers, rec.key)
  <2> DEFINE c == recentCustomers
             n == Len(recentCustomers)
  <2>1. rec.key \in AddressId
    BY <1>2, <1>4, RecordFields
  <2>2. /\ n \in Nat /\ DOMAIN c = 1..n /\ DOMAIN recentCustomers' = 1..(n + 1)
        /\ \A i \in 1..n : recentCustomers'[i] = c[i]
        /\ recentCustomers'[n + 1] = rec.key
    BY <1>12, <2>1, TopicShape, AppendShape
  <2> HIDE DEF n
  <2>3. \A i \in DOMAIN recentCustomers' :
          \/ i \in DOMAIN c /\ recentCustomers'[i] = c[i]
          \/ i = n + 1 /\ recentCustomers'[i] = rec.key
    BY <2>2
  <2>4. \A id : InSlice(id)' => InSlice(id) \/ id = rec.key
    BY <2>3 DEF InSlice
  <2>5. /\ Due(rec.key) /\ ~ InSlice(rec.key) /\ ~ Named(rec.key)
    BY <1>8, <1>12, <2>1 DEF SuccessorInv, HeldOnce
  <2>6. \A i, j \in DOMAIN recentCustomers' :
          recentCustomers'[i] = recentCustomers'[j] => i = j
    <3>1. \A i \in DOMAIN c : c[i] # rec.key
      BY <2>5 DEF InSlice
    <3>2. \A i, j \in DOMAIN c : c[i] = c[j] => i = j
      BY DEF SuccessorInv, HeldOnce
    <3> HIDE DEF c
    <3> QED BY <2>3, <3>1, <3>2
  <2>7. \A id \in AddressId : InSlice(id)' => ~ Due(id)' /\ ~ Named(id)'
    BY <1>7, <1>10, <1>12, <2>4, <2>5 DEF SuccessorInv, HeldOnce
  <2>8. \A id \in AddressId : Named(id)' => ~ Due(id)'
    BY <1>7, <1>10 DEF SuccessorInv, HeldOnce
  <2>9. \A i, j \in Goroutine :
          task'[i].at = "produce" /\ task'[j].at = "produce"
          /\ task'[i].rec.value = task'[j].rec.value => i = j
    BY <1>1 DEF SuccessorInv, HeldOnce, Producing
  <2>10. HeldOnce'
    BY <2>6, <2>7, <2>8, <2>9 DEF HeldOnce, Producing
  <2>11. \A id \in AddressId : Pending(id)' => Pending(id)
    BY <1>7, <1>10, <2>4, <2>5 DEF Pending
  <2> QED BY <1>1, <1>5, <1>9, <2>10, <2>11, KeepSuccessors
<1> QED BY <1>4, <1>11, <1>12 DEF HandleRecord, Remember, IsAddress

(* The right leaves the slice with the goroutine that popped it.           *)
LEMMA CreateKeepsSuccessors ==
  ASSUME TypeOK, SuccessorInv, NEW g \in Goroutine, CreateAddress(g)
  PROVE  SuccessorInv'
<1> DEFINE c == recentCustomers
           first == Head(recentCustomers)
           fresh == FreshId
<1>1. /\ log' = log /\ buffered' = buffered /\ lost' = lost
      /\ UNCHANGED <<position, fetched, crashes>>
      /\ c # <<>> /\ recentCustomers' = Tail(c)
      /\ task[g] = Idle
      /\ task' = [task EXCEPT ![g] =
                    [at |-> "produce", rec |-> [key |-> fresh, value |-> first]]]
      /\ addressIds' = addressIds \cup {fresh} /\ addressIds # AddressId
  BY DEF CreateAddress, producerVars, consumerVars
<1>2. fresh \notin addressIds
  <2>1. \E id \in AddressId : id \notin addressIds
    BY <1>1 DEF TypeOK
  <2> QED BY <2>1 DEF FreshId
<1>3. /\ first = c[1] /\ 1 \in DOMAIN c /\ first \in AddressId
      /\ \A i \in DOMAIN recentCustomers' :
           i \in Nat \ {0} /\ i + 1 \in DOMAIN c /\ recentCustomers'[i] = c[i + 1]
  BY <1>1, TopicShape, TailShape
<1>4. /\ task'[g].at = "produce"
      /\ task'[g].rec.key = fresh /\ task'[g].rec.value = first
      /\ \A k \in Goroutine : k # g => task'[k] = task[k]
      /\ ~ Producing(g)
  BY <1>1 DEF TypeOK, Producing, Idle
<1>5. /\ Pipe(Topic)' = Pipe(Topic) /\ Consumer!HandledUpTo' = Consumer!HandledUpTo
      /\ Len(log[Topic]) \in Nat /\ Len(log[Topic]) <= Len(log'[Topic])
      /\ Len(log'[Topic]) \in Nat
  BY <1>1, TopicShape DEF Pipe, Consumer!HandledUpTo
<1>6. \A id : Due(id)' <=> Due(id)
  BY <1>1, <1>5 DEF Due, KnownIn
<1> HIDE DEF first, fresh
<1>7. KeysDistinct'
  <2>1. \A i \in DOMAIN Pipe(Topic) : Pipe(Topic)[i].key \in addressIds
    BY DEF SuccessorInv, KeysDistinct
  <2>2. \A k \in Goroutine : Producing(k) => task[k].rec.key \in addressIds
    BY DEF SuccessorInv, KeysDistinct
  <2>3. ASSUME NEW k \in Goroutine, task'[k].at = "produce"
        PROVE  /\ task'[k].rec.key \in addressIds'
               /\ \A i \in DOMAIN Pipe(Topic) : Pipe(Topic)[i].key # task'[k].rec.key
    BY <1>1, <1>2, <1>4, <2>1, <2>3 DEF SuccessorInv, KeysDistinct, Producing
  <2>4. ASSUME NEW j \in Goroutine, NEW k \in Goroutine,
               task'[j].at = "produce", task'[k].at = "produce",
               task'[j].rec.key = task'[k].rec.key
        PROVE  j = k
    <3>1. CASE j # g /\ k # g
      BY <1>4, <2>4, <3>1 DEF SuccessorInv, KeysDistinct, Producing
    <3>2. CASE j = g /\ k # g
      BY <1>2, <1>4, <2>2, <2>4, <3>2 DEF Producing
    <3>3. CASE j # g /\ k = g
      BY <1>2, <1>4, <2>2, <2>4, <3>3 DEF Producing
    <3> QED BY <3>1, <3>2, <3>3
  <2>5. /\ \A i, j \in DOMAIN Pipe(Topic) :
             (/\ IsAddress(Pipe(Topic)[i]) /\ IsAddress(Pipe(Topic)[j])
              /\ Pipe(Topic)[i].key = Pipe(Topic)[j].key) => i = j
        /\ \A i \in DOMAIN Pipe(Topic) : Pipe(Topic)[i].key \in addressIds'
    BY <1>1, <2>1 DEF SuccessorInv, KeysDistinct
  <2> QED BY <1>5, <2>3, <2>4, <2>5 DEF KeysDistinct, Producing, IsAddress
<1>8. \A id : Named(id)' => Named(id) \/ id = first
  BY <1>4 DEF Named, Producing
<1>9. /\ \A i, j \in DOMAIN c : c[i] = c[j] => i = j
      /\ InSlice(first) /\ ~ Due(first) /\ ~ Named(first)
  BY <1>3 DEF SuccessorInv, HeldOnce, InSlice
<1>10. \A id : InSlice(id)' => InSlice(id) /\ id # first
  <2> SUFFICES ASSUME NEW i \in DOMAIN recentCustomers'
               PROVE  InSlice(recentCustomers'[i]) /\ recentCustomers'[i] # first
    BY DEF InSlice
  <2>1. i + 1 \in DOMAIN c /\ recentCustomers'[i] = c[i + 1] /\ i + 1 # 1
    BY <1>3
  <2> QED BY <1>3, <1>9, <2>1 DEF InSlice
<1>11. HeldOnce'
  <2>1. \A i, j \in DOMAIN recentCustomers' :
          recentCustomers'[i] = recentCustomers'[j] => i = j
    <3> SUFFICES ASSUME NEW i \in DOMAIN recentCustomers', NEW j \in DOMAIN recentCustomers',
                        recentCustomers'[i] = recentCustomers'[j]
                 PROVE  i = j
      OBVIOUS
    <3>1. i + 1 = j + 1
      BY <1>3, <1>9
    <3> QED BY <1>3, <3>1
  <2>2. ASSUME NEW j \in Goroutine, NEW k \in Goroutine,
               task'[j].at = "produce", task'[k].at = "produce",
               task'[j].rec.value = task'[k].rec.value
        PROVE  j = k
    <3>1. CASE j # g /\ k # g
      BY <1>4, <2>2, <3>1 DEF SuccessorInv, HeldOnce, Producing
    <3>2. CASE j = g /\ k # g
      BY <1>4, <1>9, <2>2, <3>2 DEF Named, Producing
    <3>3. CASE j # g /\ k = g
      BY <1>4, <1>9, <2>2, <3>3 DEF Named, Producing
    <3> QED BY <3>1, <3>2, <3>3
  <2>3. \A id \in AddressId : InSlice(id)' => ~ Due(id)' /\ ~ Named(id)'
    BY <1>6, <1>8, <1>10 DEF SuccessorInv, HeldOnce
  <2>4. \A id \in AddressId : Named(id)' => ~ Due(id)'
    BY <1>6, <1>8, <1>9 DEF SuccessorInv, HeldOnce
  <2> QED BY <2>1, <2>2, <2>3, <2>4 DEF HeldOnce, Producing
<1>12. \A id \in AddressId : Pending(id)' => Pending(id)
  BY <1>6, <1>8, <1>9, <1>10 DEF Pending
<1> QED BY <1>1, <1>5, <1>7, <1>11, <1>12, KeepSuccessors

(* The right is spent.                                                     *)
LEMMA ProduceKeepsSuccessors ==
  ASSUME TypeOK, SuccessorInv, NEW g \in Goroutine, ProduceAddress(g)
  PROVE  SuccessorInv'
<1> DEFINE pipe == Pipe(Topic)
           n == Len(Pipe(Topic))
           rec == task[g].rec
<1>1. /\ Producing(g) /\ Produce(Topic, rec)
      /\ task' = [task EXCEPT ![g].at = "count"]
      /\ log' = log /\ lost' = lost
      /\ UNCHANGED <<position, fetched, recentCustomers, addressIds, crashes>>
  BY DEF ProduceAddress, Producing, Produce, consumerVars
<1>2. rec \in Record /\ rec.key \in AddressId
  <2>1. rec \in Record
    BY <1>1 DEF TypeOK, Producing, Idle, Busy
  <2> QED BY <2>1, RecordFields
<1>3. Pipe(Topic)' = Append(pipe, rec)
  BY <1>1, <1>2, Records, PipeProduce
<1>4. /\ pipe \in Seq(Record) /\ n \in Nat /\ DOMAIN pipe = 1..n
      /\ DOMAIN Pipe(Topic)' = 1..(n + 1)
      /\ \A i \in 1..n : Pipe(Topic)'[i] = pipe[i]
      /\ Pipe(Topic)'[n + 1] = rec
  <2>1. pipe \in Seq(Record) /\ n \in Nat /\ DOMAIN pipe = 1..n
    BY TopicPipe
  <2> HIDE DEF pipe
  <2>2. /\ DOMAIN Append(pipe, rec) = 1..(Len(pipe) + 1)
        /\ \A i \in 1..Len(pipe) : Append(pipe, rec)[i] = pipe[i]
        /\ Append(pipe, rec)[Len(pipe) + 1] = rec
    BY ONLY <1>2, <2>1, AppendShape
  <2> QED BY <1>3, <2>1, <2>2 DEF pipe
<1>5. /\ task'[g].at = "count"
      /\ \A k \in Goroutine : k # g => task'[k] = task[k]
  BY <1>1 DEF TypeOK, Producing, Idle, Busy
<1>6. \A id : (Due(id)' <=> Due(id)) /\ (InSlice(id)' <=> InSlice(id))
  BY <1>1 DEF Due, KnownIn, InSlice, Consumer!HandledUpTo
<1>7. \A id : (Named(id)' => Named(id)) /\ (Named(id)' => id # rec.value)
  <2>1. ASSUME NEW k \in Goroutine, task'[k].at = "produce"
        PROVE  Producing(k) /\ task'[k] = task[k] /\ task[k].rec.value # rec.value
    <3>1. k # g
      BY <1>5, <2>1
    <3> QED BY <1>1, <1>5, <2>1, <3>1 DEF SuccessorInv, HeldOnce, Producing
  <2> QED BY <2>1 DEF Named, Producing
<1> HIDE DEF pipe, n, rec
<1>8. KeysDistinct'
  <2>1. ASSUME NEW i \in 1..(n + 1), NEW j \in 1..(n + 1),
               IsAddress(Pipe(Topic)'[i]), IsAddress(Pipe(Topic)'[j]),
               Pipe(Topic)'[i].key = Pipe(Topic)'[j].key
        PROVE  i = j
    <3>1. \A k \in 1..n : pipe[k].key # rec.key
      BY <1>1, <1>4 DEF SuccessorInv, KeysDistinct, pipe, rec
    <3>2. CASE i \in 1..n /\ j \in 1..n
      BY <1>4, <2>1, <3>2 DEF SuccessorInv, KeysDistinct, IsAddress, pipe
    <3>3. CASE i = n + 1 /\ j \in 1..n
      BY <1>4, <2>1, <3>1, <3>3
    <3>4. CASE i \in 1..n /\ j = n + 1
      BY <1>4, <2>1, <3>1, <3>4
    <3> QED BY <1>4, <3>2, <3>3, <3>4
  <2>2. ASSUME NEW i \in 1..(n + 1)
        PROVE  Pipe(Topic)'[i].key \in addressIds
    <3>1. rec.key \in addressIds /\ \A k \in 1..n : pipe[k].key \in addressIds
      BY <1>1, <1>4 DEF SuccessorInv, KeysDistinct, pipe, rec
    <3> QED BY <1>4, <3>1
  <2>3. ASSUME NEW k \in Goroutine, task'[k].at = "produce"
        PROVE  /\ k # g /\ task'[k] = task[k] /\ Producing(k)
               /\ task[k].rec.key \in addressIds
               /\ \A i \in 1..(n + 1) : Pipe(Topic)'[i].key # task[k].rec.key
    <3>1. k # g /\ task'[k] = task[k] /\ Producing(k)
      BY <1>5, <2>3 DEF Producing
    <3>2. rec.key # task[k].rec.key
      BY <1>1, <3>1 DEF SuccessorInv, KeysDistinct, rec
    <3>3. /\ task[k].rec.key \in addressIds
          /\ \A i \in 1..n : pipe[i].key # task[k].rec.key
      BY <1>4, <3>1 DEF SuccessorInv, KeysDistinct, pipe
    <3> QED BY <1>4, <3>1, <3>2, <3>3
  <2>4. ASSUME NEW j \in Goroutine, NEW k \in Goroutine,
               task'[j].at = "produce", task'[k].at = "produce",
               task'[j].rec.key = task'[k].rec.key
        PROVE  j = k
    BY <2>3, <2>4 DEF SuccessorInv, KeysDistinct
  <2> QED BY <1>1, <1>4, <2>1, <2>2, <2>3, <2>4 DEF KeysDistinct, Producing, IsAddress
<1>9. HeldOnce'
  <2>1. \A j, k \in Goroutine :
          task'[j].at = "produce" /\ task'[k].at = "produce"
          /\ task'[j].rec.value = task'[k].rec.value => j = k
    BY <1>5 DEF SuccessorInv, HeldOnce, Producing
  <2> QED BY <1>1, <1>6, <1>7, <2>1 DEF SuccessorInv, HeldOnce, Producing
<1>10. ASSUME NEW id \in AddressId
       PROVE  /\ IsFiniteSet(Successors(id)') /\ IsFiniteSet(LostFor(id)')
              /\ Spent(id)' <= 1 + crashes
              /\ Pending(id)' => Spent(id)' <= crashes
  <2> DEFINE S == Successors(id)
             L == LostFor(id)
  <2>1. /\ IsFiniteSet(S) /\ IsFiniteSet(L) /\ Spent(id) <= 1 + crashes
        /\ Pending(id) => Spent(id) <= crashes
    BY DEF SuccessorInv, SuccessorsWithinLifetimes
  <2>2. L' = L
    BY <1>1 DEF LostFor
  <2>3. S' = S \/ (S' = S \cup {n + 1} /\ rec.value = id)
    BY <1>4 DEF Successors, pipe
  <2>4. Cardinality(S) \in Nat /\ Cardinality(L) \in Nat /\ crashes \in Nat
    BY <2>1, FS_CardinalityType DEF TypeOK
  <2>5. /\ Spent(id) = Cardinality(S) + Cardinality(L)
        /\ Spent(id)' = Cardinality(S') + Cardinality(L')
    BY DEF Spent
  <2>6. Pending(id)' => Pending(id)
    BY <1>6, <1>7 DEF Pending
  <2> HIDE DEF S, L
  <2>7. CASE S' = S
    BY <2>1, <2>2, <2>5, <2>6, <2>7 DEF S, L
  <2>8. CASE S' = S \cup {n + 1} /\ rec.value = id
    <3>1. Named(id)
      BY <1>1, <2>8 DEF Named, rec
    <3>2. ~ Pending(id)' /\ Pending(id)
      BY <1>6, <1>7, <2>8, <3>1 DEF Pending, SuccessorInv, HeldOnce
    <3>3. IsFiniteSet(S \cup {n + 1}) /\ Cardinality(S \cup {n + 1}) <= Cardinality(S) + 1
          /\ Cardinality(S \cup {n + 1}) \in Nat
      <4>1. /\ IsFiniteSet(S \cup {n + 1})
            /\ Cardinality(S \cup {n + 1})
                 = IF n + 1 \in S THEN Cardinality(S) ELSE Cardinality(S) + 1
        BY ONLY <2>1, FS_AddElement
      <4> QED BY ONLY <2>4, <4>1
    <3>4. Spent(id)' <= 1 + crashes
      <4>1. Spent(id) <= crashes
        BY <2>1, <3>2
      <4> QED BY ONLY <2>2, <2>4, <2>5, <2>8, <3>3, <4>1
    <3> QED BY <2>1, <2>2, <2>8, <3>2, <3>3, <3>4 DEF S, L
  <2> QED BY <2>3, <2>7, <2>8
<1>11. SuccessorsWithinLifetimes'
  BY <1>1, <1>10 DEF SuccessorsWithinLifetimes
<1> QED BY <1>1, <1>8, <1>9, <1>11 DEF SuccessorInv

(* The client drops what it holds.                                         *)
Dropped ==
  /\ log' = log /\ buffered'[Topic] = <<>>
  /\ lost' = lost \cup Range(buffered[Topic])

LEMMA DroppedPipe ==
  ASSUME TypeOK, Dropped
  PROVE  /\ Pipe(Topic)' = log[Topic]
         /\ \A i \in DOMAIN Pipe(Topic)' :
              i \in DOMAIN Pipe(Topic) /\ Pipe(Topic)'[i] = Pipe(Topic)[i]
<1>1. Pipe(Topic)' = log[Topic]
  <2>1. log[Topic] \in Seq(Record)
    BY TopicShape
  <2> QED BY <2>1, ConcatEmptySeq DEF Dropped, Pipe
<1> QED BY <1>1, TopicShape, TopicPipe

(* A lost record takes the place of a successor that is gone.              *)
LEMMA DroppedSpends ==
  ASSUME TypeOK, SuccessorInv, Dropped, NEW id \in AddressId
  PROVE  /\ IsFiniteSet(Successors(id)') /\ IsFiniteSet(LostFor(id)')
         /\ Spent(id)' <= Spent(id) /\ Spent(id) \in Nat /\ Spent(id)' \in Nat
<1> DEFINE A == Successors(id)
           B == Successors(id)'
           L == LostFor(id)
           M == LostFor(id)'
           pipe == Pipe(Topic)
<1>1. IsFiniteSet(A) /\ IsFiniteSet(L)
  BY DEF SuccessorInv, SuccessorsWithinLifetimes
<1>2. B \in SUBSET A
  BY DroppedPipe DEF Successors
<1>3. M \in SUBSET (L \cup {pipe[i] : i \in A \ B})
  <2> SUFFICES ASSUME NEW r \in Range(buffered[Topic]), r.value = id
               PROVE  \E i \in A \ B : pipe[i] = r
    BY DEF Dropped, LostFor
  <2>1. PICK i \in DOMAIN Pipe(Topic) \ DOMAIN log[Topic] : Pipe(Topic)[i] = r
    BY Records, PipeShape
  <2>2. i > Len(Seed)
    <3>1. Len(Seed) <= Len(log[Topic])
      BY DEF SuccessorInv
    <3>2. i \in Nat \ {0} /\ i \notin 1..Len(log[Topic]) /\ Len(log[Topic]) \in Nat
      BY <2>1, TopicPipe, TopicShape
    <3> QED BY ONLY <3>1, <3>2, SeedLength
  <2>3. i \in A
    BY <2>1, <2>2 DEF Successors
  <2>4. i \notin B
    BY <2>1, DroppedPipe DEF Successors
  <2> QED BY <2>1, <2>3, <2>4
<1>4. Spent(id) = Cardinality(A) + Cardinality(L) /\ Spent(id)' = Cardinality(B) + Cardinality(M)
  BY DEF Spent
<1> HIDE DEF A, B, L, M, pipe
<1>5. /\ IsFiniteSet(B) /\ IsFiniteSet(M)
      /\ Cardinality(B) + Cardinality(M) <= Cardinality(A) + Cardinality(L)
  BY ONLY <1>1, <1>2, <1>3, MovedNotMore
<1>6. /\ Cardinality(A) \in Nat /\ Cardinality(B) \in Nat
      /\ Cardinality(L) \in Nat /\ Cardinality(M) \in Nat
  BY ONLY <1>1, <1>5, FS_CardinalityType
<1>7. Spent(id)' <= Spent(id)
  BY ONLY <1>4, <1>5, <1>6
<1>8. Spent(id) \in Nat /\ Spent(id)' \in Nat
  BY ONLY <1>4, <1>6
<1> QED BY <1>5, <1>7, <1>8 DEF B, M

LEMMA DroppedKeys ==
  ASSUME TypeOK, SuccessorInv, Dropped, addressIds' = addressIds,
         \A g \in Goroutine : task'[g].at = "produce" => task'[g] = task[g]
  PROVE  KeysDistinct' /\ Len(Seed) <= Len(log'[Topic])
<1>1. \A i \in DOMAIN Pipe(Topic)' :
        i \in DOMAIN Pipe(Topic) /\ Pipe(Topic)'[i] = Pipe(Topic)[i]
  BY DroppedPipe
<1>2. KeysDistinct'
  BY <1>1 DEF SuccessorInv, KeysDistinct, Producing, IsAddress
<1> QED BY <1>2 DEF SuccessorInv, Dropped

LEMMA ExpireKeepsSuccessors ==
  ASSUME TypeOK, SuccessorInv, ExpireBuffered(Topic), UNCHANGED <<consumerVars, serviceVars>>
  PROVE  SuccessorInv'
<1>1. Dropped
  BY TopicShape DEF ExpireBuffered, Dropped, TypeOK
<1>2. \A id \in AddressId : Due(id)' => Due(id)
  BY <1>1 DEF Dropped, consumerVars, Due, KnownIn, Consumer!HandledUpTo
<1>3. HeldOnce' /\ \A id \in AddressId : Pending(id)' => Pending(id)
  BY <1>2, HoldersKept DEF SuccessorInv, serviceVars
<1>4. KeysDistinct' /\ Len(Seed) <= Len(log'[Topic])
  BY <1>1, DroppedKeys DEF serviceVars
<1>5. crashes' = crashes /\ crashes \in Nat
  BY DEF serviceVars, TypeOK
<1>6. ASSUME NEW id \in AddressId
      PROVE  /\ IsFiniteSet(Successors(id)') /\ IsFiniteSet(LostFor(id)')
             /\ Spent(id)' <= 1 + crashes
             /\ Pending(id)' => Spent(id)' <= crashes
  <2>1. /\ Spent(id) <= 1 + crashes
        /\ Pending(id)' => Spent(id) <= crashes
    BY <1>3 DEF SuccessorInv, SuccessorsWithinLifetimes
  <2>2. /\ IsFiniteSet(Successors(id)') /\ IsFiniteSet(LostFor(id)')
        /\ Spent(id)' <= Spent(id) /\ Spent(id) \in Nat /\ Spent(id)' \in Nat
    BY <1>1, DroppedSpends
  <2>3. Spent(id)' <= 1 + crashes
    BY ONLY <1>5, <2>1, <2>2
  <2>4. ASSUME Spent(id) <= crashes PROVE Spent(id)' <= crashes
    BY ONLY <1>5, <2>2, <2>4
  <2> QED BY <2>1, <2>2, <2>3, <2>4
<1> QED BY <1>3, <1>4, <1>5, <1>6 DEF SuccessorInv, SuccessorsWithinLifetimes

(* A new lifetime: the group may read again what it had not committed.     *)
LEMMA CrashKeepsSuccessors ==
  ASSUME TypeOK, SuccessorInv, Crash
  PROVE  SuccessorInv'
<1>1. Dropped
  BY DEF Crash, LoseBuffered, Dropped
<1>2. /\ crashes' = crashes + 1 /\ crashes \in Nat
      /\ recentCustomers' = <<>> /\ addressIds' = addressIds
      /\ \A g \in Goroutine : task'[g].at # "produce"
  BY DEF Crash, TypeOK, Idle
<1>3. \A id : ~ InSlice(id)' /\ ~ Named(id)'
  BY <1>2 DEF InSlice, Named, Producing
<1>4. HeldOnce'
  BY <1>2, <1>3 DEF HeldOnce, Producing
<1>5. KeysDistinct' /\ Len(Seed) <= Len(log'[Topic])
  BY <1>1, <1>2, DroppedKeys
<1>6. ASSUME NEW id \in AddressId
      PROVE  /\ IsFiniteSet(Successors(id)') /\ IsFiniteSet(LostFor(id)')
             /\ Spent(id)' <= crashes + 1 /\ Spent(id)' <= 1 + (crashes + 1)
  <2>1. Spent(id) <= 1 + crashes
    BY DEF SuccessorInv, SuccessorsWithinLifetimes
  <2>2. /\ IsFiniteSet(Successors(id)') /\ IsFiniteSet(LostFor(id)')
        /\ Spent(id)' <= Spent(id) /\ Spent(id) \in Nat /\ Spent(id)' \in Nat
    BY <1>1, DroppedSpends
  <2>3. Spent(id)' <= crashes + 1 /\ Spent(id)' <= 1 + (crashes + 1)
    BY ONLY <1>2, <2>1, <2>2
  <2> QED BY <2>2, <2>3
<1> QED BY <1>2, <1>4, <1>5, <1>6 DEF SuccessorInv, SuccessorsWithinLifetimes

LEMMA InitSuccessors == Init => SuccessorInv
<1> SUFFICES ASSUME Init PROVE SuccessorInv
  OBVIOUS
<1>1. /\ log[Topic] = Seed /\ buffered[Topic] = <<>> /\ lost = {}
      /\ recentCustomers = <<>> /\ addressIds = KeysOf(Seed) /\ crashes = 0
      /\ \A g \in Goroutine : task[g].at # "produce"
  BY DEF Init, Idle
<1>2. Pipe(Topic) = Seed
  BY <1>1, ConcatEmptySeq DEF Pipe
<1>3. KeysDistinct
  <2>1. \A i, j \in DOMAIN Seed :
          (/\ IsAddress(Seed[i]) /\ IsAddress(Seed[j])
           /\ Seed[i].key = Seed[j].key) => i = j
    BY DEF IsAddress
  <2> QED BY <1>1, <1>2, <2>1 DEF KeysDistinct, KeysOf, Producing, IsAddress
<1>4. HeldOnce
  BY <1>1 DEF HeldOnce, InSlice, Named, Producing
<1>5. ASSUME NEW id \in AddressId
      PROVE  /\ IsFiniteSet(Successors(id)) /\ IsFiniteSet(LostFor(id)) /\ Spent(id) = 0
  <2>1. Successors(id) = {} /\ LostFor(id) = {}
    <3>1. \A i \in DOMAIN Seed : ~ (i > Len(Seed))
      BY LenProperties
    <3> QED BY <1>1, <1>2, <3>1 DEF Successors, LostFor
  <2>2. IsFiniteSet({}) /\ Cardinality({}) = 0
    BY FS_EmptySet
  <2> QED BY <2>1, <2>2 DEF Spent
<1>6. SuccessorsWithinLifetimes
  BY <1>1, <1>5 DEF SuccessorsWithinLifetimes
<1>7. Len(Seed) <= Len(log[Topic])
  BY <1>1, SeedLength
<1> QED BY <1>3, <1>4, <1>6, <1>7 DEF SuccessorInv

LEMMA NextSuccessors ==
  TypeOK /\ AddressesFromAddresses /\ SuccessorInv /\ [Next]_vars => SuccessorInv'
<1> SUFFICES ASSUME TypeOK, AddressesFromAddresses, SuccessorInv, [Next]_vars
             PROVE  SuccessorInv'
  OBVIOUS
<1>1. CASE CustomerRegistered
  BY <1>1, QuietSuccessors DEF CustomerRegistered, consumerVars, Consumer!HandledUpTo
<1>2. CASE Commit
  BY <1>2, QuietSuccessors DEF Commit, Consumer!AutoCommit, serviceVars, Consumer!HandledUpTo
<1>3. ASSUME NEW g \in Goroutine, NothingToPop(g) PROVE SuccessorInv'
  BY <1>3, QuietSuccessors
     DEF NothingToPop, vars, consumerVars, serviceVars, Consumer!HandledUpTo
<1>4. ASSUME NEW g \in Goroutine, CountProduced(g) PROVE SuccessorInv'
  <2>1. \A k \in Goroutine : task'[k].at = "produce" => task'[k] = task[k]
    BY <1>4 DEF CountProduced, TypeOK, Idle
  <2> QED BY <1>4, <2>1, QuietSuccessors DEF CountProduced, consumerVars, Consumer!HandledUpTo
<1>5. CASE Poll
  <2>1. Consumer!HandledUpTo' = Consumer!HandledUpTo
    <3>1. CASE Consumer!EnterPoll
      BY <3>1 DEF Consumer!EnterPoll, Consumer!HandledUpTo
    <3>2. CASE Consumer!PollReturns
      <4>1. fetched = <<>>
        BY <3>2 DEF Consumer!PollReturns
      <4> QED BY <3>2, <4>1, PollShape, TopicShape DEF Consumer!HandledUpTo
    <3> QED BY <1>5, <3>1, <3>2 DEF Poll
  <2> QED BY <1>5, <2>1, QuietSuccessors DEF Poll, serviceVars
<1>6. CASE ProducerClient
  BY <1>6, DeliverKeepsSuccessors, ExpireKeepsSuccessors DEF ProducerClient
<1>7. CASE UNCHANGED vars
  BY <1>7, QuietSuccessors DEF vars, consumerVars, serviceVars, Consumer!HandledUpTo
<1> QED BY <1>1, <1>2, <1>3, <1>4, <1>5, <1>6, <1>7, HandleKeepsSuccessors,
           CreateKeepsSuccessors, ProduceKeepsSuccessors, CrashKeepsSuccessors
        DEF Next, Start, Impression, Continue

(* OneSuccessorPerLifetime: no interleaving of impressions, polls, commits, *)
(* lost deliveries and crashes makes an address beget more than one address *)
(* per process lifetime (address_service.go:120-141, 147-160, 187-199).     *)
THEOREM SuccessorsPerLifetime == Spec => []OneSuccessorPerLifetime
<1> QED BY InitTypeOK, NextTypeOK, InitOrigin, NextOrigin, InitSuccessors,
           NextSuccessors, SuccessorsFollow, PTL DEF Spec
=============================================================================
